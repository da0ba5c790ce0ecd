---------------------------- MODULE Learning_proofs ----------------------------
(***************************************************************************)
(* Proofs about Pipelines: requests on pipelines leave them consistent and *)
(* do not bring back what was deleted, for any clients, names and number   *)
(* of requests.  Where a thread is in its handler says what it holds of    *)
(* the lock and what it has found or made; the lock keeps other threads    *)
(* out of the places that would make this untrue.                          *)
(*                                                                         *)
(* And about TableHolder: the matches of a row are the rows that belong to *)
(* it, through the index of the join key and through the one that is       *)
(* sorted by time stamps.  First, what the arithmetic of Float does with   *)
(* rationals; then, that sorting sorts; then, what find_range finds; and   *)
(* at last the frames and the columns the placeholder names.               *)
(***************************************************************************)
EXTENDS Pipelines, TableHolder, RecursionTheorems, FiniteSetTheorems

-----------------------------------------------------------------------------
(* Pipelines: the inductive invariant *)

Assigners == {"add", "delete", "copy", "fit", "deploy", "transform"}

\* Which requests get to a place in the handlers.
OpsAt(l) == CASE l = "get_pipeline"                       -> {"fit", "deploy", "copy"}
              [] l = "peek"                               -> {"transform", "refresh"}
              [] l = "set_write"                          -> {"add", "delete", "copy"}
              [] l = "set_weak"                           -> {"deploy", "transform"}
              [] l = "weak"                               -> {"fit", "transform"}
              [] l = "fit"                                -> {"fit"}
              [] l \in {"receive_data", "receiving", "transform", "upgrade_store",
                        "store_df"}                       -> {"transform"}
              [] l \in {"find", "upgrade"}                -> {"fit", "deploy", "transform"}
              [] l = "assign"                             -> Assigners

Places == {"get_pipeline", "peek", "set_write", "set_weak", "weak", "fit", "receive_data",
           "receiving", "transform", "upgrade_store", "store_df", "find", "upgrade", "assign"}

\* Where a thread has made the copy that it will assign.
HasCopy(t) ==
  \/ pc[t] \in {"weak", "set_weak", "receive_data", "receiving", "transform", "upgrade_store",
                "store_df", "fit", "find", "upgrade"}
  \/ pc[t] \in {"set_write", "assign"} /\ req[t].op # "delete"

\* A request is where one of its kind can be, with the copy it needs there.
ThreadsInPlace ==
  /\ pc \in [Clients -> Places \cup {"idle"}]
  /\ req \in [Clients -> Requests \cup {Idle}]
  /\ copy \in [Clients -> PipelineType \cup {Absent}]
  /\ num \in [Clients -> 0..MaxRequests]
  /\ \A t \in Clients :
       /\ pc[t] # "idle" => req[t] \in Requests /\ req[t].op \in OpsAt(pc[t])
       /\ HasCopy(t) => copy[t] \in PipelineType

\* The lock excludes, and no thread holds it in a way its handlers never ask for.
LockSafe ==
  /\ Lock!Exclusive
  /\ \A t \in Clients : held[outer(t)] # "read" /\ held[nested(t)] \in {"free", "read"}

\* What a thread found under the weak lock is there until it assigns.
FoundIsThere == \A t \in Clients :
  \/ pc[t] = "upgrade"
  \/ pc[t] = "assign" /\ req[t].op \in {"fit", "deploy", "transform"}
  => exists(req[t].name)

Matches(p) ==
  /\ p.fitted_.fit # 0 => p.fitted_.obj = p.obj
  /\ p.scores_ \in {0, p.fitted_.fit}

\* The copies that are on their way back are as consistent as what is stored.
CopiesAreConsistent == raced \/
  \A t \in Clients : copy[t] # Absent => Matches(copy[t])

IInv ==
  /\ TypeOK
  /\ ThreadsInPlace
  /\ LockSafe
  /\ FoundIsThere
  /\ PipelinesAreConsistent
  /\ CopiesAreConsistent

-----------------------------------------------------------------------------
(* Pipelines: the parties of the lock *)

\* The lock of a request and the one it takes inside it are held in different
\* names, and no two clients share one.
LEMMA PartyFacts ==
  /\ \A t \in Clients : outer(t) \in Parties /\ nested(t) \in Parties
  /\ \A s, t \in Clients : outer(s) # nested(t)
  /\ \A s, t \in Clients : s # t => outer(s) # outer(t) /\ nested(s) # nested(t)
BY DEF outer, nested, Parties

\* Taking the lock keeps it exclusive, in any of its modes.
LEMMA AcquireSafe ==
  ASSUME held \in [Parties -> Lock!Modes], Lock!Exclusive,
         NEW p \in Parties, NEW m, Lock!Acquire(p, m)
  PROVE  Lock!Exclusive'
BY DEF Lock!Modes, Lock!Exclusive, Lock!Acquire, Lock!NobodyIs

\* The weak writer becomes a strong one: the others are weak writers no more
\* than before, and nobody reads or writes.
LEMMA UpgradeSafe ==
  ASSUME held \in [Parties -> Lock!Modes], Lock!Exclusive,
         NEW p \in Parties, Lock!UpgradeWeak(p)
  PROVE  Lock!Exclusive'
BY DEF Lock!Modes, Lock!Exclusive, Lock!UpgradeWeak, Lock!NobodyIs

\* Letting go of it does, too, whoever does, and if both lock objects go.
LEMMA ReleaseSafe ==
  ASSUME held \in [Parties -> Lock!Modes], Lock!Exclusive,
         held' \in [Parties -> Lock!Modes],
         \A p \in Parties : held'[p] \in {held[p], "free"}
  PROVE  Lock!Exclusive'
BY DEF Lock!Modes, Lock!Exclusive

\* What a request of a kind carries.
LEMMA RequestFields ==
  ASSUME NEW r \in Requests
  PROVE  /\ r.name \in Names
         /\ r.op \in {"add", "delete", "fit", "refresh", "copy", "deploy", "transform"}
         /\ r.op = "copy" => r.other \in Names
         /\ r.op = "deploy" => r.deploy \in BOOLEAN
BY DEF Requests

\* Before any request the invariant holds.
LEMMA InitIInv == Init => IInv
<1> SUFFICES ASSUME Init PROVE IInv
  OBVIOUS
<1>1. TypeOK
  <2>1. /\ pipelines_ \in [Names -> PipelineType \cup {Absent}]
        /\ copy \in [Clients -> PipelineType \cup {Absent}]
        /\ deployed \in [Names -> BOOLEAN] /\ raced \in BOOLEAN
    BY DEF Init
  <2>2. requests \in 0..MaxRequests /\ num \in [Clients -> 0..MaxRequests]
    BY PipelinesAssumption DEF Init, PipelinesAssumption
  <2>3. held \in [Parties -> Lock!Modes] /\ \A p \in Parties : held[p] = "free"
    BY DEF Init, Lock!Modes
  <2>4. \A t \in Clients : pc[t] = "idle" /\ held[outer(t)] = "free" /\ held[nested(t)] = "free"
    BY <2>3, PartyFacts DEF Init
  <2>5. QED  BY <2>1, <2>2, <2>3, <2>4 DEF TypeOK, Holds
<1>2. ThreadsInPlace
  BY PipelinesAssumption DEF Init, ThreadsInPlace, HasCopy, Places, PipelinesAssumption
<1>3. LockSafe
  BY PartyFacts DEF Init, LockSafe, Lock!Exclusive
<1>4. FoundIsThere
  BY DEF Init, FoundIsThere
<1>5. PipelinesAreConsistent /\ CopiesAreConsistent
  BY DEF Init, PipelinesAreConsistent, CopiesAreConsistent, exists
<1>6. QED  BY <1>1, <1>2, <1>3, <1>4, <1>5 DEF IInv

\* What the handlers do to a copy leaves a pipeline.
LEMMA PipelineUpdates ==
  ASSUME NEW p \in PipelineType
  PROVE  /\ \A b \in BOOLEAN : [p EXCEPT !.allow_http_ = b] \in PipelineType
         /\ [p EXCEPT !.scores_ = p.fitted_.fit] \in PipelineType
         /\ \A n \in 0..MaxRequests :
              [p EXCEPT !.fitted_ = [fit |-> n, obj |-> p.obj], !.scores_ = n] \in PipelineType
         /\ \A q \in PipelineType : Mixed(p, q) \subseteq PipelineType
<1> DEFINE Fits == [fit : 0..MaxRequests, obj : 0..MaxRequests]
<1>1. /\ p = [obj |-> p.obj, allow_http_ |-> p.allow_http_, fitted_ |-> p.fitted_,
               scores_ |-> p.scores_]
      /\ p.obj \in 1..MaxRequests /\ p.allow_http_ \in BOOLEAN
      /\ p.fitted_ \in Fits /\ p.scores_ \in 0..MaxRequests
  BY DEF PipelineType
<1>2. p.obj \in 0..MaxRequests /\ p.fitted_.fit \in 0..MaxRequests
  BY <1>1
<1>3. \A b \in BOOLEAN : [p EXCEPT !.allow_http_ = b] \in PipelineType
  BY DEF PipelineType
<1>4. [p EXCEPT !.scores_ = p.fitted_.fit] \in PipelineType
  BY <1>2 DEF PipelineType
<1>5. ASSUME NEW n \in 0..MaxRequests
      PROVE  [p EXCEPT !.fitted_ = [fit |-> n, obj |-> p.obj], !.scores_ = n] \in PipelineType
  <2>1. [fit |-> n, obj |-> p.obj] \in Fits
    BY <1>2
  <2> HIDE DEF Fits
  <2>2. \A f \in Fits : [p EXCEPT !.fitted_ = f, !.scores_ = n] \in [obj : 1..MaxRequests, allow_http_ : BOOLEAN, fitted_ : Fits, scores_ : 0..MaxRequests]
    BY <1>1
  <2>3. QED  BY <2>1, <2>2 DEF PipelineType, Fits
<1>6. ASSUME NEW q \in PipelineType PROVE Mixed(p, q) \subseteq PipelineType
  BY DEF PipelineType, Mixed
<1>7. QED  BY <1>3, <1>4, <1>5, <1>6

\* So a copy is a pipeline, whether it was made under a lock or without one.
LEMMA PeekType ==
  ASSUME IInv, NEW t \in Clients, Peek(t), pc'[t] = "weak", pc[t] = "peek"
  PROVE  copy'[t] \in PipelineType
<1>1. req[t].name \in Names
  BY RequestFields DEF IInv, ThreadsInPlace
<1>2. exists(req[t].name)
  BY DEF Peek, End, Goto, IInv, ThreadsInPlace
<1>3. pipelines_[req[t].name] \in PipelineType
  BY <1>1, <1>2 DEF IInv, TypeOK, exists
<1>4. \A s \in Clients : copy[s] # Absent => Mixed(pipelines_[req[t].name], copy[s]) \subseteq PipelineType
  BY <1>3, PipelineUpdates DEF IInv, TypeOK
<1>5. copy'[t] \in {pipelines_[req[t].name]} \cup
        UNION {Mixed(pipelines_[req[t].name], copy[s]) :
                 s \in {s \in Clients : Assigning(s, req[t].name) /\ copy[s] # Absent}}
  BY <1>2 DEF Peek, SetCopy, End, Goto, IInv, ThreadsInPlace, TypeOK
<1>6. QED  BY <1>3, <1>4, <1>5

\* A request that is over leaves the other threads where they are.
LEMMA EndPlaces ==
  ASSUME IInv, NEW t \in Clients, End(t)
  PROVE  ThreadsInPlace'
BY PipelinesAssumption
   DEF End, Goto, SetCopy, IInv, ThreadsInPlace, TypeOK, Places, HasCopy, PipelinesAssumption

\* So does one that goes on to a place where its copy is not needed, or is one.
LEMMA MovePlaces ==
  ASSUME IInv, NEW t \in Clients, pc[t] # "idle", NEW l \in Places, Goto(t, l),
         req[t].op \in OpsAt(l), req' = req, num' = num, NEW p \in PipelineType, SetCopy(t, p)
  PROVE  ThreadsInPlace'
BY DEF Goto, SetCopy, IInv, ThreadsInPlace, TypeOK, HasCopy

\* A request is always where its kind can be, with the copy it needs there.
LEMMA StepPlaces == IInv /\ [Next]_vars => ThreadsInPlace'
<1> SUFFICES ASSUME IInv, [Next]_vars PROVE ThreadsInPlace'
  OBVIOUS
<1> USE DEF IInv, ThreadsInPlace, Places, HasCopy, Goto, SetCopy
<1>1. ASSUME NEW t \in Clients, NEW r \in Requests, Begin(t, r) PROVE ThreadsInPlace'
  <2>1. requests + 1 \in 1..MaxRequests
    BY <1>1, PipelinesAssumption DEF Begin, TypeOK, PipelinesAssumption
  <2>2. Pipeline(requests + 1) \in PipelineType
    BY <2>1, PipelinesAssumption DEF Pipeline, PipelineType, PipelinesAssumption
  <2>3. QED  BY <1>1, <2>1, <2>2, RequestFields DEF Begin, OpsAt, FirstStep, Assigners
<1>2. ASSUME NEW t \in Clients, GetPipeline(t) PROVE ThreadsInPlace'
  <2>1. CASE End(t)
    BY <2>1, EndPlaces
  <2>2. CASE ~End(t)
    <3> DEFINE p == pipelines_[IF req[t].op = "copy" THEN req[t].other ELSE req[t].name]
               q == IF req[t].op = "deploy" THEN [p EXCEPT !.allow_http_ = req[t].deploy] ELSE p
               l == CASE req[t].op = "fit" -> "weak" [] req[t].op = "deploy" -> "set_weak"
                      [] req[t].op = "copy" -> "set_write"
    <3>1. pc[t] = "get_pipeline" /\ req[t] \in Requests /\ req[t].op \in {"fit", "deploy", "copy"}
      BY <1>2 DEF GetPipeline, OpsAt
    <3>2. p # Absent /\ SetCopy(t, q) /\ Goto(t, l) /\ UNCHANGED <<req, num>>
      BY <1>2, <2>2 DEF GetPipeline, SetCopy, Goto
    <3>3. p \in PipelineType
      BY <3>1, <3>2, RequestFields DEF TypeOK
    <3>4. q \in PipelineType
      BY <3>1, <3>3, RequestFields, PipelineUpdates
    <3>5. l \in Places /\ req[t].op \in OpsAt(l)
      BY <3>1 DEF OpsAt
    <3>6. pc[t] # "idle"
      BY <3>1
    <3> HIDE DEF p, q, l
    <3>7. QED  BY <3>2, <3>4, <3>5, <3>6, MovePlaces
  <2>3. QED  BY <2>1, <2>2
<1>3. ASSUME NEW t \in Clients, Peek(t) PROVE ThreadsInPlace'
  <2>1. CASE End(t)
    BY <2>1, EndPlaces
  <2>2. CASE ~End(t)
    <3>1. /\ pc[t] = "peek" /\ req[t].op = "transform" /\ UNCHANGED <<req, num>> /\ Goto(t, "weak")
          /\ \E p : SetCopy(t, p)
      BY <1>3, <2>2, RequestFields DEF Peek, OpsAt
    <3>2. copy'[t] \in PipelineType
      BY <1>3, <3>1, PeekType
    <3>3. QED  BY <3>1, <3>2, MovePlaces DEF OpsAt, TypeOK
  <2>3. QED  BY <2>1, <2>2
<1>4. ASSUME NEW t \in Clients, TakeWeakLock(t) PROVE ThreadsInPlace'
  BY <1>4, RequestFields DEF TakeWeakLock, OpsAt, Assigners, End, Done, TypeOK
<1>5. ASSUME NEW t \in Clients, BeginReceiveData(t) PROVE ThreadsInPlace'
  BY <1>5, RequestFields DEF BeginReceiveData, OpsAt, Assigners, End, Done, TypeOK
<1>6. ASSUME NEW t \in Clients, EndReceiveData(t) PROVE ThreadsInPlace'
  BY <1>6, RequestFields DEF EndReceiveData, OpsAt, Assigners, End, Done, TypeOK
<1>7. ASSUME NEW t \in Clients, Transform(t) PROVE ThreadsInPlace'
  <2>1. CASE End(t)
    BY <2>1, EndPlaces
  <2>2. CASE ~End(t)
    <3> DEFINE q == IF req[t].score THEN [copy[t] EXCEPT !.scores_ = copy[t].fitted_.fit]
                    ELSE copy[t]
    <3>1. pc[t] = "transform" /\ copy[t] \in PipelineType /\ req[t].op = "transform"
      BY <1>7 DEF Transform, OpsAt
    <3>2. /\ SetCopy(t, q) /\ UNCHANGED <<req, num>>
          /\ Goto(t, "upgrade_store") \/ Goto(t, "set_weak")
      BY <1>7, <2>2 DEF Transform, Done, SetCopy, Goto
    <3>3. q \in PipelineType
      BY <3>1, PipelineUpdates
    <3>4. QED  BY <3>1, <3>2, <3>3, MovePlaces DEF OpsAt
  <2>3. QED  BY <2>1, <2>2
<1>8. ASSUME NEW t \in Clients, StoreDataFrame(t) PROVE ThreadsInPlace'
  <2>1. CASE End(t)
    BY <2>1, EndPlaces
  <2>2. CASE ~End(t)
    <3>1. /\ pc[t] = "store_df" /\ pc' = [pc EXCEPT ![t] = "set_weak"]
          /\ UNCHANGED <<req, num, copy>>
      BY <1>8, <2>2 DEF StoreDataFrame, Done
    <3>2. QED  BY <3>1 DEF OpsAt
  <2>3. QED  BY <2>1, <2>2
<1>9. ASSUME NEW t \in Clients, Fit(t) PROVE ThreadsInPlace'
  <2>1. pc[t] = "fit" /\ copy[t] \in PipelineType /\ num[t] \in 0..MaxRequests
    BY <1>9 DEF Fit, TypeOK
  <2> DEFINE q == [copy[t] EXCEPT !.fitted_ = [fit |-> num[t], obj |-> copy[t].obj],
                                  !.scores_ = num[t]]
  <2>2. q \in PipelineType
    BY <2>1, PipelineUpdates
  <2>3. SetCopy(t, q) /\ Goto(t, "find") /\ UNCHANGED <<req, num>> /\ req[t].op = "fit"
    BY <1>9, <2>1 DEF Fit, OpsAt
  <2> HIDE DEF q
  <2>4. QED  BY <2>1, <2>2, <2>3, MovePlaces DEF OpsAt
<1>10. ASSUME NEW t \in Clients, Find(t) PROVE ThreadsInPlace'
  <2>1. CASE End(t)
    BY <2>1, EndPlaces
  <2>2. CASE ~End(t)
    <3>1. pc[t] = "find" /\ pc' = [pc EXCEPT ![t] = "upgrade"] /\ UNCHANGED <<req, num, copy>>
      BY <1>10, <2>2 DEF Find, Done
    <3>2. QED  BY <3>1 DEF OpsAt
  <2>3. QED  BY <2>1, <2>2
<1>11. ASSUME NEW t \in Clients, Upgrade(t) PROVE ThreadsInPlace'
  BY <1>11, RequestFields DEF Upgrade, OpsAt, Assigners, End, Done, TypeOK
<1>12. ASSUME NEW t \in Clients, TakeWriteLock(t) PROVE ThreadsInPlace'
  BY <1>12, RequestFields DEF TakeWriteLock, OpsAt, Assigners, End, Done, TypeOK
<1>13. ASSUME NEW t \in Clients, Assign(t) PROVE ThreadsInPlace'
  BY <1>13, EndPlaces DEF Assign, Done
<1>14. ASSUME NEW t \in Clients, Fails(t) PROVE ThreadsInPlace'
  BY <1>14, EndPlaces DEF Fails
<1>15. CASE UNCHANGED vars
  BY <1>15 DEF vars
<1>16. QED
  BY <1>1, <1>2, <1>3, <1>4, <1>5, <1>6, <1>7, <1>8, <1>9, <1>10, <1>11, <1>12, <1>13, <1>14, <1>15 DEF Next, Step

-----------------------------------------------------------------------------
(* Pipelines: what threads hold of the lock *)

Strong == {"assign", "store_df"}

Weak == {"receive_data", "receiving", "transform", "fit", "find", "upgrade", "upgrade_store"}

\* The part of the type invariant that is about the lock.
HoldsByPlace ==
  /\ held \in [Parties -> Lock!Modes]
  /\ \A t \in Clients :
       /\ Holds(t, "write") <=> pc[t] \in Strong
       /\ Holds(t, "weak") <=> pc[t] \in Weak
       /\ held[nested(t)] = "read" <=> pc[t] = "receiving"

\* A thread goes on without its lock objects.
LEMMA MoveHolds ==
  ASSUME IInv, NEW t \in Clients, NEW l, Goto(t, l), held' = held,
         pc[t] \in Strong <=> l \in Strong, pc[t] \in Weak <=> l \in Weak,
         pc[t] # "receiving", l # "receiving"
  PROVE  HoldsByPlace' /\ LockSafe'
<1>1. HoldsByPlace'
  BY DEF IInv, TypeOK, ThreadsInPlace, HoldsByPlace, Strong, Weak, Goto, Holds
<1>2. LockSafe'
  BY DEF IInv, LockSafe, Lock!Exclusive
<1>3. QED  BY <1>1, <1>2

\* A thread goes on with a change of what its outer lock object holds.
LEMMA OuterHolds ==
  ASSUME IInv, NEW t \in Clients, NEW l, Goto(t, l),
         NEW m \in {"free", "weak", "write"}, held' = [held EXCEPT ![outer(t)] = m],
         m = "write" <=> l \in Strong, m = "weak" <=> l \in Weak,
         pc[t] # "receiving", l # "receiving",
         Lock!Exclusive'
  PROVE  HoldsByPlace' /\ LockSafe'
<1>1. /\ held' \in [Parties -> Lock!Modes]
      /\ held'[outer(t)] = m
      /\ \A s \in Clients : held'[nested(s)] = held[nested(s)]
      /\ \A s \in Clients \ {t} : held'[outer(s)] = held[outer(s)]
  BY PartyFacts DEF IInv, TypeOK, Lock!Modes
<1>2. /\ pc'[t] = l
      /\ \A s \in Clients \ {t} : pc'[s] = pc[s]
  BY DEF IInv, ThreadsInPlace, Goto
<1>3. HoldsByPlace'
  BY <1>1, <1>2 DEF IInv, TypeOK, HoldsByPlace, Strong, Weak, Holds
<1>4. LockSafe'
  BY <1>1 DEF IInv, LockSafe
<1>5. QED  BY <1>3, <1>4

\* A thread goes on with a change of what its nested lock object holds.
LEMMA NestedHolds ==
  ASSUME IInv, NEW t \in Clients, NEW l, Goto(t, l),
         NEW m \in {"free", "read"}, held' = [held EXCEPT ![nested(t)] = m],
         m = "read" <=> l = "receiving",
         pc[t] \in {"receive_data", "receiving"},
         l \in {"transform", "receiving"},
         Lock!Exclusive'
  PROVE  HoldsByPlace' /\ LockSafe'
<1>1. /\ held' \in [Parties -> Lock!Modes]
      /\ held'[nested(t)] = m
      /\ \A s \in Clients : held'[outer(s)] = held[outer(s)]
      /\ \A s \in Clients \ {t} : held'[nested(s)] = held[nested(s)]
  BY PartyFacts DEF IInv, TypeOK, Lock!Modes
<1>2. /\ pc'[t] = l
      /\ \A s \in Clients \ {t} : pc'[s] = pc[s]
  BY DEF IInv, ThreadsInPlace, Goto
<1>3. HoldsByPlace'
  BY <1>1, <1>2 DEF IInv, TypeOK, HoldsByPlace, Strong, Weak, Holds
<1>4. LockSafe'
  BY <1>1 DEF IInv, LockSafe
<1>5. QED  BY <1>3, <1>4

\* The destructor of the outer lock object.
LEMMA ReleaseOuter ==
  ASSUME IInv, NEW t \in Clients, Lock!Release(outer(t)), NEW l, Goto(t, l),
         l \in {"idle", "set_weak"}, pc[t] # "receiving"
  PROVE  HoldsByPlace' /\ LockSafe'
<1>1. held' = [held EXCEPT ![outer(t)] = "free"]
  BY DEF Lock!Release
<1>2. Lock!Exclusive'
  BY <1>1, ReleaseSafe, PartyFacts DEF IInv, TypeOK, LockSafe, Lock!Modes
<1>3. QED  BY <1>1, <1>2, OuterHolds DEF Strong, Weak

\* Every step keeps the lock exclusive, and what the threads hold is what the
\* places they go to call for.
LEMMA StepLock == IInv /\ [Next]_vars => HoldsByPlace' /\ LockSafe'
<1> SUFFICES ASSUME IInv, [Next]_vars PROVE HoldsByPlace' /\ LockSafe'
  OBVIOUS
<1>1. ASSUME NEW t \in Clients, NEW r \in Requests, Begin(t, r)
      PROVE  HoldsByPlace' /\ LockSafe'
  <2>1. FirstStep(r.op) \in {"set_write", "get_pipeline", "peek"}
    BY RequestFields DEF FirstStep
  <2>2. QED  BY <1>1, <2>1, MoveHolds DEF Begin, Strong, Weak
<1>2. ASSUME NEW t \in Clients, GetPipeline(t) PROVE HoldsByPlace' /\ LockSafe'
  <2>1. pc[t] = "get_pipeline" /\ req[t].op \in {"fit", "deploy", "copy"} /\ held' = held
    BY <1>2 DEF GetPipeline, IInv, ThreadsInPlace, OpsAt
  <2>2. \E l \in {"idle", "weak", "set_weak", "set_write"} : Goto(t, l)
    BY <1>2, <2>1 DEF GetPipeline, End
  <2>3. QED  BY <2>1, <2>2, MoveHolds DEF Strong, Weak
<1>3. ASSUME NEW t \in Clients, Peek(t) PROVE HoldsByPlace' /\ LockSafe'
  <2>1. pc[t] = "peek" /\ held' = held /\ \E l \in {"idle", "weak"} : Goto(t, l)
    BY <1>3 DEF Peek, End
  <2>2. QED  BY <2>1, MoveHolds DEF Strong, Weak
<1>4. ASSUME NEW t \in Clients, TakeWeakLock(t) PROVE HoldsByPlace' /\ LockSafe'
  <2>1. /\ pc[t] \in {"weak", "set_weak"} /\ held' = [held EXCEPT ![outer(t)] = "weak"]
        /\ \E l \in {"find", "fit", "receive_data"} : Goto(t, l)
    BY <1>4 DEF TakeWeakLock, Lock!Acquire
  <2>2. Lock!Exclusive'
    BY <1>4, AcquireSafe, PartyFacts DEF TakeWeakLock, IInv, TypeOK, LockSafe
  <2>3. QED  BY <2>1, <2>2, OuterHolds DEF Strong, Weak
<1>5. ASSUME NEW t \in Clients, BeginReceiveData(t) PROVE HoldsByPlace' /\ LockSafe'
  <2>1. Lock!Exclusive'
    BY <1>5, AcquireSafe, PartyFacts DEF BeginReceiveData, IInv, TypeOK, LockSafe
  <2>2. QED  BY <1>5, <2>1, NestedHolds DEF BeginReceiveData, Lock!Acquire
<1>6. ASSUME NEW t \in Clients, EndReceiveData(t) PROVE HoldsByPlace' /\ LockSafe'
  <2>1. Lock!Exclusive'
    BY <1>6, ReleaseSafe, PartyFacts
       DEF EndReceiveData, Lock!Release, IInv, TypeOK, LockSafe, Lock!Modes
  <2>2. QED  BY <1>6, <2>1, NestedHolds DEF EndReceiveData, Lock!Release
<1>7. ASSUME NEW t \in Clients, Transform(t) PROVE HoldsByPlace' /\ LockSafe'
  <2>1. pc[t] = "transform"
    BY <1>7 DEF Transform
  <2>2. \/ Goto(t, "idle") /\ Lock!Release(outer(t))
        \/ Goto(t, "upgrade_store") /\ held' = held
        \/ Goto(t, "set_weak") /\ Lock!Release(outer(t))
    BY <1>7 DEF Transform, Done, End
  <2>3. QED  BY <2>1, <2>2, MoveHolds, ReleaseOuter DEF Strong, Weak
<1>8. ASSUME NEW t \in Clients, StoreDataFrame(t) PROVE HoldsByPlace' /\ LockSafe'
  <2>1. /\ pc[t] = "store_df" /\ Lock!Release(outer(t))
        /\ Goto(t, "idle") \/ Goto(t, "set_weak")
    BY <1>8 DEF StoreDataFrame, Done, End
  <2>2. QED  BY <2>1, ReleaseOuter
<1>9. ASSUME NEW t \in Clients, Fit(t) PROVE HoldsByPlace' /\ LockSafe'
  BY <1>9, MoveHolds DEF Fit, Strong, Weak
<1>10. ASSUME NEW t \in Clients, Find(t) PROVE HoldsByPlace' /\ LockSafe'
  <2>1. pc[t] = "find"
    BY <1>10 DEF Find
  <2>2. \/ Goto(t, "upgrade") /\ held' = held
        \/ Goto(t, "idle") /\ Lock!Release(outer(t))
    BY <1>10 DEF Find, Done, End
  <2>3. QED  BY <2>1, <2>2, MoveHolds, ReleaseOuter DEF Strong, Weak
<1>11. ASSUME NEW t \in Clients, Upgrade(t) PROVE HoldsByPlace' /\ LockSafe'
  <2>1. /\ pc[t] \in {"upgrade", "upgrade_store"}
        /\ held' = [held EXCEPT ![outer(t)] = "write"]
        /\ \E l \in {"store_df", "assign"} : Goto(t, l)
    BY <1>11 DEF Upgrade, Lock!UpgradeWeak
  <2>2. Lock!Exclusive'
    BY <1>11, UpgradeSafe, PartyFacts DEF Upgrade, IInv, TypeOK, LockSafe
  <2>3. QED  BY <2>1, <2>2, OuterHolds DEF Strong, Weak
<1>12. ASSUME NEW t \in Clients, TakeWriteLock(t) PROVE HoldsByPlace' /\ LockSafe'
  <2>1. /\ pc[t] = "set_write" /\ Goto(t, "assign")
        /\ held' = [held EXCEPT ![outer(t)] = "write"]
    BY <1>12 DEF TakeWriteLock, Lock!Acquire
  <2>2. Lock!Exclusive'
    BY <1>12, AcquireSafe, PartyFacts DEF TakeWriteLock, IInv, TypeOK, LockSafe
  <2>3. QED  BY <2>1, <2>2, OuterHolds DEF Strong, Weak
<1>13. ASSUME NEW t \in Clients, Assign(t) PROVE HoldsByPlace' /\ LockSafe'
  BY <1>13, ReleaseOuter DEF Assign, Done, End
<1>14. ASSUME NEW t \in Clients, Fails(t) PROVE HoldsByPlace' /\ LockSafe'
  <2>1. /\ held' \in [Parties -> Lock!Modes]
        /\ \A p \in Parties : held'[p] \in {held[p], "free"}
        /\ held'[outer(t)] = "free" /\ held'[nested(t)] = "free"
        /\ \A s \in Clients \ {t} :
             held'[outer(s)] = held[outer(s)] /\ held'[nested(s)] = held[nested(s)]
    BY <1>14, PartyFacts DEF Fails, IInv, TypeOK, Lock!Modes
  <2>2. /\ pc'[t] = "idle"
        /\ \A s \in Clients \ {t} : pc'[s] = pc[s]
    BY <1>14 DEF Fails, End, Goto, IInv, ThreadsInPlace
  <2>3. HoldsByPlace'
    BY <2>1, <2>2 DEF IInv, TypeOK, HoldsByPlace, Strong, Weak, Holds
  <2>4. Lock!Exclusive'
    BY <2>1, ReleaseSafe DEF IInv, TypeOK, LockSafe
  <2>5. LockSafe'
    BY <2>1, <2>4 DEF IInv, LockSafe
  <2>6. QED  BY <2>3, <2>5
<1>15. CASE UNCHANGED vars
  BY <1>15 DEF vars, IInv, TypeOK, LockSafe, HoldsByPlace, Strong, Weak, Holds, Lock!Exclusive
<1>16. QED
  BY <1>1, <1>2, <1>3, <1>4, <1>5, <1>6, <1>7, <1>8, <1>9, <1>10, <1>11, <1>12, <1>13,
     <1>14, <1>15 DEF Next, Step

-----------------------------------------------------------------------------
(* Pipelines: the variables have their types *)

\* Only an assignment changes the pipelines, and what deploy has answered.
LEMMA UnassignedSteps ==
  ASSUME [Next]_vars, ~\E t \in Clients : Assign(t)
  PROVE  UNCHANGED <<pipelines_, deployed>>
BY DEF Next, Step, vars, Begin, GetPipeline, Peek, TakeWeakLock, BeginReceiveData, EndReceiveData,
       Transform, StoreDataFrame, Fit, Find, Upgrade, TakeWriteLock, Fails

\* Every step keeps the type invariant.
LEMMA StepType == IInv /\ [Next]_vars => TypeOK'
<1> SUFFICES ASSUME IInv, [Next]_vars PROVE TypeOK'
  OBVIOUS
<1>1. /\ held' \in [Parties -> Lock!Modes] /\ HoldsByPlace'
      /\ copy' \in [Clients -> PipelineType \cup {Absent}]
      /\ num' \in [Clients -> 0..MaxRequests]
  BY StepLock, StepPlaces DEF HoldsByPlace, ThreadsInPlace
<1>2. requests' \in 0..MaxRequests
  <2>1. \/ requests' = requests
        \/ requests < MaxRequests /\ requests' = requests + 1
    BY DEF Next, Step, vars, Begin, GetPipeline, Peek, TakeWeakLock, BeginReceiveData,
           EndReceiveData, Transform, StoreDataFrame, Fit, Find, Upgrade, TakeWriteLock, Assign,
           Fails
  <2>2. QED  BY <2>1, PipelinesAssumption DEF PipelinesAssumption, IInv, TypeOK
<1>3. raced' \in BOOLEAN
  BY DEF Next, Step, vars, Begin, GetPipeline, Peek, TakeWeakLock, BeginReceiveData, EndReceiveData,
         Transform, StoreDataFrame, Fit, Find, Upgrade, TakeWriteLock, Assign, Fails, IInv, TypeOK
<1>4. /\ pipelines_' \in [Names -> PipelineType \cup {Absent}]
      /\ deployed' \in [Names -> BOOLEAN]
  <2>1. CASE \E t \in Clients : Assign(t)
    <3>1. PICK t \in Clients : Assign(t)
      BY <2>1
    <3>2. copy[t] \in PipelineType \cup {Absent} /\ pc[t] = "assign"
      BY <3>1 DEF Assign, IInv, TypeOK
    <3>3. req[t].op \in {"add", "copy", "deploy"} => copy[t].allow_http_ \in BOOLEAN
      BY <3>2 DEF IInv, ThreadsInPlace, HasCopy, PipelineType
    <3>4. QED  BY <3>1, <3>2, <3>3 DEF Assign, IInv, TypeOK
  <2>2. CASE ~\E t \in Clients : Assign(t)
    BY <2>2, UnassignedSteps DEF IInv, TypeOK
  <2>3. QED  BY <2>1, <2>2
<1>5. QED  BY <1>1, <1>2, <1>3, <1>4 DEF TypeOK, HoldsByPlace, Strong, Weak

-----------------------------------------------------------------------------
(* Pipelines: what was found is there *)

\* While a thread assigns, no other thread is between its look at the map and
\* its own assignment.
LEMMA AssignsAlone ==
  ASSUME IInv, NEW s \in Clients, NEW t \in Clients, s # t, pc[s] = "assign"
  PROVE  pc[t] \notin {"find", "upgrade", "assign"}
<1>1. held[outer(s)] = "write"
  BY DEF IInv, TypeOK, Holds
<1>2. held[outer(t)] = "free"
  BY <1>1, PartyFacts DEF IInv, LockSafe, Lock!Exclusive
<1>3. QED  BY <1>2 DEF IInv, TypeOK, Holds

ThreadStep(t) == (\E r \in Requests : Begin(t, r)) \/ Step(t) \/ Fails(t)

\* A step of a thread leaves the others where they are.
LEMMA OthersStay ==
  ASSUME IInv, NEW t \in Clients, ThreadStep(t)
  PROVE  \A s \in Clients \ {t} :
           pc'[s] = pc[s] /\ req'[s] = req[s] /\ copy'[s] = copy[s]
BY DEF IInv, ThreadsInPlace, Goto, SetCopy, End, Done, ThreadStep,
       Begin, Step, GetPipeline, Peek, TakeWeakLock, BeginReceiveData, EndReceiveData, Transform,
       StoreDataFrame, Fit, Find, Upgrade, TakeWriteLock, Assign, Fails

\* A thread gets to its upgrade by finding its pipeline, and to its assignment
\* by an upgrade or by the lock for writing.
LEMMA WaysToAssign ==
  ASSUME IInv, NEW t \in Clients, ThreadStep(t)
  PROVE  /\ pc'[t] = "upgrade" => req' = req /\ exists(req[t].name)
         /\ pc'[t] = "assign" =>
              /\ req' = req
              /\ pc[t] = "upgrade" \/ req[t].op \in {"add", "delete", "copy"}
<1> USE DEF IInv, ThreadsInPlace, Goto, End, Done
<1>1. ASSUME NEW r \in Requests, Begin(t, r) PROVE pc'[t] \notin {"upgrade", "assign"}
  BY <1>1, RequestFields DEF Begin, FirstStep
<1>2. CASE GetPipeline(t)
  <2>1. pc[t] = "get_pipeline" /\ req[t].op \in {"fit", "deploy", "copy"}
    BY <1>2 DEF GetPipeline, OpsAt
  <2>2. QED  BY <1>2, <2>1 DEF GetPipeline
<1>3. CASE Peek(t) \/ TakeWeakLock(t) \/ BeginReceiveData(t) \/ EndReceiveData(t)
           \/ Transform(t) \/ StoreDataFrame(t) \/ Fit(t) \/ Assign(t) \/ Fails(t)
  BY <1>3 DEF Peek, TakeWeakLock, BeginReceiveData, EndReceiveData, Transform, StoreDataFrame,
              Fit, Assign, Fails
<1>4. CASE Find(t) \/ Upgrade(t)
  BY <1>4 DEF Find, Upgrade
<1>5. CASE TakeWriteLock(t)
  BY <1>5 DEF TakeWriteLock, OpsAt
<1>6. QED  BY <1>1, <1>2, <1>3, <1>4, <1>5 DEF ThreadStep, Step

\* Who found a pipeline under the weak lock keeps others from erasing it.
LEMMA StepFound == IInv /\ [Next]_vars => FoundIsThere'
<1> SUFFICES ASSUME IInv, [Next]_vars PROVE FoundIsThere'
  OBVIOUS
<1>1. CASE \E t \in Clients : Assign(t)
  <2>1. PICK t \in Clients : Assign(t)
    BY <1>1
  <2>2. pc[t] = "assign" /\ pc'[t] = "idle"
    BY <2>1 DEF Assign, Done, End, Goto, IInv, ThreadsInPlace
  <2>3. \A s \in Clients \ {t} : pc'[s] \notin {"upgrade", "assign"}
    BY <2>1, <2>2, AssignsAlone, OthersStay DEF ThreadStep, Step
  <2>4. QED  BY <2>2, <2>3 DEF FoundIsThere
<1>2. ASSUME NEW t \in Clients, ThreadStep(t), ~\E s \in Clients : Assign(s)
      PROVE  FoundIsThere'
  <2>1. pipelines_' = pipelines_
    BY <1>2, UnassignedSteps
  <2>2. SUFFICES ASSUME NEW s \in Clients,
                        \/ pc'[s] = "upgrade"
                        \/ pc'[s] = "assign" /\ req'[s].op \in {"fit", "deploy", "transform"}
                 PROVE  exists(req[s].name) /\ req'[s] = req[s]
    BY <2>1 DEF FoundIsThere, exists
  <2>3. CASE s = t
    BY <1>2, <2>2, <2>3, WaysToAssign DEF IInv, FoundIsThere
  <2>4. CASE s # t
    BY <1>2, <2>2, <2>4, OthersStay DEF IInv, FoundIsThere
  <2>5. QED  BY <2>3, <2>4
<1>3. CASE UNCHANGED vars
  BY <1>3 DEF vars, IInv, FoundIsThere, exists
<1>4. QED  BY <1>1, <1>2, <1>3 DEF Next, ThreadStep

-----------------------------------------------------------------------------
(* Pipelines: what is stored together belongs together *)

\* A step makes no copy that is inconsistent, if none was made without lock
\* while another thread assigned.
LEMMA CopyMatches ==
  ASSUME IInv, NEW t \in Clients, ThreadStep(t), ~raced', copy'[t] # Absent
  PROVE  Matches(copy'[t])
<1> USE DEF IInv, ThreadsInPlace, SetCopy
<1>1. ~raced
  BY DEF ThreadStep, Step, Begin, GetPipeline, Peek, TakeWeakLock, BeginReceiveData,
         EndReceiveData, Transform, StoreDataFrame, Fit, Find, Upgrade, TakeWriteLock, Assign,
         Fails
<1>2. /\ copy[t] # Absent => Matches(copy[t])
      /\ \A n \in Names : exists(n) => Matches(pipelines_[n])
  BY <1>1 DEF CopiesAreConsistent, PipelinesAreConsistent, Matches
<1>3. CASE copy'[t] = copy[t]
  BY <1>2, <1>3
<1>4. ASSUME NEW r \in Requests, Begin(t, r) PROVE Matches(copy'[t])
  BY <1>4 DEF Begin, Pipeline, Matches
<1>5. CASE GetPipeline(t)
  <2> DEFINE p == pipelines_[IF req[t].op = "copy" THEN req[t].other ELSE req[t].name]
  <2>1. pc[t] = "get_pipeline" /\ req[t] \in Requests
    BY <1>5 DEF GetPipeline
  <2>2. CASE p = Absent
    BY <1>5, <2>2 DEF GetPipeline, End
  <2>3. CASE p # Absent
    <3>1. Matches(p) /\ p \in PipelineType
      BY <1>2, <2>1, <2>3, RequestFields DEF exists, TypeOK
    <3>2. copy'[t] = IF req[t].op = "deploy" THEN [p EXCEPT !.allow_http_ = req[t].deploy]
                     ELSE p
      BY <1>5, <2>3 DEF GetPipeline
    <3>3. Matches([p EXCEPT !.allow_http_ = req[t].deploy])
      BY <3>1 DEF Matches, PipelineType
    <3>4. QED  BY <3>1, <3>2, <3>3
  <2>4. QED  BY <2>2, <2>3
<1>6. CASE Peek(t)
  <2>1. pc[t] = "peek" /\ req[t].name \in Names
    BY <1>6, RequestFields DEF Peek
  <2>2. \A s \in Clients : pc[s] # "assign"
    BY <1>6 DEF Peek
  <2>3. copy'[t] = pipelines_[req[t].name]
    BY <1>6, <2>2 DEF Peek, Assigning, End
  <2>4. QED  BY <1>2, <2>1, <2>3 DEF exists
<1>7. CASE Transform(t)
  <2>1. pc[t] = "transform" /\ copy[t] \in PipelineType
    BY <1>7 DEF Transform, HasCopy
  <2>2. Matches([copy[t] EXCEPT !.scores_ = copy[t].fitted_.fit])
    <3>1. Matches(copy[t])
      BY <1>2, <2>1, PipelinesAssumption DEF PipelinesAssumption
    <3>2. QED  BY <2>1, <3>1 DEF Matches, PipelineType
  <2>3. \/ copy'[t] \in {Absent, copy[t]}
        \/ copy'[t] = [copy[t] EXCEPT !.scores_ = copy[t].fitted_.fit]
    BY <1>7 DEF Transform, Done, End
  <2>4. QED  BY <1>3, <2>2, <2>3
<1>8. CASE Fit(t)
  <2>1. pc[t] = "fit" /\ copy[t] \in PipelineType
    BY <1>8 DEF Fit, HasCopy
  <2>2. copy'[t] = [copy[t] EXCEPT !.fitted_ = [fit |-> num[t], obj |-> copy[t].obj],
                                   !.scores_ = num[t]]
    BY <1>8 DEF Fit
  <2>3. QED  BY <2>1, <2>2 DEF Matches, PipelineType
<1>9. QED
  BY <1>3, <1>4, <1>5, <1>6, <1>7, <1>8
     DEF ThreadStep, Step, TakeWeakLock, BeginReceiveData, EndReceiveData, StoreDataFrame, Find,
         Upgrade, TakeWriteLock, Assign, Fails, Done, End

\* So all copies are consistent, and with them what is assigned.
LEMMA StepConsistent ==
  IInv /\ [Next]_vars => PipelinesAreConsistent' /\ CopiesAreConsistent'
<1> SUFFICES ASSUME IInv, [Next]_vars, ~raced'
             PROVE  /\ \A n \in Names : exists(n)' => Matches(pipelines_'[n])
                    /\ \A t \in Clients : copy'[t] # Absent => Matches(copy'[t])
  BY DEF PipelinesAreConsistent, CopiesAreConsistent, Matches
<1>1. CASE UNCHANGED vars
  BY <1>1 DEF vars, IInv, PipelinesAreConsistent, CopiesAreConsistent, Matches, exists
<1>2. ASSUME NEW t \in Clients, ThreadStep(t)
      PROVE  ~raced /\ \A s \in Clients : copy'[s] # Absent => Matches(copy'[s])
  <2>1. ~raced
    BY <1>2
       DEF ThreadStep, Step, Begin, GetPipeline, Peek, TakeWeakLock, BeginReceiveData,
           EndReceiveData, Transform, StoreDataFrame, Fit, Find, Upgrade, TakeWriteLock, Assign,
           Fails
  <2>2. QED  BY <1>2, <2>1, CopyMatches, OthersStay DEF IInv, CopiesAreConsistent
<1>3. ASSUME NEW t \in Clients, ThreadStep(t)
      PROVE  \A n \in Names : exists(n)' => Matches(pipelines_'[n])
  <2>1. CASE \E s \in Clients : Assign(s)
    <3>1. PICK s \in Clients : Assign(s)
      BY <2>1
    <3>2. \A n \in Names : pipelines_'[n] \in {pipelines_[n], copy[s]}
      BY <3>1 DEF Assign, IInv, TypeOK
    <3>3. QED
      BY <1>2, <1>3, <3>2
         DEF IInv, PipelinesAreConsistent, CopiesAreConsistent, Matches, exists
  <2>2. CASE ~\E s \in Clients : Assign(s)
    BY <1>2, <1>3, <2>2, UnassignedSteps DEF IInv, PipelinesAreConsistent, Matches, exists
  <2>3. QED  BY <2>1, <2>2
<1>4. QED  BY <1>1, <1>2, <1>3 DEF Next, ThreadStep

-----------------------------------------------------------------------------
(* Pipelines: the theorems *)

\* No step of a handler, of a client or of the lock breaks the invariant.
LEMMA StepIInv == IInv /\ [Next]_vars => IInv'
BY StepType, StepPlaces, StepLock, StepFound, StepConsistent DEF IInv

\* The handlers of PipelineManager keep the inductive invariant, whatever the
\* requests and however their steps interleave.
THEOREM Invariance == Spec => []IInv
<1>1. QED  BY InitIInv, StepIInv, PTL DEF Spec

\* Each thread holds of read_write_lock_ what its place in its handler calls for
\* (PipelineManager.cpp:368-428, 735-884, ProjectManager.hpp).
THEOREM Typing == Spec => []TypeOK
<1>1. IInv => TypeOK
  BY DEF IInv
<1>2. QED  BY <1>1, Invariance, PTL

\* Without a copy in the middle of an assignment, the definition, the fit and
\* the scores that are stored together belong together.
THEOREM Consistency == Spec => []PipelinesAreConsistent
<1>1. IInv => PipelinesAreConsistent
  BY DEF IInv
<1>2. QED  BY <1>1, Invariance, PTL

\* fit, deploy and transform assign to an entry that is still there: nothing
\* but a request to add or copy a pipeline brings one back that was deleted.
THEOREM NoResurrection == Spec => DeletedStaysDeleted
<1>1. ASSUME IInv, NEW t \in Clients, Assign(t), ~exists(req[t].name)
      PROVE  req[t].op \in {"add", "copy", "delete"}
  <2>1. pc[t] = "assign" /\ req[t].op \in Assigners
    BY <1>1 DEF Assign, IInv, ThreadsInPlace, OpsAt
  <2>2. req[t].op \notin {"fit", "deploy", "transform"}
    BY <1>1, <2>1 DEF IInv, FoundIsThere
  <2>3. QED  BY <2>1, <2>2 DEF Assigners
<1>2. IInv /\ [Next]_vars =>
        [\A t \in Clients : Assign(t) /\ ~exists(req[t].name) =>
           req[t].op \in {"add", "copy", "delete"}]_vars
  BY <1>1
<1>3. QED  BY <1>2, Invariance, PTL DEF Spec, DeletedStaysDeleted

-----------------------------------------------------------------------------
(* Matches: rationals *)

\* a is less than b, without division.
Before(a, b) == a[1] * b[2] < b[1] * a[2]

\* What the quotient and the rest of a division are.
LEMMA Division ==
  ASSUME NEW a \in Int, NEW b \in Nat \ {0}
  PROVE  /\ a \div b \in Int /\ a % b \in Nat /\ a % b < b
         /\ a = b * (a \div b) + (a % b)
  OBVIOUS

\* An inequality keeps its direction when both sides are multiplied by a positive
\* number.
LEMMA TimesPositive ==
  ASSUME NEW a \in Int, NEW b \in Int, NEW c \in Nat \ {0}
  PROVE  /\ a < b <=> a * c < b * c
         /\ a <= b <=> a * c <= b * c
  OBVIOUS

\* Denominators are multiplied to denominators.
LEMMA ProductPositive ==
  ASSUME NEW a \in Nat \ {0}, NEW b \in Nat \ {0}
  PROVE  a * b \in Nat \ {0}
  OBVIOUS

\* The recursion of smaller ends, as the denominators become smaller.
LEMMA SmallerDef ==
  \A x \in Rational \X Rational :
    smaller[x] =
      LET a == x[1][1]  b == x[1][2]  c == x[2][1]  d == x[2][2]
          r == a % b    t == c % d
      IN  IF a \div b # c \div d THEN a \div b < c \div d
          ELSE t # 0 /\ (r = 0 \/ smaller[<<<<d, t>>, <<b, r>>>>])
<1> DEFINE D == Rational \X Rational
           p(x) == x[1][1] \div x[1][2]
           q(x) == x[2][1] \div x[2][2]
           r(x) == x[1][1] % x[1][2]
           t(x) == x[2][1] % x[2][2]
           stop == [x \in D |-> p(x) # q(x) \/ t(x) = 0 \/ r(x) = 0]
           result == [x \in D |-> p(x) < q(x) \/ (p(x) = q(x) /\ t(x) # 0)]
           next == [x \in D |-> IF stop[x] THEN x
                                ELSE <<<<x[2][2], t(x)>>, <<x[1][2], r(x)>>>>]
           measure == [x \in D |-> x[1][2] + x[2][2]]
           Body(g, x) == IF p(x) # q(x) THEN p(x) < q(x)
                         ELSE t(x) # 0 /\ (r(x) = 0 \/ g[<<<<x[2][2], t(x)>>, <<x[1][2], r(x)>>>>])
<1>1. ASSUME NEW x \in D
      PROVE  /\ r(x) \in Nat /\ r(x) < x[1][2] /\ t(x) \in Nat /\ t(x) < x[2][2]
             /\ x[1][2] \in Nat \ {0} /\ x[2][2] \in Nat \ {0}
  BY Division DEF Rational
<1>2. measure \in [D -> Nat] /\ stop \in [D -> BOOLEAN] /\ result \in [D -> BOOLEAN]
  <2>1. measure \in [D -> Nat]
    BY <1>1
  <2>2. stop \in [D -> BOOLEAN]
    <3> HIDE DEF p, q, r, t, D
    <3> QED
      OBVIOUS
  <2>3. result \in [D -> BOOLEAN]
    <3> HIDE DEF p, q, r, t, D
    <3> QED
      OBVIOUS
  <2> QED
    BY <2>1, <2>2, <2>3
<1>3. ASSUME NEW x \in D
      PROVE  next[x] \in D /\ (~ stop[x] => measure[next[x]] < measure[x])
  <2>1. CASE stop[x]
    BY <2>1
  <2>2. CASE ~ stop[x]
    <3>1. next[x] = <<<<x[2][2], t(x)>>, <<x[1][2], r(x)>>>>
      BY <2>2
    <3>2. t(x) \in Nat \ {0} /\ r(x) \in Nat \ {0}
      BY <1>1, <2>2
    <3> HIDE DEF next, r, t, stop
    <3>3. next[x] \in D
      BY <1>1, <3>1, <3>2 DEF Rational
    <3> QED
      BY <1>1, <3>1, <3>2, <3>3
  <2> QED
    BY <2>1, <2>2
<1>4. next \in [D -> D]
  BY <1>3
<1>5. PICK f : Loops(f, D, BOOLEAN, stop, result, next)
  <2>1. Ends(D, BOOLEAN, measure, stop, result, next)
    <3> HIDE DEF D, measure, stop, result, next
    <3> QED
      BY <1>2, <1>3, <1>4 DEF Ends
  <2> HIDE DEF D, measure, stop, result, next
  <2> QED
    BY <2>1, TailRecursionExists
<1>6. ASSUME NEW x \in D PROVE f[x] = Body(f, x)
  <2>1. /\ f \in [D -> BOOLEAN] /\ next[x] \in D
        /\ f[x] = IF stop[x] THEN result[x] ELSE f[next[x]]
    <3> HIDE DEF D, stop, result, next
    <3> QED
      BY <1>3, <1>5 DEF Loops
  <2>2. f[next[x]] \in BOOLEAN
    <3> HIDE DEF D, next
    <3> QED
      BY <2>1
  <2>3. CASE stop[x]
    <3>1. f[x] = (p(x) < q(x) \/ (p(x) = q(x) /\ t(x) # 0))
      BY <2>1, <2>3
    <3>2. p(x) # q(x) \/ t(x) = 0 \/ r(x) = 0
      BY <2>3
    <3> HIDE DEF p, q, r, t
    <3>3. CASE p(x) # q(x)
      BY <3>1, <3>3
    <3>4. CASE p(x) = q(x)
      <4>1. ~ (p(x) < q(x))
        <5>1. p(x) \in Int
          BY Division DEF p, Rational
        <5> QED
          BY <3>4, <5>1
      <4> QED
        BY <3>1, <3>2, <3>4, <4>1, Zenon
    <3> QED
      BY <3>3, <3>4
  <2>4. CASE ~ stop[x]
    <3>1. next[x] = <<<<x[2][2], t(x)>>, <<x[1][2], r(x)>>>>
      BY <2>4
    <3>2. ~ (p(x) # q(x) \/ t(x) = 0 \/ r(x) = 0)
      BY <2>4
    <3>3. f[x] = f[next[x]]
      <4> HIDE DEF stop, result, next
      <4> QED
        BY <2>1, <2>4
    <3> HIDE DEF p, q, r, t, next
    <3> QED
      BY <2>2, <3>1, <3>2, <3>3
  <2> QED
    BY <2>3, <2>4
<1>7. f = [x \in D |-> Body(f, x)]
  <2>1. f \in [D -> BOOLEAN]
    BY <1>5 DEF Loops
  <2> HIDE DEF D, Body
  <2> QED
    BY <1>6, <2>1
<1>8. smaller = [x \in D |-> Body(smaller, x)]
  <2>1. \E g : g = [x \in D |-> Body(g, x)]
    BY <1>7
  <2> QED
    BY <2>1 DEF smaller
<1> HIDE DEF Body
<1>9. \A x \in D : smaller[x] = Body(smaller, x)
  BY <1>8
<1> QED
  BY <1>9 DEF Body

\* a/b < c/d where the integral parts are the same.
LEMMA SameIntegralPart ==
  ASSUME NEW b \in Nat \ {0}, NEW d \in Nat \ {0}, NEW r \in Nat, NEW t \in Nat,
         NEW q \in Int, NEW a \in Int, NEW c \in Int, a = b * q + r, c = d * q + t
  PROVE  a * d < c * b <=> r * d < t * b
<1>1. a * d = b * q * d + r * d
  OBVIOUS
<1>2. c * b = d * q * b + t * b
  OBVIOUS
<1>3. b * q * d = d * q * b
  OBVIOUS
<1> DEFINE x == b * q * d
           y == r * d
           z == t * b
<1>4. x \in Int /\ y \in Int /\ z \in Int
  OBVIOUS
<1>5. a * d = x + y /\ c * b = x + z
  BY <1>1, <1>2, <1>3
<1> HIDE DEF x, y, z
<1>6. a * d < c * b <=> y < z
  BY <1>4, <1>5
<1> QED
  BY <1>6 DEF y, z

\* a/b < c/d where the integral part is less.
LEMMA LessIntegralPart ==
  ASSUME NEW b \in Nat \ {0}, NEW d \in Nat \ {0}, NEW r \in Nat, NEW t \in Nat,
         NEW p \in Int, NEW q \in Int, NEW a \in Int, NEW c \in Int,
         a = b * p + r, c = d * q + t, r < b, p < q
  PROVE  a * d < c * b
<1>1. a < b * (p + 1)
  OBVIOUS
<1>2. b * (p + 1) <= b * q
  <2>1. p + 1 <= q
    OBVIOUS
  <2>2. (p + 1) * b <= q * b
    BY <2>1, TimesPositive
  <2> QED
    BY <2>2
<1>3. a < b * q
  <2> DEFINE u == b * (p + 1)
             v == b * q
  <2>1. u \in Int /\ v \in Int
    OBVIOUS
  <2> HIDE DEF u, v
  <2>2. a < u /\ u <= v
    BY <1>1, <1>2 DEF u, v
  <2>3. a < v
    BY <2>1, <2>2
  <2> QED
    BY <2>3 DEF v
<1>4. a * d < (b * q) * d
  BY <1>3, TimesPositive
<1>5. c * b = d * q * b + t * b
  OBVIOUS
<1>6. t * b >= 0
  OBVIOUS
<1>7. (b * q) * d = d * q * b
  OBVIOUS
<1> DEFINE u == d * q * b
           v == t * b
           w == a * d
<1>8. u \in Int /\ v \in Int /\ w \in Int
  OBVIOUS
<1> HIDE DEF u, v, w
<1>9. w < u /\ c * b = u + v /\ v >= 0
  BY <1>4, <1>5, <1>6, <1>7 DEF u, v, w
<1>10. w < c * b
  BY <1>8, <1>9
<1> QED
  BY <1>10 DEF w

\* smaller compares rationals.
LEMMA SmallerIsBefore ==
  ASSUME NEW x \in Rational, NEW y \in Rational
  PROVE  smaller[<<x, y>>] <=> Before(x, y)
<1> DEFINE T == {n \in Nat : \A u, v \in Rational :
                    u[2] + v[2] <= n => (smaller[<<u, v>>] <=> Before(u, v))}
<1>1. 0 \in T
  BY DEF Rational
<1>2. ASSUME NEW n \in T PROVE n + 1 \in T
  <2>1. ASSUME NEW u \in Rational, NEW v \in Rational, u[2] + v[2] <= n + 1
        PROVE  smaller[<<u, v>>] <=> Before(u, v)
    <3> DEFINE a == u[1]
               b == u[2]
               c == v[1]
               d == v[2]
               p == a \div b
               q == c \div d
               r == a % b
               t == c % d
    <3>1. a \in Int /\ b \in Nat \ {0} /\ c \in Int /\ d \in Nat \ {0}
      BY DEF Rational
    <3> HIDE DEF a, b, c, d
    <3>2. /\ p \in Int /\ r \in Nat /\ r < b /\ a = b * p + r
          /\ q \in Int /\ t \in Nat /\ t < d /\ c = d * q + t
      BY <3>1, Division
    <3>3. smaller[<<u, v>>] =
            IF p # q THEN p < q ELSE t # 0 /\ (r = 0 \/ smaller[<<<<d, t>>, <<b, r>>>>])
      BY SmallerDef DEF a, b, c, d
    <3>4. Before(u, v) <=> a * d < c * b
      BY DEF Before, a, b, c, d
    <3> HIDE DEF p, q, r, t
    <3>5. CASE p < q
      <4>1. a * d < c * b
        BY <3>1, <3>2, <3>5, LessIntegralPart
      <4>2. p # q
        BY <3>2, <3>5
      <4>3. smaller[<<u, v>>]
        BY <3>3, <3>5, <4>2, Zenon
      <4> QED
        BY <3>4, <4>1, <4>3
    <3>6. CASE q < p
      <4>1. c * b < a * d
        BY <3>1, <3>2, <3>6, LessIntegralPart
      <4>2. a * d \in Int /\ c * b \in Int
        BY <3>1
      <4>3. ~ (a * d < c * b)
        BY <4>1, <4>2
      <4>4. p # q /\ ~ (p < q)
        BY <3>2, <3>6
      <4>5. ~ smaller[<<u, v>>]
        BY <3>3, <4>4, Zenon
      <4> QED
        BY <3>4, <4>3, <4>5
    <3>7. CASE p = q
      <4>1. a * d < c * b <=> r * d < t * b
        BY <3>1, <3>2, <3>7, SameIntegralPart
      <4>2. CASE t = 0
        <5>1. ~ (r * d < t * b)
          BY <3>1, <3>2, <4>2
        <5> QED
          BY <3>3, <3>4, <3>7, <4>1, <4>2, <5>1
      <4>3. CASE t # 0 /\ r = 0
        <5>1. r * d = 0 /\ t * b \in Nat \ {0}
          BY <3>1, <3>2, <4>3, ProductPositive
        <5>2. r * d < t * b
          BY <5>1
        <5> QED
          BY <3>3, <3>4, <3>7, <4>1, <4>3, <5>2
      <4>4. CASE t # 0 /\ r # 0
        <5>1. <<d, t>> \in Rational /\ <<b, r>> \in Rational
          BY <3>1, <3>2, <4>4 DEF Rational
        <5>2. t + r <= n
          BY <2>1, <3>1, <3>2, <4>4 DEF b, d
        <5>3. smaller[<<<<d, t>>, <<b, r>>>>] <=> Before(<<d, t>>, <<b, r>>)
          BY <5>1, <5>2
        <5>4. Before(<<d, t>>, <<b, r>>) <=> d * r < b * t
          BY DEF Before
        <5>5. d * r = r * d /\ b * t = t * b
          BY <3>1, <3>2
        <5> QED
          BY <3>3, <3>4, <3>7, <4>1, <4>4, <5>3, <5>4, <5>5
      <4> QED
        BY <4>2, <4>3, <4>4
    <3> QED
      BY <3>2, <3>5, <3>6, <3>7
  <2> QED
    BY <2>1
<1>3. T = Nat
  <2> HIDE DEF T
  <2> QED
    BY <1>1, <1>2, SetInduction DEF T
<1>4. x[2] + y[2] \in T
  BY <1>3 DEF Rational
<1>5. x[2] + y[2] <= x[2] + y[2]
  BY DEF Rational
<1> QED
  BY <1>4, <1>5

\* Float's operator < compares the fractions.
LEMMA LessIsBefore ==
  ASSUME NAN \notin Rational, NEW x \in Rational, NEW y \in Rational
  PROVE  Less(x, y) <=> Before(x, y)
  BY SmallerIsBefore DEF Less, is_null

\* Before is a strict order in which incomparable rationals are equal.
LEMMA BeforeOrders ==
  ASSUME NEW x \in Rational, NEW y \in Rational, NEW z \in Rational
  PROVE  /\ ~ Before(x, x)
         /\ Before(x, y) => ~ Before(y, x)
         /\ Before(x, y) /\ ~ Before(z, y) => Before(x, z)
         /\ ~ Before(y, x) /\ Before(y, z) => Before(x, z)
<1> DEFINE a == x[1]
           b == x[2]
           c == y[1]
           d == y[2]
           e == z[1]
           f == z[2]
<1>1. a \in Int /\ b \in Nat \ {0} /\ c \in Int /\ d \in Nat \ {0} /\ e \in Int /\ f \in Nat \ {0}
  BY DEF Rational
<1>2. /\ Before(x, y) <=> a * d < c * b
      /\ Before(y, x) <=> c * b < a * d
      /\ Before(z, y) <=> e * d < c * f
      /\ Before(y, z) <=> c * f < e * d
      /\ Before(x, z) <=> a * f < e * b
      /\ Before(x, x) <=> a * b < a * b
  BY DEF Before
<1> HIDE DEF a, b, c, d, e, f
<1>3. /\ a * d \in Int /\ c * b \in Int /\ e * d \in Int /\ c * f \in Int /\ a * f \in Int
      /\ e * b \in Int /\ a * b \in Int
  BY <1>1
\* The three products with the third denominator.
<1>4. /\ (a * d) * f = (a * f) * d /\ (c * b) * f = (c * f) * b /\ (e * d) * b = (e * b) * d
  BY <1>1
<1>5. /\ a * d < c * b <=> (a * d) * f < (c * b) * f
      /\ c * b < a * d <=> (c * b) * f < (a * d) * f
      /\ e * d < c * f <=> (e * d) * b < (c * f) * b
      /\ c * f < e * d <=> (c * f) * b < (e * d) * b
      /\ a * f < e * b <=> (a * f) * d < (e * b) * d
  BY <1>1, <1>3, TimesPositive
<1> DEFINE A == (a * f) * d
           C == (c * f) * b
           E == (e * b) * d
<1>6. A \in Int /\ C \in Int /\ E \in Int
  BY <1>1
<1>7. /\ Before(x, y) <=> A < C
      /\ Before(y, x) <=> C < A
      /\ Before(z, y) <=> E < C
      /\ Before(y, z) <=> C < E
      /\ Before(x, z) <=> A < E
  BY <1>2, <1>4, <1>5
<1> HIDE DEF A, C, E
<1>8. ~ Before(x, x)
  BY <1>2, <1>3
<1> QED
  BY <1>6, <1>7, <1>8

\* The recursion of gcd ends, as its second argument becomes smaller.
LEMMA GcdDef ==
  \A x \in Nat \X Nat : gcd[x] = IF x[2] = 0 THEN x[1] ELSE gcd[<<x[2], x[1] % x[2]>>]
<1> DEFINE D == Nat \X Nat
           stop == [x \in D |-> x[2] = 0]
           result == [x \in D |-> x[1]]
           next == [x \in D |-> IF stop[x] THEN x ELSE <<x[2], x[1] % x[2]>>]
           measure == [x \in D |-> x[2]]
           Body(g, x) == IF x[2] = 0 THEN x[1] ELSE g[<<x[2], x[1] % x[2]>>]
<1>1. ASSUME NEW x \in D
      PROVE  next[x] \in D /\ (~ stop[x] => measure[next[x]] < measure[x])
  <2>1. CASE stop[x]
    BY <2>1
  <2>2. CASE ~ stop[x]
    <3>1. x[1] \in Nat /\ x[2] \in Nat \ {0}
      BY <2>2
    <3>2. x[1] % x[2] \in Nat /\ x[1] % x[2] < x[2]
      BY <3>1, Division
    <3> QED
      BY <2>2, <3>1, <3>2
  <2> QED
    BY <2>1, <2>2
<1>2. next \in [D -> D]
  BY <1>1
<1>3. measure \in [D -> Nat] /\ stop \in [D -> BOOLEAN] /\ result \in [D -> Nat]
  OBVIOUS
<1>4. PICK f : Loops(f, D, Nat, stop, result, next)
  <2>1. Ends(D, Nat, measure, stop, result, next)
    <3> HIDE DEF D, measure, stop, result, next
    <3> QED
      BY <1>1, <1>2, <1>3 DEF Ends
  <2> HIDE DEF D, measure, stop, result, next
  <2> QED
    BY <2>1, TailRecursionExists
<1>5. ASSUME NEW x \in D PROVE f[x] = Body(f, x)
  <2>1. f[x] = IF stop[x] THEN result[x] ELSE f[next[x]]
    <3> HIDE DEF D, stop, result, next
    <3> QED
      BY <1>4 DEF Loops
  <2> QED
    BY <2>1
<1>6. f = [x \in D |-> Body(f, x)]
  <2>1. f \in [D -> Nat]
    BY <1>4 DEF Loops
  <2> HIDE DEF D, Body
  <2> QED
    BY <1>5, <2>1
<1>7. gcd = [x \in D |-> Body(gcd, x)]
  <2>1. \E g : g = [x \in D |-> Body(g, x)]
    BY <1>6
  <2> QED
    BY <2>1 DEF gcd
<1> HIDE DEF Body
<1>8. \A x \in D : gcd[x] = Body(gcd, x)
  BY <1>7
<1> QED
  BY <1>8 DEF Body

Divides(g, n) == \E k \in Int : n = g * k

\* gcd divides both of its arguments, and is 0 only for 0 and 0.
LEMMA GcdDivides ==
  ASSUME NEW n \in Nat, NEW m \in Nat \ {0}
  PROVE  /\ gcd[<<n, m>>] \in Nat \ {0}
         /\ Divides(gcd[<<n, m>>], n) /\ Divides(gcd[<<n, m>>], m)
<1> DEFINE Good(a, b) == /\ gcd[<<a, b>>] \in Nat \ {0}
                         /\ Divides(gcd[<<a, b>>], a) /\ Divides(gcd[<<a, b>>], b)
           T == {k \in Nat : \A a \in Nat : \A b \in Nat \ {0} : b <= k => Good(a, b)}
<1>1. 0 \in T
  OBVIOUS
<1>2. ASSUME NEW k \in T PROVE k + 1 \in T
  <2>1. ASSUME NEW a \in Nat, NEW b \in Nat \ {0}, b <= k + 1 PROVE Good(a, b)
    <3> DEFINE r == a % b
               q == a \div b
               g == gcd[<<b, r>>]
    <3>1. r \in Nat /\ r < b /\ q \in Int /\ a = b * q + r
      BY Division
    <3>2. gcd[<<a, b>>] = g
      BY GcdDef
    <3> HIDE DEF r, q
    <3>3. g \in Nat \ {0} /\ Divides(g, b) /\ Divides(g, r)
      <4>1. CASE r = 0
        <5>1. g = b
          BY <4>1, GcdDef
        <5>2. b = b * 1 /\ 0 = b * 0
          OBVIOUS
        <5> QED
          BY <4>1, <5>1, <5>2 DEF Divides
      <4>2. CASE r # 0
        <5>1. r \in Nat \ {0} /\ r <= k
          BY <2>1, <3>1, <4>2
        <5>2. Good(b, r)
          BY <5>1
        <5> QED
          BY <5>2
      <4> QED
        BY <4>1, <4>2
    <3> HIDE DEF g
    <3>4. Divides(g, a)
      <4>1. PICK i \in Int : b = g * i
        BY <3>3 DEF Divides
      <4>2. PICK j \in Int : r = g * j
        BY <3>3 DEF Divides
      <4>3. a = g * (i * q + j)
        <5>1. a = (g * i) * q + g * j
          BY <3>1, <4>1, <4>2
        <5>2. (g * i) * q + g * j = g * (i * q + j)
          BY <3>1, <3>3
        <5> QED
          BY <5>1, <5>2
      <4>4. i * q + j \in Int
        BY <3>1
      <4> QED
        BY <4>3, <4>4 DEF Divides
    <3> QED
      BY <3>2, <3>3, <3>4
  <2> HIDE DEF Good
  <2> QED
    BY <2>1
<1>3. T = Nat
  <2> HIDE DEF T
  <2> QED
    BY <1>1, <1>2, SetInduction DEF T
<1>4. m \in T /\ m <= m
  BY <1>3
<1> QED
  BY <1>4

\* Q reduces a fraction and keeps its value.
LEMMA QKeeps ==
  ASSUME NEW n \in Int, NEW d \in Nat \ {0}
  PROVE  Q(n, d) \in Rational /\ Q(n, d)[1] * d = n * Q(n, d)[2]
<1> DEFINE g == gcd[<<Magnitude(n), Magnitude(d)>>]
<1>1. Magnitude(n) \in Nat /\ Magnitude(d) = d /\ (n = Magnitude(n) \/ n = -Magnitude(n))
  BY DEF Magnitude
<1>2. g \in Nat \ {0} /\ Divides(g, Magnitude(n)) /\ Divides(g, d)
  BY <1>1, GcdDivides
<1>3. Q(n, d) = <<n \div g, d \div g>>
  <2>1. ~ (d < 0) /\ 1 * n = n /\ 1 * d = d
    OBVIOUS
  <2> QED
    BY <2>1 DEF Q
<1> HIDE DEF g
<1>4. PICK k \in Int : n = g * k
  <2>1. PICK k \in Int : Magnitude(n) = g * k
    BY <1>2 DEF Divides
  <2>2. CASE n = Magnitude(n)
    BY <2>1, <2>2
  <2>3. CASE n = -Magnitude(n)
    <3>1. n = g * (-k) /\ -k \in Int
      BY <1>2, <2>1, <2>3
    <3> QED
      BY <3>1
  <2> QED
    BY <1>1, <2>2, <2>3
<1>5. PICK l \in Int : d = g * l
  BY <1>2 DEF Divides
<1>6. n \div g = k
  BY <1>2, <1>4
<1>7. d \div g = l
  BY <1>2, <1>5
<1>8. l \in Nat \ {0}
  BY <1>2, <1>5
<1>9. k * (g * l) = (g * k) * l
  BY <1>2
<1>10. Q(n, d)[1] = k /\ Q(n, d)[2] = l
  BY <1>3, <1>6, <1>7
<1> QED
  BY <1>3, <1>4, <1>5, <1>6, <1>7, <1>8, <1>9, <1>10 DEF Rational

\* A fraction with the value of a rational compares like it.
LEMMA ValueCompares ==
  ASSUME NEW n \in Int, NEW d \in Nat \ {0}, NEW x \in Rational, x[1] * d = n * x[2],
         NEW y \in Rational
  PROVE  /\ Before(x, y) <=> n * y[2] < y[1] * d
         /\ Before(y, x) <=> y[1] * d < n * y[2]
<1> DEFINE a == x[1]
           b == x[2]
           e == y[1]
           f == y[2]
<1>1. a \in Int /\ b \in Nat \ {0} /\ e \in Int /\ f \in Nat \ {0}
  BY DEF Rational
<1>2. (Before(x, y) <=> a * f < e * b) /\ (Before(y, x) <=> e * b < a * f) /\ a * d = n * b
  BY DEF Before
<1> HIDE DEF a, b, e, f
<1>3. (a * f) * d = (n * f) * b
  <2>1. (a * f) * d = (a * d) * f
    BY <1>1
  <2>2. (n * b) * f = (n * f) * b
    BY <1>1
  <2> QED
    BY <1>2, <2>1, <2>2
<1>4. (e * b) * d = (e * d) * b
  BY <1>1
<1>5. a * f \in Int /\ e * b \in Int /\ n * f \in Int /\ e * d \in Int
  BY <1>1
<1>6. /\ a * f < e * b <=> (a * f) * d < (e * b) * d
      /\ e * b < a * f <=> (e * b) * d < (a * f) * d
      /\ n * f < e * d <=> (n * f) * b < (e * d) * b
      /\ e * d < n * f <=> (e * d) * b < (n * f) * b
  BY <1>1, <1>5, TimesPositive
<1>7. /\ a * f < e * b <=> n * f < e * d
      /\ e * b < a * f <=> e * d < n * f
  BY <1>3, <1>4, <1>6
<1>8. (Before(x, y) <=> n * f < e * d) /\ (Before(y, x) <=> e * d < n * f)
  BY <1>2, <1>7
<1> QED
  BY <1>8 DEF e, f

\* A row lies within the memory of a point in time if and only if that lies before
\* the end of the row's window.
LEMMA WindowShifts ==
  ASSUME NAN \notin Rational, NEW now \in Rational, NEW low \in Rational,
         NEW memory \in Rational
  PROVE  /\ Sub(now, memory) \in Rational /\ Add(low, memory) \in Rational
         /\ Before(Sub(now, memory), low) <=> Before(now, Add(low, memory))
<1> DEFINE n == now[1]
           d == now[2]
           l == low[1]
           k == low[2]
           m == memory[1]
           e == memory[2]
<1>1. /\ n \in Int /\ d \in Nat \ {0} /\ l \in Int /\ k \in Nat \ {0}
      /\ m \in Int /\ e \in Nat \ {0}
  BY DEF Rational
<1>2. ~ is_null(now) /\ ~ is_null(low) /\ ~ is_null(memory)
  BY DEF is_null
<1>3. Neg(memory) = <<-m, e>>
  BY <1>2 DEF Neg
<1>4. <<-m, e>> \in Rational
  BY <1>1 DEF Rational
<1>5. Sub(now, memory) = Q(n * e + (-m) * d, d * e)
  BY <1>2, <1>3, <1>4 DEF Sub, Add, is_null
<1>6. Add(low, memory) = Q(l * e + m * k, k * e)
  BY <1>2 DEF Add
<1> DEFINE x == Sub(now, memory)
           y == Add(low, memory)
           nx == n * e + (-m) * d
           ny == l * e + m * k
<1>7. low[1] = l /\ low[2] = k /\ now[1] = n /\ now[2] = d
  OBVIOUS
<1> HIDE DEF n, d, l, k, m, e
<1>8. nx \in Int /\ ny \in Int /\ d * e \in Nat \ {0} /\ k * e \in Nat \ {0}
  BY <1>1, ProductPositive
<1>9. x \in Rational /\ x[1] * (d * e) = nx * x[2]
  BY <1>5, <1>8, QKeeps
<1>10. y \in Rational /\ y[1] * (k * e) = ny * y[2]
  BY <1>6, <1>8, QKeeps
<1>11. nx * k = (n * k) * e - (m * d) * k
  BY <1>1
<1>12. ny * d = (l * d) * e + (m * d) * k
  BY <1>1
<1>13. l * (d * e) = (l * d) * e /\ n * (k * e) = (n * k) * e
  BY <1>1
<1> HIDE DEF x, y, nx, ny
<1>14. Before(x, low) <=> nx * k < l * (d * e)
  BY <1>7, <1>8, <1>9, ValueCompares
<1>15. Before(now, y) <=> n * (k * e) < ny * d
  BY <1>7, <1>8, <1>10, ValueCompares
<1> DEFINE u == (n * k) * e
           v == (m * d) * k
           w == (l * d) * e
<1>16. u \in Int /\ v \in Int /\ w \in Int
  BY <1>1
<1> HIDE DEF u, v, w
<1>17. nx * k = u - v /\ ny * d = w + v /\ l * (d * e) = w /\ n * (k * e) = u
  BY <1>11, <1>12, <1>13 DEF u, v, w
<1>18. u - v < w <=> u < w + v
  BY <1>16
<1>19. Before(x, low) <=> Before(now, y)
  BY <1>14, <1>15, <1>17, <1>18
<1> QED
  BY <1>9, <1>10, <1>19 DEF x, y

-----------------------------------------------------------------------------
(* Matches: sorting *)

\* R orders S.
Orders(R, S) ==
  /\ \A x \in S : <<x, x>> \notin R
  /\ \A x, y \in S : x = y \/ <<x, y>> \in R \/ <<y, x>> \in R
  /\ \A x, y, z \in S : <<x, y>> \in R /\ <<y, z>> \in R => <<x, z>> \in R

InOrder(s, n, S, R) ==
  /\ s \in [1 .. n -> S]
  /\ \A i, j \in 1 .. n : i < j => <<s[i], s[j]>> \in R

\* A new element is put before the first that it is less than.
LEMMA Insertion ==
  ASSUME NEW S, NEW R, Orders(R, S), NEW n \in Nat, NEW V \in SUBSET S, NEW s,
         InOrder(s, n, V, R), NEW x \in S \ V
  PROVE  \E t : InOrder(t, n + 1, V \cup {x}, R)
<1> DEFINE K == {i \in 1 .. n + 1 : i = n + 1 \/ <<x, s[i]>> \in R}
<1>1. K \subseteq Nat /\ n + 1 \in K
  OBVIOUS
<1>2. PICK k \in K : \A i \in K : k <= i
  BY <1>1, LeastNumber
<1>3. k \in 1 .. n + 1
  OBVIOUS
<1> DEFINE t == [i \in 1 .. n + 1 |-> IF i < k THEN s[i] ELSE IF i = k THEN x ELSE s[i - 1]]
<1>4. \A i \in 1 .. n : s[i] \in V
  BY DEF InOrder
<1>5. t \in [1 .. n + 1 -> V \cup {x}]
  BY <1>3, <1>4
<1>6. ASSUME NEW i \in 1 .. n, i < k PROVE <<s[i], x>> \in R
  <2>1. <<x, s[i]>> \notin R
    BY <1>2, <1>3, <1>6
  <2>2. s[i] \in S /\ s[i] # x
    BY <1>4
  <2> QED
    BY <2>1, <2>2 DEF Orders
<1>7. ASSUME NEW i \in 1 .. n, k <= i PROVE <<x, s[i]>> \in R
  <2>1. k \in 1 .. n /\ <<x, s[k]>> \in R
    BY <1>2, <1>3, <1>7
  <2>2. CASE i = k
    BY <2>1, <2>2
  <2>3. CASE i # k
    <3>1. <<s[k], s[i]>> \in R
      BY <1>3, <1>7, <2>1, <2>3 DEF InOrder
    <3>2. s[k] \in S /\ s[i] \in S
      BY <1>4, <2>1
    <3> QED
      BY <2>1, <3>1, <3>2 DEF Orders
  <2> QED
    BY <2>2, <2>3
<1>8. ASSUME NEW i \in 1 .. n + 1, NEW j \in 1 .. n + 1, i < j PROVE <<t[i], t[j]>> \in R
  <2>1. CASE j < k
    <3>1. t[i] = s[i] /\ t[j] = s[j] /\ i \in 1 .. n /\ j \in 1 .. n
      BY <1>3, <1>8, <2>1
    <3> QED
      BY <1>8, <3>1 DEF InOrder
  <2>2. CASE j = k
    <3>1. t[i] = s[i] /\ t[j] = x /\ i \in 1 .. n /\ i < k
      BY <1>3, <1>8, <2>2
    <3> QED
      BY <1>6, <3>1
  <2>3. CASE j > k /\ i = k
    <3>1. t[i] = x /\ t[j] = s[j - 1] /\ j - 1 \in 1 .. n /\ k <= j - 1
      BY <1>3, <1>8, <2>3
    <3> QED
      BY <1>7, <3>1
  <2>4. CASE j > k /\ i < k
    <3>1. t[i] = s[i] /\ t[j] = s[j - 1] /\ i \in 1 .. n /\ j - 1 \in 1 .. n /\ i < j - 1
      BY <1>3, <1>8, <2>4
    <3> QED
      BY <3>1 DEF InOrder
  <2>5. CASE j > k /\ i > k
    <3>1. t[i] = s[i - 1] /\ t[j] = s[j - 1] /\ i - 1 \in 1 .. n /\ j - 1 \in 1 .. n
          /\ i - 1 < j - 1
      BY <1>3, <1>8, <2>5
    <3> QED
      BY <3>1 DEF InOrder
  <2> QED
    BY <1>3, <2>1, <2>2, <2>3, <2>4, <2>5
<1> HIDE DEF t
<1>9. InOrder(t, n + 1, V \cup {x}, R)
  BY <1>5, <1>8 DEF InOrder
<1> QED
  BY <1>9

\* Sorted lists every element of a finite set once.
LEMMA SortedSorts ==
  ASSUME NEW S, IsFiniteSet(S), NEW R, Orders(R, S)
  PROVE  /\ Cardinality(S) \in Nat /\ InOrder(Sorted(S, R), Cardinality(S), S, R)
         /\ Range(Sorted(S, R)) = S
         /\ \A i, j \in 1 .. Cardinality(S) : Sorted(S, R)[i] = Sorted(S, R)[j] => i = j
<1> DEFINE T == {n \in Nat : \A V \in SUBSET S :
                    Cardinality(V) = n => \E s : InOrder(s, n, V, R)}
<1>1. 0 \in T
  <2>1. InOrder(<<>>, 0, {}, R)
    BY DEF InOrder
  <2>2. ASSUME NEW V \in SUBSET S, Cardinality(V) = 0 PROVE V = {}
    BY <2>2, FS_EmptySet, FS_Subset
  <2> QED
    BY <2>1, <2>2
<1>2. ASSUME NEW n \in T PROVE n + 1 \in T
  <2>1. ASSUME NEW V \in SUBSET S, Cardinality(V) = n + 1
        PROVE  \E s : InOrder(s, n + 1, V, R)
    <3>1. IsFiniteSet(V) /\ n \in Nat
      BY FS_Subset
    <3>2. V # {}
      BY <2>1, <3>1, FS_EmptySet
    <3>3. PICK x : x \in V
      BY <3>2
    <3> DEFINE W == V \ {x}
    <3>4. Cardinality(W) = n /\ W \in SUBSET S
      BY <2>1, <3>1, <3>3, FS_RemoveElement
    <3>5. PICK s : InOrder(s, n, W, R)
      BY <3>4
    <3>6. x \in S \ W /\ W \cup {x} = V
      BY <3>3
    <3> HIDE DEF W
    <3> QED
      BY <3>1, <3>4, <3>5, <3>6, Insertion
  <2> QED
    BY <2>1
<1>3. T = Nat
  <2> HIDE DEF T
  <2> QED
    BY <1>1, <1>2, SetInduction DEF T
<1> DEFINE n == Cardinality(S)
           s == Sorted(S, R)
<1>4. n \in Nat
  BY FS_CardinalityType
<1>5. \E u : InOrder(u, n, S, R)
  BY <1>3, <1>4
<1>6. InOrder(s, n, S, R)
  <2>1. \E u \in [1 .. n -> S] : \A i, j \in 1 .. n : i < j => <<u[i], u[j]>> \in R
    BY <1>5 DEF InOrder
  <2> QED
    BY <2>1 DEF Sorted, InOrder
<1> HIDE DEF n, s
<1>7. ASSUME NEW i \in 1 .. n, NEW j \in 1 .. n, s[i] = s[j] PROVE i = j
  <2>1. s[i] \in S
    BY <1>6 DEF InOrder
  <2>2. ~ (i < j) /\ ~ (j < i)
    BY <1>6, <1>7, <2>1 DEF InOrder, Orders
  <2> QED
    BY <1>4, <2>2
<1>8. Range(s) = S
  <2>1. s \in Injection(1 .. n, S)
    BY <1>6, <1>7 DEF InOrder, Injection, IsInjective
  <2>2. Cardinality(1 .. n) = n
    BY <1>4, FS_Interval
  <2>3. s \in Surjection(1 .. n, S)
    BY <2>1, <2>2, FS_Injection DEF n
  <2> QED
    BY <1>6, <2>3 DEF Surjection, Range, InOrder
<1> QED
  BY <1>4, <1>6, <1>7, <1>8 DEF n, s

-----------------------------------------------------------------------------
(* Matches: the index by join key and time stamp *)

Keys == Int \X Rational

\* Keys that are looked up: the time stamp of the population may be null.
Lookups == Int \X (Rational \cup {NAN})

\* Key's operator < goes by the join key and, where it is the same, by the time
\* stamp.
LEMMA KeyLessIs ==
  ASSUME NAN \notin Rational, NEW a \in Keys, NEW b \in Keys
  PROVE  /\ a[1] \in Int /\ b[1] \in Int
         /\ a[1] < b[1] => KeyLess(a, b)
         /\ b[1] < a[1] => ~ KeyLess(a, b)
         /\ a[1] = b[1] => (KeyLess(a, b) <=> Before(a[2], b[2]))
<1>1. a[1] \in Int /\ a[2] \in Rational /\ b[1] \in Int /\ b[2] \in Rational
  BY DEF Keys
<1>2. Less(a[2], b[2]) <=> Before(a[2], b[2])
  BY <1>1, LessIsBefore
<1>3. a[1] < b[1] => KeyLess(a, b)
  BY <1>1 DEF KeyLess
<1>4. b[1] < a[1] => ~ KeyLess(a, b)
  BY <1>1 DEF KeyLess
<1>5. a[1] = b[1] => (KeyLess(a, b) <=> Less(a[2], b[2]))
  BY DEF KeyLess
<1> QED
  BY <1>1, <1>2, <1>3, <1>4, <1>5

\* Key's operator < is a strict weak order, as std::stable_sort needs it.
LEMMA KeyLessOrders ==
  ASSUME NAN \notin Rational, NEW a \in Keys, NEW b \in Keys, NEW c \in Keys
  PROVE  /\ ~ KeyLess(a, a)
         /\ KeyLess(a, b) => ~ KeyLess(b, a)
         /\ KeyLess(a, b) /\ ~ KeyLess(c, b) => KeyLess(a, c)
         /\ ~ KeyLess(b, a) /\ KeyLess(b, c) => KeyLess(a, c)
<1>1. a[1] \in Int /\ a[2] \in Rational /\ b[1] \in Int /\ b[2] \in Rational
      /\ c[1] \in Int /\ c[2] \in Rational
  BY DEF Keys
<1>2. /\ ~ Before(a[2], a[2])
      /\ Before(a[2], b[2]) => ~ Before(b[2], a[2])
      /\ Before(a[2], b[2]) /\ ~ Before(c[2], b[2]) => Before(a[2], c[2])
      /\ ~ Before(b[2], a[2]) /\ Before(b[2], c[2]) => Before(a[2], c[2])
  BY <1>1, BeforeOrders
<1>3. ~ KeyLess(a, a)
  BY <1>2, KeyLessIs
<1>4. ASSUME KeyLess(a, b) PROVE ~ KeyLess(b, a)
  <2>1. CASE a[1] < b[1]
    BY <2>1, KeyLessIs
  <2>2. CASE b[1] < a[1]
    BY <1>4, <2>2, KeyLessIs
  <2>3. CASE a[1] = b[1]
    BY <1>2, <1>4, <2>3, KeyLessIs
  <2> QED
    BY <1>1, <2>1, <2>2, <2>3
<1>5. ASSUME KeyLess(a, b), ~ KeyLess(c, b) PROVE KeyLess(a, c)
  <2>1. ~ (b[1] < a[1]) /\ ~ (c[1] < b[1])
    BY <1>5, KeyLessIs
  <2>2. CASE a[1] < c[1]
    BY <2>2, KeyLessIs
  <2>3. CASE ~ (a[1] < c[1])
    <3>1. a[1] = b[1] /\ c[1] = b[1]
      BY <1>1, <2>1, <2>3
    <3>2. Before(a[2], b[2])
      BY <1>5, <3>1, KeyLessIs
    <3>3. ~ Before(c[2], b[2])
      BY <1>5, <3>1, KeyLessIs
    <3>4. a[1] = c[1] /\ Before(a[2], c[2])
      BY <1>2, <3>1, <3>2, <3>3
    <3> QED
      BY <3>4, KeyLessIs
  <2> QED
    BY <2>2, <2>3
<1>6. ASSUME ~ KeyLess(b, a), KeyLess(b, c) PROVE KeyLess(a, c)
  <2>1. ~ (b[1] < a[1]) /\ ~ (c[1] < b[1])
    BY <1>6, KeyLessIs
  <2>2. CASE a[1] < c[1]
    BY <2>2, KeyLessIs
  <2>3. CASE ~ (a[1] < c[1])
    <3>1. a[1] = b[1] /\ c[1] = b[1]
      BY <1>1, <2>1, <2>3
    <3>2. ~ Before(b[2], a[2])
      BY <1>6, <3>1, KeyLessIs
    <3>3. Before(b[2], c[2])
      BY <1>6, <3>1, KeyLessIs
    <3>4. a[1] = c[1] /\ Before(a[2], c[2])
      BY <1>2, <3>1, <3>2, <3>3
    <3> QED
      BY <3>4, KeyLessIs
  <2> QED
    BY <2>2, <2>3
<1> QED
  BY <1>3, <1>4, <1>5, <1>6

\* What is greater than a key that is looked up stays greater.
LEMMA LookupOrders ==
  ASSUME NAN \notin Rational, NEW k \in Lookups, NEW b \in Keys, NEW c \in Keys,
         KeyLess(k, b), ~ KeyLess(c, b)
  PROVE  KeyLess(k, c)
<1>1. CASE k \in Keys
  BY <1>1, KeyLessOrders
<1>2. CASE k \notin Keys
  <2>1. k[1] \in Int /\ k[2] = NAN
    BY <1>2 DEF Lookups, Keys
  <2>2. b[1] \in Int /\ c[1] \in Int
    BY DEF Keys
  <2>3. k[1] < b[1]
    BY <2>1, <2>2 DEF KeyLess, Less, is_null
  <2>4. ~ (c[1] < b[1])
    BY KeyLessIs
  <2>5. k[1] < c[1]
    BY <2>1, <2>2, <2>3, <2>4
  <2> QED
    BY <2>1, <2>2, <2>5 DEF KeyLess
<1> QED
  BY <1>1, <1>2

\* Rows whose key is known.
HaveKeys(rows, jks, lower) ==
  rows \subseteq Nat /\ IsFiniteSet(rows) /\ \A r \in rows : make_key(jks, lower, r) \in Keys

\* make_row_indices lists the rows, once each, by key.
LEMMA RowIndices ==
  ASSUME NAN \notin Rational, NEW rows, NEW jks, NEW lower, HaveKeys(rows, jks, lower)
  PROVE  LET s == make_row_indices(jks, lower, rows)
             n == Cardinality(rows)
             key(r) == make_key(jks, lower, r)
         IN  /\ n \in Nat /\ s \in [1 .. n -> rows] /\ Range(s) = rows
             /\ \A i, j \in 1 .. n : s[i] = s[j] => i = j
             /\ \A i, j \in 1 .. n : i <= j => ~ KeyLess(key(s[j]), key(s[i]))
<1> DEFINE s == make_row_indices(jks, lower, rows)
           n == Cardinality(rows)
           key(r) == make_key(jks, lower, r)
           R == {x \in rows \X rows :
                    \/ KeyLess(key(x[1]), key(x[2]))
                    \/ ~ KeyLess(key(x[2]), key(x[1])) /\ x[1] < x[2]}
<1>1. \A r \in rows : key(r) \in Keys /\ r \in Nat
  BY DEF HaveKeys
<1>2. s = Sorted(rows, R)
  <2>1. \A r \in rows : ~ is_null(lower[r])
    BY DEF HaveKeys, make_key, Keys, is_null
  <2> QED
    BY <2>1 DEF make_row_indices
<1> HIDE DEF key
<1>3. ASSUME NEW x \in rows, NEW y \in rows
      PROVE  <<x, y>> \in R <=>
               \/ KeyLess(key(x), key(y))
               \/ ~ KeyLess(key(y), key(x)) /\ x < y
  <2>1. <<x, y>> \in rows \X rows /\ <<x, y>>[1] = x /\ <<x, y>>[2] = y
    OBVIOUS
  <2> HIDE DEF s, n
  <2> QED
    BY <2>1, Zenon
<1> HIDE DEF R
<1>4. \A x \in rows : ~ KeyLess(key(x), key(x))
  BY <1>1, KeyLessOrders
<1>5. Orders(R, rows)
  <2>1. ASSUME NEW x \in rows, NEW y \in rows, NEW z \in rows
        PROVE  <<x, y>> \in R /\ <<y, z>> \in R => <<x, z>> \in R
    <3>1. x \in Nat /\ y \in Nat /\ z \in Nat
          /\ key(x) \in Keys /\ key(y) \in Keys /\ key(z) \in Keys
      BY <1>1
    <3>2. /\ KeyLess(key(x), key(y)) /\ ~ KeyLess(key(z), key(y)) => KeyLess(key(x), key(z))
          /\ ~ KeyLess(key(y), key(x)) /\ KeyLess(key(y), key(z)) => KeyLess(key(x), key(z))
          /\ KeyLess(key(y), key(z)) => ~ KeyLess(key(z), key(y))
          /\ KeyLess(key(x), key(y)) => ~ KeyLess(key(y), key(x))
      BY <3>1, KeyLessOrders
    <3>3. KeyLess(key(z), key(x)) /\ ~ KeyLess(key(y), key(x)) => KeyLess(key(z), key(y))
      BY <3>1, KeyLessOrders
    <3> QED
      BY <1>3, <3>1, <3>2, <3>3
  <2>2. ASSUME NEW x \in rows PROVE <<x, x>> \notin R
    BY <1>1, <1>3, <1>4
  <2>3. ASSUME NEW x \in rows, NEW y \in rows PROVE x = y \/ <<x, y>> \in R \/ <<y, x>> \in R
    <3>1. x = y \/ x < y \/ y < x
      BY <1>1
    <3>2. CASE KeyLess(key(x), key(y)) \/ KeyLess(key(y), key(x))
      BY <1>3, <3>2
    <3>3. CASE ~ KeyLess(key(x), key(y)) /\ ~ KeyLess(key(y), key(x))
      BY <1>3, <3>1, <3>3
    <3> QED
      BY <3>2, <3>3
  <2> QED
    BY <2>1, <2>2, <2>3 DEF Orders
<1>6. IsFiniteSet(rows)
  BY DEF HaveKeys
<1>7. /\ n \in Nat /\ InOrder(s, n, rows, R) /\ Range(s) = rows
      /\ \A i, j \in 1 .. n : s[i] = s[j] => i = j
  BY <1>2, <1>5, <1>6, SortedSorts
<1> HIDE DEF s, n
<1>8. ASSUME NEW i \in 1 .. n, NEW j \in 1 .. n, i <= j PROVE ~ KeyLess(key(s[j]), key(s[i]))
  <2>1. s[i] \in rows /\ s[j] \in rows
    BY <1>7 DEF InOrder
  <2>2. CASE i = j
    BY <1>4, <2>1, <2>2
  <2>3. CASE i # j
    <3>1. <<s[i], s[j]>> \in R
      BY <1>7, <1>8, <2>3 DEF InOrder
    <3>2. KeyLess(key(s[i]), key(s[j])) => ~ KeyLess(key(s[j]), key(s[i]))
      BY <1>1, <2>1, KeyLessOrders
    <3> QED
      BY <1>3, <2>1, <3>1, <3>2
  <2> QED
    BY <2>2, <2>3
<1>9. s \in [1 .. n -> rows]
  BY <1>7 DEF InOrder
<1> QED
  BY <1>7, <1>8, <1>9 DEF s, n, key

\* The index over some rows.
IndexOver(rows, jks, lower, memory) ==
  LET row_indices == make_row_indices(jks, lower, rows)
  IN  [memory |-> memory, row_indices |-> row_indices,
       key_map |-> make_key_map(jks, lower, row_indices)]

\* The upper bound of a key in the index: the rows before it are those whose key is
\* not greater.
LEMMA FindIx ==
  ASSUME NAN \notin Rational, NEW rows, NEW jks, NEW lower, HaveKeys(rows, jks, lower),
         NEW memory, NEW k \in Lookups
  PROVE  LET index == IndexOver(rows, jks, lower, memory)
             s == make_row_indices(jks, lower, rows)
             n == Cardinality(rows)
         IN  /\ find_ix(index, k) \in 0 .. n
             /\ \A i \in 1 .. n : i <= find_ix(index, k)
                                    <=> ~ KeyLess(k, make_key(jks, lower, s[i]))
<1> DEFINE index == IndexOver(rows, jks, lower, memory)
           s == make_row_indices(jks, lower, rows)
           n == Cardinality(rows)
           key(i) == make_key(jks, lower, s[i])
           firsts == {i \in 1 .. n : \A l \in 1 .. i - 1 : key(l) # key(i)}
           map == {[key |-> key(i), ix |-> i - 1] : i \in firsts}
           above == {e \in map : KeyLess(k, e.key)}
           F == {i \in firsts : KeyLess(k, key(i))}
<1>1. /\ n \in Nat /\ s \in [1 .. n -> rows]
      /\ \A i, j \in 1 .. n : i <= j => ~ KeyLess(key(j), key(i))
  BY RowIndices
<1>2. \A i \in 1 .. n : key(i) \in Keys
  <2>1. \A r \in rows : make_key(jks, lower, r) \in Keys
    BY DEF HaveKeys
  <2> QED
    BY <1>1, <2>1
<1>3. index.row_indices = s /\ index.key_map = make_key_map(jks, lower, s)
  BY DEF IndexOver
<1> HIDE DEF index, n, s
<1>4. make_key_map(jks, lower, s) = map
  <2> DEFINE before(i) == {l \in 1 .. i - 1 : key(l)[1] = key(i)[1]}
             known(i) == \E l \in before(i) :
                            \/ key(l) = key(i)
                            \/ is_null(key(i)[2])
                            \/ is_null(key(l)[2]) /\ before(l) = {}
  <2>1. DOMAIN s = 1 .. n
    BY <1>1
  <2>2. make_key_map(jks, lower, s)
          = {[key |-> key(i), ix |-> i - 1] : i \in {i \in 1 .. n : ~ known(i)}}
    BY <2>1 DEF make_key_map
  <2>3. \A i \in 1 .. n : key(i) \in Keys /\ ~ is_null(key(i)[2])
    BY <1>2 DEF Keys, is_null
  <2> HIDE DEF key, s, n
  <2>4. ASSUME NEW i \in 1 .. n PROVE known(i) <=> \E l \in 1 .. i - 1 : key(l) = key(i)
    <3>1. \A l \in 1 .. i - 1 : ~ is_null(key(l)[2]) /\ ~ is_null(key(i)[2])
      BY <1>1, <2>3
    <3> QED
      BY <3>1
  <2>5. {i \in 1 .. n : ~ known(i)} = firsts
    <3> HIDE DEF known
    <3> QED
      BY <2>4
  <2> HIDE DEF known, firsts
  <2> QED
    BY <2>2, <2>5
<1>5. Len(s) = n
  BY <1>1
<1> HIDE DEF key
<1>6. above = {[key |-> key(i), ix |-> i - 1] : i \in F}
  <2>1. \A i : [key |-> key(i), ix |-> i - 1].key = key(i)
    OBVIOUS
  <2> HIDE DEF firsts, s, n, index
  <2> QED
    BY <2>1
<1>7. (above = {} <=> F = {}) /\ {e.ix : e \in above} = {i - 1 : i \in F}
  <2> HIDE DEF F, above
  <2>1. \A i : [key |-> key(i), ix |-> i - 1].ix = i - 1
    OBVIOUS
  <2> QED
    BY <1>6, <2>1
<1>8. find_ix(index, k) = IF above = {} THEN Len(s) ELSE Min({e.ix : e \in above})
  BY <1>3, <1>4 DEF find_ix
<1> HIDE DEF above, map
\* Every key is that of a first place.
<1>9. ASSUME NEW i \in 1 .. n PROVE \E j \in firsts : j <= i /\ key(j) = key(i)
  <2> DEFINE J == {j \in 1 .. n : key(j) = key(i)}
  <2>1. J \subseteq Nat /\ i \in J
    OBVIOUS
  <2>2. PICK j \in J : \A l \in J : j <= l
    BY <2>1, LeastNumber
  <2>3. j <= i /\ key(j) = key(i) /\ j \in 1 .. n
    BY <2>1, <2>2
  <2>4. \A l \in 1 .. j - 1 : key(l) # key(j)
    <3>1. ASSUME NEW l \in 1 .. j - 1, key(l) = key(j) PROVE FALSE
      <4>1. l \in J /\ l < j
        BY <1>1, <2>3, <3>1
      <4> QED
        BY <1>1, <2>2, <2>3, <4>1
    <3> QED
      BY <3>1
  <2> QED
    BY <2>3, <2>4
<1>10. CASE F = {}
  <2>1. find_ix(index, k) = n
    BY <1>5, <1>7, <1>8, <1>10
  <2>2. ASSUME NEW i \in 1 .. n PROVE ~ KeyLess(k, key(i))
    BY <1>9, <1>10
  <2> QED
    BY <1>1, <2>1, <2>2 DEF index, n, s, key
<1>11. CASE F # {}
  <2> DEFINE M == {i - 1 : i \in F}
  <2>1. M \subseteq Nat /\ M # {}
    BY <1>1, <1>11
  <2>2. \E x \in M : \A y \in M : x <= y
    BY <2>1, LeastNumber
  <2>3. Min(M) \in M /\ \A y \in M : Min(M) <= y
    BY <2>2 DEF Min
  <2>4. find_ix(index, k) = Min(M)
    BY <1>7, <1>8, <1>11
  <2>5. PICK f \in F : Min(M) = f - 1
    BY <2>3
  <2>6. f \in 1 .. n /\ KeyLess(k, key(f)) /\ \A j \in F : f <= j
    <3>1. \A j \in F : f - 1 <= j - 1
      BY <2>3, <2>5
    <3>2. \A j \in F : j \in Nat
      OBVIOUS
    <3> QED
      BY <3>1, <3>2
  <2> HIDE DEF M
  <2>7. ASSUME NEW i \in 1 .. n, i < f PROVE ~ KeyLess(k, key(i))
    <3>1. PICK j \in firsts : j <= i /\ key(j) = key(i)
      BY <1>9
    <3>2. j \notin F
      BY <2>6, <2>7, <3>1
    <3> QED
      BY <3>1, <3>2
  <2>8. ASSUME NEW i \in 1 .. n, f <= i PROVE KeyLess(k, key(i))
    <3>1. ~ KeyLess(key(i), key(f))
      BY <1>1, <2>6, <2>8 DEF key
    <3>2. key(i) \in Keys /\ key(f) \in Keys
      BY <1>2, <2>6 DEF key
    <3> QED
      BY <2>6, <3>1, <3>2, LookupOrders
  <2>9. \A i \in 1 .. n : i <= f - 1 <=> ~ KeyLess(k, key(i))
    BY <1>1, <2>6, <2>7, <2>8
  <2>10. f - 1 \in 0 .. n
    BY <1>1, <2>6
  <2> QED
    BY <2>4, <2>5, <2>9, <2>10 DEF index, n, s, key
<1> QED
  BY <1>10, <1>11

-----------------------------------------------------------------------------
(* Matches: rows in a list *)

\* m has every element of S once.
Lists(m, S) ==
  \E n \in Nat : /\ m \in [1 .. n -> S] /\ Range(m) = S
                 /\ \A i, j \in 1 .. n : m[i] = m[j] => i = j

\* The length of a list without repetition is the number of its elements.
LEMMA ListsCount ==
  ASSUME NEW m, NEW S, Lists(m, S)
  PROVE  Range(m) = S /\ Len(m) = Cardinality(Range(m)) /\ IsFiniteSet(S)
<1>1. PICK n \in Nat : /\ m \in [1 .. n -> S] /\ Range(m) = S
                       /\ \A i, j \in 1 .. n : m[i] = m[j] => i = j
  BY DEF Lists
<1>2. m \in Surjection(1 .. n, S)
  BY <1>1 DEF Surjection, Range
<1>3. m \in Injection(1 .. n, S)
  BY <1>1 DEF Injection, IsInjective
<1>4. IsFiniteSet(1 .. n) /\ Cardinality(1 .. n) = n
  BY <1>1, FS_Interval
<1>5. IsFiniteSet(S) /\ Cardinality(S) = n
  BY <1>2, <1>3, <1>4, FS_Surjection
<1>6. Len(m) = n
  BY <1>1
<1> QED
  BY <1>1, <1>5, <1>6

\* The row numbers of a finite set, in their order, are a list of it.
LEMMA AscendingLists ==
  ASSUME NEW S, S \subseteq Nat, IsFiniteSet(S)
  PROVE  Lists(Ascending(S), S)
<1> DEFINE R == {x \in S \X S : x[1] < x[2]}
<1>1. \A x, y \in S : <<x, y>> \in R <=> x < y
  OBVIOUS
<1> HIDE DEF R
<1>2. Orders(R, S)
  BY <1>1 DEF Orders
<1>3. Ascending(S) = Sorted(S, R)
  BY DEF Ascending, R
<1>4. /\ Cardinality(S) \in Nat /\ InOrder(Sorted(S, R), Cardinality(S), S, R)
      /\ Range(Sorted(S, R)) = S
      /\ \A i, j \in 1 .. Cardinality(S) : Sorted(S, R)[i] = Sorted(S, R)[j] => i = j
  BY <1>2, SortedSorts
<1> QED
  BY <1>3, <1>4 DEF Lists, InOrder

\* A set of rows of a frame is a finite set of numbers.
LEMMA RowsAreFinite ==
  ASSUME NEW df, df.nrows \in Nat, NEW S, S \subseteq Rows(df)
  PROVE  S \subseteq Nat /\ IsFiniteSet(S)
<1>1. IsFiniteSet(Rows(df)) /\ Rows(df) \subseteq Nat
  BY FS_Interval DEF Rows
<1> QED
  BY <1>1, FS_Subset

\* The index of a join key lists the rows that have it, and has the key if there
\* are any.
LEMMA FindLists ==
  ASSUME NEW df, df.nrows \in Nat, NEW jk
  PROVE  /\ Lists(find(df, jk), RowsWith(df, df.join_keys[1].data, {jk}))
         /\ Range(find(df, jk)) = RowsWith(df, df.join_keys[1].data, {jk})
         /\ has(df, jk) <=> RowsWith(df, df.join_keys[1].data, {jk}) # {}
<1> DEFINE S == RowsWith(df, df.join_keys[1].data, {jk})
<1>1. S \subseteq Rows(df)
  BY DEF RowsWith
<1>2. Lists(Ascending(S), S)
  BY <1>1, RowsAreFinite, AscendingLists
<1>3. find(df, jk) = Ascending(S)
  BY DEF find
<1> HIDE DEF S
<1>4. Range(find(df, jk)) = S
  BY <1>2, <1>3, ListsCount
<1>5. find(df, jk) = <<>> <=> S = {}
  <2>1. PICK n \in Nat : find(df, jk) \in [1 .. n -> S] /\ Range(find(df, jk)) = S
    BY <1>2, <1>3 DEF Lists
  <2>2. CASE n = 0
    <3>1. find(df, jk) = <<>>
      BY <2>1, <2>2
    <3> QED
      BY <2>1, <2>2, <3>1 DEF Range
  <2>3. CASE n # 0
    <3>1. 1 \in DOMAIN find(df, jk)
      BY <2>1, <2>3
    <3>2. find(df, jk) # <<>> /\ find(df, jk)[1] \in S
      BY <2>1, <2>3, <3>1
    <3> QED
      BY <3>2
  <2> QED
    BY <2>2, <2>3
<1> QED
  BY <1>2, <1>3, <1>4, <1>5 DEF has, S

\* The rows of an index within the memory of a point in time.
Within(rows, jks, lower, memory, jk, ts) ==
  {r \in rows : /\ jks[r] = jk /\ ts # NAN
                /\ ~ Less(ts, lower[r]) /\ Less(ts, Add(lower[r], memory))}

\* The upper bounds of the two keys that find_range looks up enclose the rows of
\* the join key whose time stamp is not later than now and less than a memory ago.
LEMMA FindRange ==
  ASSUME NAN \notin Rational, NEW rows, NEW jks, NEW lower, HaveKeys(rows, jks, lower),
         NEW memory \in Rational, \A r \in rows : ~ Less(Add(lower[r], memory), lower[r]),
         NEW jk \in Int, NEW ts \in Rational \cup {NAN}
  PROVE  Lists(find_range(IndexOver(rows, jks, lower, memory), jk, ts),
               Within(rows, jks, lower, memory, jk, ts))
<1> DEFINE index == IndexOver(rows, jks, lower, memory)
           s == make_row_indices(jks, lower, rows)
           n == Cardinality(rows)
           k1 == <<jk, Sub(ts, memory)>>
           k2 == <<jk, ts>>
           b == find_ix(index, k1)
           e == find_ix(index, k2)
           key(r) == make_key(jks, lower, r)
           W == Within(rows, jks, lower, memory, jk, ts)
           m == SubSeq(s, b + 1, e)
<1>1. /\ n \in Nat /\ s \in [1 .. n -> rows] /\ Range(s) = rows
      /\ \A i, j \in 1 .. n : s[i] = s[j] => i = j
  BY RowIndices
<1>2. Sub(ts, memory) \in Rational \cup {NAN}
  <2>1. CASE ts \in Rational
    BY <2>1, WindowShifts
  <2>2. CASE ts = NAN
    BY <2>2 DEF Sub, Add, is_null
  <2> QED
    BY <2>1, <2>2
<1>3. k1 \in Lookups /\ k2 \in Lookups
  BY <1>2 DEF Lookups
<1>4. /\ b \in 0 .. n /\ e \in 0 .. n
      /\ \A i \in 1 .. n : i <= b <=> ~ KeyLess(k1, key(s[i]))
      /\ \A i \in 1 .. n : i <= e <=> ~ KeyLess(k2, key(s[i]))
  BY <1>3, FindIx
\* A row lies between the two bounds if and only if it lies within the memory.
<1>5. ASSUME NEW r \in rows
      PROVE  r \in W <=> KeyLess(k1, key(r)) /\ ~ KeyLess(k2, key(r))
  <2>1. key(r) = <<jks[r], lower[r]>> /\ jks[r] \in Int /\ lower[r] \in Rational
    BY DEF HaveKeys, make_key, Keys
  <2>2. CASE jks[r] # jk
    <3>1. KeyLess(k1, key(r)) <=> jk < jks[r]
      BY <2>1, <2>2 DEF KeyLess
    <3>2. KeyLess(k2, key(r)) <=> jk < jks[r]
      BY <2>1, <2>2 DEF KeyLess
    <3> QED
      BY <2>2, <3>1, <3>2 DEF Within
  <2>3. CASE jks[r] = jk
    <3>1. KeyLess(k1, key(r)) <=> Less(Sub(ts, memory), lower[r])
      BY <2>1, <2>3 DEF KeyLess
    <3>2. KeyLess(k2, key(r)) <=> Less(ts, lower[r])
      BY <2>1, <2>3 DEF KeyLess
    <3>3. CASE ts = NAN
      <4>1. ~ Less(Sub(ts, memory), lower[r])
        BY <3>3 DEF Sub, Add, Less, is_null
      <4> QED
        BY <3>1, <3>3, <4>1 DEF Within
    <3>4. CASE ts \in Rational
      <4>1. /\ Sub(ts, memory) \in Rational /\ Add(lower[r], memory) \in Rational
            /\ Before(Sub(ts, memory), lower[r]) <=> Before(ts, Add(lower[r], memory))
        BY <2>1, <3>4, WindowShifts
      <4>2. Less(Sub(ts, memory), lower[r]) <=> Less(ts, Add(lower[r], memory))
        BY <2>1, <3>4, <4>1, LessIsBefore
      <4>3. ts # NAN
        BY <3>4
      <4> QED
        BY <2>3, <3>1, <3>2, <4>2, <4>3 DEF Within
    <3> QED
      BY <3>3, <3>4
  <2> QED
    BY <2>2, <2>3
\* What is later than now is later than a memory ago: the range does not end before
\* it begins.
<1>16. ASSUME NEW r \in rows, KeyLess(k2, key(r)) PROVE KeyLess(k1, key(r))
  <2>1. key(r) = <<jks[r], lower[r]>> /\ jks[r] \in Int /\ lower[r] \in Rational
    BY DEF HaveKeys, make_key, Keys
  <2>2. CASE jks[r] # jk
    BY <1>16, <2>1, <2>2 DEF KeyLess
  <2>3. CASE jks[r] = jk
    <3>1. KeyLess(k1, key(r)) <=> Less(Sub(ts, memory), lower[r])
      BY <2>1, <2>3 DEF KeyLess
    <3>2. Less(ts, lower[r])
      BY <1>16, <2>1, <2>3 DEF KeyLess
    <3>3. ts \in Rational
      BY <3>2 DEF Less, is_null
    <3>4. /\ Sub(ts, memory) \in Rational /\ Add(lower[r], memory) \in Rational
          /\ Before(Sub(ts, memory), lower[r]) <=> Before(ts, Add(lower[r], memory))
      BY <2>1, <3>3, WindowShifts
    <3>5. Before(ts, lower[r]) /\ ~ Before(Add(lower[r], memory), lower[r])
      BY <2>1, <3>2, <3>3, <3>4, LessIsBefore
    <3>6. Before(ts, Add(lower[r], memory))
      BY <2>1, <3>3, <3>4, <3>5, BeforeOrders
    <3> QED
      BY <2>1, <3>1, <3>4, <3>6, LessIsBefore
  <2> QED
    BY <2>2, <2>3
<1>17. b <= e
  <2> SUFFICES ASSUME e < b PROVE FALSE
    BY <1>1, <1>4
  <2> HIDE DEF b, e, k1, k2, key, s, n
  <2>1. e + 1 \in 1 .. n /\ e + 1 <= b /\ ~ (e + 1 <= e)
    BY <1>1, <1>4
  <2>2. ~ KeyLess(k1, key(s[e + 1])) /\ KeyLess(k2, key(s[e + 1]))
    BY <1>4, <2>1
  <2>3. PICK r \in rows : r = s[e + 1]
    BY <1>1, <2>1
  <2>4. KeyLess(k2, key(r))
    BY <2>2, <2>3
  <2>5. KeyLess(k1, key(r))
    BY <1>16, <2>4
  <2> QED
    BY <2>2, <2>3, <2>5
<1>6. find_range(index, jk, ts) = m
  <2>1. index.memory = memory /\ index.row_indices = s
    BY DEF IndexOver
  <2> HIDE DEF index, s
  <2>2. find_range(index, jk, ts) = IF b <= e THEN SubSeq(index.row_indices, b + 1, e) ELSE PastTheEnd
    BY <2>1 DEF find_range
  <2> QED
    BY <1>17, <2>1, <2>2
<1>7. W \subseteq rows
  BY DEF Within
<1> HIDE DEF index, s, n, k1, k2, b, e, key, W
<1> DEFINE c == IF b <= e THEN e - b ELSE 0
<1>8. c \in Nat /\ m \in [1 .. c -> rows] /\ \A i \in 1 .. c : m[i] = s[b + i] /\ b + i \in 1 .. n
  <2>1. b \in Nat /\ e \in Nat /\ e <= n
    BY <1>1, <1>4
  <2>2. m = [i \in 1 .. e - b |-> s[b + i]]
    BY <2>1
  <2>3. c \in Nat /\ 1 .. e - b = 1 .. c
    BY <2>1
  <2>4. m = [i \in 1 .. c |-> s[b + i]]
    BY <2>2, <2>3
  <2>5. \A i \in 1 .. c : b + i \in 1 .. n /\ s[b + i] \in rows
    BY <1>1, <2>1
  <2> QED
    BY <2>3, <2>4, <2>5
<1>9. \A i \in 1 .. n : (s[i] \in W <=> b < i /\ i <= e) /\ s[i] \in rows
  BY <1>1, <1>4, <1>5
<1> HIDE DEF m
<1>10. \A i \in 1 .. c : m[i] \in W
  BY <1>4, <1>8, <1>9
<1> HIDE DEF c
<1>11. m \in [1 .. c -> W]
  BY <1>8, <1>10
<1>12. ASSUME NEW r \in W PROVE \E i \in 1 .. c : m[i] = r
  <2>1. PICK i \in 1 .. n : s[i] = r
    BY <1>1, <1>7 DEF Range
  <2>2. b < i /\ i <= e
    BY <1>9, <2>1
  <2>3. i - b \in 1 .. c /\ b + (i - b) = i
    BY <1>4, <2>2 DEF c
  <2> QED
    BY <1>8, <2>1, <2>3
<1>13. Range(m) = W
  BY <1>11, <1>12 DEF Range
<1>14. ASSUME NEW i \in 1 .. c, NEW j \in 1 .. c, m[i] = m[j] PROVE i = j
  <2>1. b + i = b + j
    BY <1>1, <1>8, <1>14
  <2> QED
    BY <1>4, <1>8, <2>1
<1>15. Lists(m, W)
  BY <1>8, <1>11, <1>13, <1>14 DEF Lists
<1> QED
  BY <1>6, <1>15 DEF index, W

-----------------------------------------------------------------------------
(* Matches: frames and their views *)

\* The columns that find_ix_join_key and find_ix_time_stamp find hold a value for
\* each row.
LEMMA Columns ==
  ASSUME NEW df, IsFrame(df)
  PROVE  /\ \A name : HasKey(df, name) =>
                df.join_keys[find_ix_join_key(df, name)].data \in [Rows(df) -> Int]
         /\ \A name : HasTime(df, name) =>
                df.time_stamps[find_ix_time_stamp(df, name)].data
                    \in [Rows(df) -> Rational \cup {NAN}]
<1>1. ASSUME NEW name, HasKey(df, name)
      PROVE  find_ix_join_key(df, name) \in DOMAIN df.join_keys
  BY <1>1 DEF HasKey, find_ix_join_key
<1>2. ASSUME NEW name, HasTime(df, name)
      PROVE  find_ix_time_stamp(df, name) \in DOMAIN df.time_stamps
  BY <1>2 DEF HasTime, find_ix_time_stamp
<1> QED
  BY <1>1, <1>2 DEF IsFrame

\* A view has the rows of its frame, the join key and the time stamps it was asked
\* for, and an index where it has two time stamps.
LEMMA Subview ==
  ASSUME NEW df, IsFrame(df), NEW p
  PROVE  LET v  == create_subview(df, p)
             ts == df.time_stamps[find_ix_time_stamp(df, p.time_stamp)]
             up == df.time_stamps[find_ix_time_stamp(df, p.upper_time_stamp)]
         IN  /\ v.nrows = df.nrows
             /\ v.join_keys = <<df.join_keys[find_ix_join_key(df, p.join_key)]>>
             /\ p.time_stamp = <<>> => v.time_stamps = <<>> /\ v.ts_index = None
             /\ p.time_stamp # <<>> /\ p.upper_time_stamp = <<>> =>
                    v.time_stamps = <<ts>> /\ v.ts_index = None
             /\ p.time_stamp # <<>> /\ p.upper_time_stamp # <<>> =>
                    /\ v.time_stamps = <<ts, up>>
                    /\ v.ts_index = make_ts_index(df, p.join_key, p.time_stamp,
                                            p.upper_time_stamp, p.population_join_keys)
<1> DEFINE jk == df.join_keys[find_ix_join_key(df, p.join_key)]
           ts == df.time_stamps[find_ix_time_stamp(df, p.time_stamp)]
           up == df.time_stamps[find_ix_time_stamp(df, p.upper_time_stamp)]
           nums == make_numericals_and_time_stamps(df, p.additional,
                      p.allow_lagged_targets, p.upper_time_stamp)
           ix == make_ts_index(df, p.join_key, p.time_stamp,
                               p.upper_time_stamp, p.population_join_keys)
           view == [df EXCEPT !.join_keys = <<jk>>, !.numericals = nums,
                              !.time_stamps = <<>>, !.ts_index = None]
<1>1. create_subview(df, p) =
        IF p.time_stamp = <<>> THEN view
        ELSE IF p.upper_time_stamp = <<>> THEN [view EXCEPT !.time_stamps = <<ts>>]
        ELSE [view EXCEPT !.time_stamps = <<ts, up>>, !.ts_index = ix]
  BY DEF create_subview
<1>2. {"nrows", "join_keys", "numericals", "time_stamps", "ts_index"} \subseteq DOMAIN df
  BY DEF IsFrame
<1> HIDE DEF jk, ts, up, nums, ix
<1>3. /\ view.nrows = df.nrows /\ view.join_keys = <<jk>>
      /\ view.time_stamps = <<>> /\ view.ts_index = None /\ DOMAIN view = DOMAIN df
  BY <1>2
<1> HIDE DEF view
<1>4. LET v == [view EXCEPT !.time_stamps = <<ts>>]
      IN  /\ v.nrows = df.nrows /\ v.join_keys = <<jk>>
          /\ v.time_stamps = <<ts>> /\ v.ts_index = None
  BY <1>2, <1>3
<1>5. LET v == [view EXCEPT !.time_stamps = <<ts, up>>, !.ts_index = ix]
      IN  /\ v.nrows = df.nrows /\ v.join_keys = <<jk>>
          /\ v.time_stamps = <<ts, up>> /\ v.ts_index = ix
  BY <1>2, <1>3
<1>6. CASE p.time_stamp = <<>>
  BY <1>1, <1>3, <1>6 DEF jk
<1>7. CASE p.time_stamp # <<>> /\ p.upper_time_stamp = <<>>
  BY <1>1, <1>4, <1>7 DEF jk, ts
<1>8. CASE p.time_stamp # <<>> /\ p.upper_time_stamp # <<>>
  BY <1>1, <1>5, <1>8 DEF jk, ts, up, ix
<1> QED
  BY <1>6, <1>7, <1>8

\* A view has one join key, whatever the frame has.
LEMMA OneKey ==
  ASSUME NEW df, IsFrame(df)
  PROVE  \A p : Len(create_subview(df, p).join_keys) = 1
<1> SUFFICES ASSUME NEW p PROVE Len(create_subview(df, p).join_keys) = 1
  OBVIOUS
<1> DEFINE v == create_subview(df, p)
           jk == df.join_keys[find_ix_join_key(df, p.join_key)]
<1>1. v.join_keys = <<jk>>
  BY Subview
<1> HIDE DEF v, jk
<1>2. Len(v.join_keys) = 1
  BY <1>1
<1> QED
  BY <1>2 DEF v

\* The linear method takes the rows of the join key whose time stamps are in range.
InRange(per, ts_out, r) ==
  LET lower == time_stamp(per, r)
      upper == upper_time_stamp(per, r)
  IN  /\ ~ is_null(lower) /\ ~ is_null(ts_out) /\ ~ Less(ts_out, lower)
      /\ is_null(upper) \/ Less(ts_out, upper)

\* The scan lists the rows of the join key whose time stamps are in range.
LEMMA LinearMethod ==
  ASSUME NEW per, per.nrows \in Nat, NEW jk, NEW ts_out
  PROVE  Lists(make_matches_using_linear_method(per, jk, ts_out),
               {r \in RowsWith(per, per.join_keys[1].data, {jk}) : InRange(per, ts_out, r)})
<1> DEFINE all == RowsWith(per, per.join_keys[1].data, {jk})
           S == {r \in all : InRange(per, ts_out, r)}
<1>1. S \subseteq Rows(per)
  BY DEF RowsWith
<1>2. Lists(Ascending(S), S)
  BY <1>1, RowsAreFinite, AscendingLists
<1>3. Range(find(per, jk)) = all
  BY FindLists
<1> HIDE DEF all
<1>4. make_matches_using_linear_method(per, jk, ts_out) = Ascending(S)
  BY <1>3 DEF make_matches_using_linear_method, InRange
<1> QED
  BY <1>2, <1>4 DEF all

-----------------------------------------------------------------------------
(* Matches: the tables *)

\* Of two vectors, one inserted behind the other, the elements of the first keep
\* their places and those of the second follow.
LEMMA Concat ==
  ASSUME NEW m \in Nat, NEW n \in Nat, NEW s, NEW t,
         DOMAIN s = 1 .. m, s = [i \in 1 .. m |-> s[i]],
         DOMAIN t = 1 .. n, t = [i \in 1 .. n |-> t[i]]
  PROVE  /\ Len(s \o t) = m + n /\ DOMAIN (s \o t) = 1 .. m + n
         /\ \A i \in 1 .. m : (s \o t)[i] = s[i]
         /\ \A i \in m + 1 .. m + n : (s \o t)[i] = t[i - m]
<1> DEFINE S == {s[i] : i \in 1 .. m} \cup {t[i] : i \in 1 .. n}
<1>1. s \in [1 .. m -> S] /\ t \in [1 .. n -> S]
  OBVIOUS
<1> HIDE DEF S
<1>2. s \in Seq(S) /\ t \in Seq(S) /\ Len(s) = m /\ Len(t) = n
  BY <1>1
<1> QED
  BY <1>2

\* The tables that text fields add.
TextFields(p) == Len(RelevantTextFields(p))

\* The text fields are a vector.
LEMMA TextFieldsAreListed ==
  ASSUME NEW p, WellFormed(p)
  PROVE  /\ TextFields(p) \in Nat /\ DOMAIN RelevantTextFields(p) = 1 .. TextFields(p)
         /\ RelevantTextFields(p)
                = [i \in 1 .. TextFields(p) |-> RelevantTextFields(p)[i]]
<1> DEFINE S == {i \in DOMAIN p.peripheral : is_relevant_text_field(p, p.peripheral[i])}
           ixs == Ascending(S)
<1>1. S \subseteq Nat /\ IsFiniteSet(S)
  BY FS_Subset DEF WellFormed
<1> HIDE DEF S
<1>2. PICK n \in Nat : ixs \in [1 .. n -> S]
  BY <1>1, AscendingLists DEF Lists
<1>3. RelevantTextFields(p) = [k \in DOMAIN ixs |-> p.peripheral[ixs[k]]]
  BY DEF RelevantTextFields, S
<1> HIDE DEF ixs
<1>4. DOMAIN ixs = 1 .. n
  BY <1>2
<1>5. RelevantTextFields(p) = [k \in 1 .. n |-> p.peripheral[ixs[k]]]
  BY <1>3, <1>4
<1>6. Len(RelevantTextFields(p)) = n
  BY <1>5
<1> QED
  BY <1>5, <1>6 DEF TextFields

\* For each joined table there is a view of the population, one of the peripheral
\* table and a place for a subtable; then those of the text fields follow.
LEMMA TablesArePaired ==
  ASSUME NEW p, WellFormed(p)
  PROVE  LET t == NewTableHolder(p)
             n == Len(Joined(p))
             m == TextFields(p)
         IN  /\ DOMAIN Joined(p) = 1 .. n /\ n \in Nat /\ m \in Nat
             /\ t.params = p
             /\ Len(t.main_tables) = n + m /\ DOMAIN t.main_tables = 1 .. n + m
             /\ Len(t.peripheral_tables) = n + m
             /\ Len(t.subtables) = n + m
             /\ \A i \in 1 .. n + m : Len(t.main_tables[i].join_keys) = 1
             /\ \A i \in 1 .. n :
                    /\ t.main_tables[i] = create_subview(p.population, PopulationParams(p, i))
                    /\ t.peripheral_tables[i]
                            = create_subview(Peripheral(p, i), PeripheralParams(p, i))
                    /\ t.subtables[i] # None =>
                            t.subtables[i].params
                                = make_output(p, i, find_peripheral_ix(p.peripheral_names,
                                                                       Joined(p)[i].name))
<1> DEFINE t == NewTableHolder(p)
           n == Len(Joined(p))
           m == TextFields(p)
           text == [join_key |-> ROWID, time_stamp |-> <<>>, upper_time_stamp |-> <<>>,
                    additional |-> p.additional, allow_lagged_targets |-> FALSE,
                    population_join_keys |-> <<>>]
           mains == [i \in DOMAIN Joined(p) |-> create_subview(p.population, PopulationParams(p, i))]
           more == [i \in DOMAIN RelevantTextFields(p) |-> create_subview(p.population, text)]
           pers == [i \in DOMAIN Joined(p) |->
                        create_subview(p.peripheral[find_peripheral_ix(p.peripheral_names,
                                                                       Joined(p)[i].name)],
                                       PeripheralParams(p, i))]
           at(i) == make_output(p, i, find_peripheral_ix(p.peripheral_names, Joined(p)[i].name))
           subs == [i \in DOMAIN Joined(p) |->
                        IF Joined(p)[i].joined_tables = <<>> THEN None
                        ELSE [params            |-> at(i),
                              main_tables       |-> parse_main_tables(at(i)),
                              peripheral_tables |-> parse_peripheral_tables(at(i))]]
           none == [i \in DOMAIN RelevantTextFields(p) |-> None]
<1>1. n \in Nat /\ DOMAIN Joined(p) = 1 .. n
  BY DEF WellFormed
<1>2. /\ m \in Nat /\ DOMAIN RelevantTextFields(p) = 1 .. m
      /\ RelevantTextFields(p) = [i \in 1 .. m |-> RelevantTextFields(p)[i]]
  BY TextFieldsAreListed
<1>3. t = [params            |-> p,
           main_tables       |-> mains \o more,
           peripheral_tables |-> pers \o RelevantTextFields(p),
           subtables         |-> subs \o none]
  BY DEF NewTableHolder, parse_main_tables, parse_peripheral_tables, parse_subtables,
         add_text_fields_to_peripheral_tables
<1> DEFINE main == mains \o more
           peripheral == pers \o RelevantTextFields(p)
           sub == subs \o none
<1> HIDE DEF n, m
<1>4. /\ Len(main) = n + m /\ DOMAIN main = 1 .. n + m
      /\ \A i \in 1 .. n : main[i] = mains[i]
      /\ \A i \in n + 1 .. n + m : main[i] = more[i - n]
  <2>1. /\ DOMAIN mains = 1 .. n /\ mains = [i \in 1 .. n |-> mains[i]]
        /\ DOMAIN more = 1 .. m /\ more = [i \in 1 .. m |-> more[i]]
    BY <1>1, <1>2
  <2> HIDE DEF mains, more
  <2> QED
    BY <1>1, <1>2, <2>1, Concat
<1>5. /\ Len(peripheral) = n + m
      /\ \A i \in 1 .. n : peripheral[i] = pers[i]
  <2>1. DOMAIN pers = 1 .. n /\ pers = [i \in 1 .. n |-> pers[i]]
    BY <1>1
  <2> HIDE DEF pers
  <2> QED
    BY <1>1, <1>2, <2>1, Concat
<1>6. /\ Len(sub) = n + m
      /\ \A i \in 1 .. n : sub[i] = subs[i]
  <2>1. /\ DOMAIN subs = 1 .. n /\ subs = [i \in 1 .. n |-> subs[i]]
        /\ DOMAIN none = 1 .. m /\ none = [i \in 1 .. m |-> none[i]]
    BY <1>1, <1>2
  <2> HIDE DEF subs, none
  <2> QED
    BY <1>1, <1>2, <2>1, Concat
<1>7. \A i \in 1 .. n :
        /\ main[i] = create_subview(p.population, PopulationParams(p, i))
        /\ peripheral[i] = create_subview(Peripheral(p, i), PeripheralParams(p, i))
  <2> SUFFICES ASSUME NEW i \in 1 .. n
               PROVE  /\ mains[i] = create_subview(p.population, PopulationParams(p, i))
                      /\ pers[i] = create_subview(Peripheral(p, i), PeripheralParams(p, i))
    BY <1>4, <1>5
  <2> QED
    BY <1>1 DEF Peripheral
<1> DEFINE holder(i) == [params            |-> at(i),
                         main_tables       |-> parse_main_tables(at(i)),
                         peripheral_tables |-> parse_peripheral_tables(at(i))]
<1>8. \A i \in 1 .. n : sub[i] = (IF Joined(p)[i].joined_tables = <<>> THEN None ELSE holder(i))
  <2>1. \A i \in 1 .. n : subs[i] = (IF Joined(p)[i].joined_tables = <<>> THEN None ELSE holder(i))
    BY <1>1
  <2> HIDE DEF sub, subs, holder
  <2> QED
    BY <1>6, <2>1
<1>9. \A i : holder(i).params = at(i)
  <2> HIDE DEF at
  <2> QED
    OBVIOUS
<1> HIDE DEF t, main, peripheral, sub, at, holder
<1>10. \A i \in 1 .. n : sub[i] # None => sub[i].params = at(i)
  BY <1>8, <1>9
<1>11. \A i \in 1 .. n + m : Len(main[i].join_keys) = 1
  <2>1. IsFrame(p.population)
    BY DEF WellFormed
  <2>2. \A i \in 1 .. n : Len(main[i].join_keys) = 1
    BY <1>7, <2>1, OneKey
  <2>3. \A i \in 1 .. m : Len(more[i].join_keys) = 1
    <3>1. \A i \in 1 .. m : more[i] = create_subview(p.population, text)
      BY <1>2
    <3> HIDE DEF more, text
    <3> QED
      BY <2>1, <3>1, OneKey
  <2> HIDE DEF more
  <2>4. ASSUME NEW i \in n + 1 .. n + m PROVE Len(main[i].join_keys) = 1
    <3>1. i - n \in 1 .. m
      BY <1>1, <1>2
    <3> QED
      BY <1>4, <2>3, <3>1
  <2>5. \A i \in 1 .. n + m : i \in 1 .. n \/ i \in n + 1 .. n + m
    BY <1>1, <1>2
  <2> QED
    BY <2>2, <2>4, <2>5
<1>12. t.main_tables = main /\ t.peripheral_tables = peripheral /\ t.subtables = sub /\ t.params = p
  BY <1>3 DEF main, peripheral, sub
<1> QED
  BY <1>1, <1>2, <1>4, <1>5, <1>6, <1>7, <1>10, <1>11, <1>12 DEF t, n, m, at

-----------------------------------------------------------------------------
(* Matches: the matches of a row *)

KeyOf(df, name)  == df.join_keys[find_ix_join_key(df, name)].data
TimeOf(df, name) == df.time_stamps[find_ix_time_stamp(df, name)].data

\* What WellFormed says of the frames that are joined i-th.
LEMMA JoinedFrames ==
  ASSUME NEW p, WellFormed(p), NEW i \in DOMAIN Joined(p)
  PROVE  LET ph    == p.placeholder
             pop   == p.population
             per   == Peripheral(p, i)
             name  == ph.time_stamps_used[i]
             lower == ph.other_time_stamps_used[i]
             upper == ph.upper_time_stamps_used[i]
         IN  /\ IsFrame(pop) /\ IsFrame(per)
             /\ KeyOf(pop, ph.join_keys_used[i]) \in [Rows(pop) -> Int]
             /\ KeyOf(per, ph.other_join_keys_used[i]) \in [Rows(per) -> Int]
             /\ name = <<>> <=> lower = <<>>
             /\ name # <<>> => /\ TimeOf(pop, name) \in [Rows(pop) -> Rational \cup {NAN}]
                               /\ TimeOf(per, lower) \in [Rows(per) -> Rational \cup {NAN}]
             /\ upper # <<>> => /\ name # <<>>
                                /\ TimeOf(per, upper) \in [Rows(per) -> Rational \cup {NAN}]
             /\ upper # <<>> /\ per.time_stamps[find_ix_time_stamp(per, upper)].generated =>
                    LiesAMemoryAfter(TimeOf(per, upper), TimeOf(per, lower), per)
<1> DEFINE per == Peripheral(p, i)
<1>1. \E k \in DOMAIN p.peripheral_names : p.peripheral_names[k] = Joined(p)[i].name
  BY DEF WellFormed
<1>2. find_peripheral_ix(p.peripheral_names, Joined(p)[i].name) \in DOMAIN p.peripheral_names
  BY <1>1 DEF find_peripheral_ix
<1>3. IsFrame(per) /\ IsFrame(p.population)
  BY <1>2 DEF WellFormed, Peripheral
<1>4. /\ HasKey(p.population, p.placeholder.join_keys_used[i])
      /\ HasKey(per, p.placeholder.other_join_keys_used[i])
      /\ p.placeholder.time_stamps_used[i] = <<>>
            <=> p.placeholder.other_time_stamps_used[i] = <<>>
      /\ p.placeholder.time_stamps_used[i] # <<>> =>
            /\ HasTime(p.population, p.placeholder.time_stamps_used[i])
            /\ HasTime(per, p.placeholder.other_time_stamps_used[i])
      /\ p.placeholder.upper_time_stamps_used[i] # <<>> =>
            /\ p.placeholder.time_stamps_used[i] # <<>>
            /\ HasTime(per, p.placeholder.upper_time_stamps_used[i])
      /\ /\ p.placeholder.upper_time_stamps_used[i] # <<>>
         /\ per.time_stamps[find_ix_time_stamp(per, p.placeholder.upper_time_stamps_used[i])].generated
         => LiesAMemoryAfter(TimeOf(per, p.placeholder.upper_time_stamps_used[i]),
                             TimeOf(per, p.placeholder.other_time_stamps_used[i]), per)
  BY DEF WellFormed, TimeOf
<1> HIDE DEF per
<1> QED
  BY <1>3, <1>4, Columns DEF KeyOf, TimeOf, per

\* The rows of a join key between whose time stamps a point in time is.
Current(df, jks, low, up, jk, now) ==
  {s \in Rows(df) : /\ jks[s] = jk /\ jk >= 0
                    /\ ~ is_null(low[s]) /\ ~ is_null(now) /\ ~ Less(now, low[s])
                    /\ is_null(up[s]) \/ Less(now, up[s])}

\* The index of a computed upper time stamp finds the rows whose time stamps are in
\* range.
LEMMA IndexFindsTheRows ==
  ASSUME NAN \notin Rational, NEW df, df.nrows \in Nat, NEW jks \in [Rows(df) -> Int],
         NEW low \in [Rows(df) -> Rational \cup {NAN}],
         NEW up \in [Rows(df) -> Rational \cup {NAN}],
         df.nrows # 0, LiesAMemoryAfter(up, low, df), \A s \in Rows(df) : ~ is_null(low[s]),
         NEW keys, NEW jk \in keys, jk \in Int, NEW now \in Rational \cup {NAN}
  PROVE  Lists(find_range(IndexOver(RowsWith(df, jks, keys), jks, low, Sub(up[1], low[1])),
                          jk, now),
               Current(df, jks, low, up, jk, now))
<1> DEFINE rows == RowsWith(df, jks, keys)
           memory == Sub(up[1], low[1])
           S == Current(df, jks, low, up, jk, now)
<1>1. \A s \in Rows(df) : /\ low[s] \in Rational /\ up[s] \in Rational
                          /\ up[s] = Add(low[s], memory) /\ ~ Less(up[s], low[s])
  <2>1. 1 \in Rows(df)
    BY DEF Rows
  <2>2. \A s \in Rows(df) : low[s] \in Rational
    BY DEF is_null
  <2> QED
    BY <2>1, <2>2 DEF LiesAMemoryAfter
<1>2. memory \in Rational
  <2>1. 1 \in Rows(df)
    BY DEF Rows
  <2>2. up[1] \in Rational /\ low[1] \in Rational
    BY <1>1, <2>1
  <2> QED
    BY <2>2, WindowShifts
<1> HIDE DEF memory
<1>3. rows \subseteq Rows(df)
  BY DEF RowsWith
<1>4. HaveKeys(rows, jks, low)
  <2>1. rows \subseteq Nat /\ IsFiniteSet(rows)
    BY <1>3, RowsAreFinite
  <2>2. \A r \in rows : make_key(jks, low, r) \in Keys
    BY <1>1, <1>3 DEF make_key, Keys
  <2> QED
    BY <2>1, <2>2 DEF HaveKeys
<1>5. Within(rows, jks, low, memory, jk, now) = S
  <2>1. ASSUME NEW s \in Rows(df)
        PROVE  s \in Within(rows, jks, low, memory, jk, now) <=> s \in S
    <3>1. low[s] # NAN /\ up[s] # NAN /\ up[s] = Add(low[s], memory) /\ jks[s] \in Int
      BY <1>1, <2>1
    <3>2. s \in rows <=> jks[s] >= 0 /\ jks[s] \in keys
      BY DEF RowsWith
    <3> HIDE DEF rows
    <3> QED
      BY <3>1, <3>2 DEF Within, Current, is_null
  <2>2. Within(rows, jks, low, memory, jk, now) \subseteq Rows(df) /\ S \subseteq Rows(df)
    BY <1>3 DEF Within, Current
  <2> HIDE DEF S, rows
  <2> QED
    BY <2>1, <2>2
<1> HIDE DEF rows
<1>6. Lists(find_range(IndexOver(rows, jks, low, memory), jk, now),
            Within(rows, jks, low, memory, jk, now))
  <2>1. \A r \in rows : ~ Less(Add(low[r], memory), low[r])
    BY <1>1, <1>3
  <2> HIDE DEF rows
  <2> QED
    BY <1>2, <1>4, <2>1, FindRange
<1> QED
  BY <1>5, <1>6 DEF memory, rows

\* The matches of a row of the population view are the rows that belong to it, each
\* once, by the scan and by the index, where this has no null to sort; all of them have
\* the join key of the row.
LEMMA Matching ==
  ASSUME NAN \notin Rational, WellFormed(params), NEW i \in DOMAIN Joined(params),
         TimesAreKnown(i), NEW r \in Range(params.rows)
  PROVE  LET main == create_subview(params.population, PopulationParams(params, i))
             per  == create_subview(Peripheral(params, i), PeripheralParams(params, i))
         IN  /\ Lists(make_matches(main, per, r), {s \in Rows(per) : Belongs(i, r, s)})
             /\ \A s \in Rows(per) :
                    Belongs(i, r, s) => s \in Range(find(per, main.join_keys[1].data[r]))
<1> DEFINE ph    == params.placeholder
           pop   == params.population
           df    == Peripheral(params, i)
           name  == ph.time_stamps_used[i]
           lower == ph.other_time_stamps_used[i]
           upper == ph.upper_time_stamps_used[i]
           jk    == KeyOf(pop, ph.join_keys_used[i])[r]
           jks   == KeyOf(df, ph.other_join_keys_used[i])
           now   == TimeOf(pop, name)[r]
           low   == TimeOf(df, lower)
           up    == TimeOf(df, upper)
           ends  == df.time_stamps[find_ix_time_stamp(df, upper)]
           keys  == Range(population_join_keys(params, i))
           q1    == PopulationParams(params, i)
           q2    == PeripheralParams(params, i)
           main  == create_subview(pop, q1)
           per   == create_subview(df, q2)
           InTime(s) == /\ ~ is_null(low[s]) /\ ~ is_null(now) /\ ~ Less(now, low[s])
                        /\ upper # <<>> => is_null(up[s]) \/ Less(now, up[s])
           S     == {s \in Rows(df) : jks[s] = jk /\ jk >= 0 /\ (name # <<>> => InTime(s))}
           all   == {s \in Rows(df) : jks[s] = jk /\ jk >= 0}
<1>1. /\ IsFrame(pop) /\ IsFrame(df)
      /\ KeyOf(pop, ph.join_keys_used[i]) \in [Rows(pop) -> Int]
      /\ jks \in [Rows(df) -> Int]
      /\ name = <<>> <=> lower = <<>>
      /\ name # <<>> => /\ TimeOf(pop, name) \in [Rows(pop) -> Rational \cup {NAN}]
                        /\ low \in [Rows(df) -> Rational \cup {NAN}]
      /\ upper # <<>> => name # <<>> /\ up \in [Rows(df) -> Rational \cup {NAN}]
      /\ upper # <<>> /\ ends.generated => LiesAMemoryAfter(up, low, df)
  BY JoinedFrames
<1>18. upper # <<>> /\ ends.generated => \A s \in Rows(df) : ~ is_null(low[s])
  BY DEF TimesAreKnown, TimeOf
<1>2. r \in Rows(pop) /\ jk \in Int /\ (name # <<>> => now \in Rational \cup {NAN})
  <2>1. r \in Rows(pop)
    BY DEF WellFormed, Range
  <2> QED
    BY <1>1, <2>1
<1>3. jk \in keys
  <2>1. PICK k \in DOMAIN params.rows : params.rows[k] = r
    BY DEF Range
  <2>2. population_join_keys(params, i)
          = [l \in DOMAIN params.rows |-> KeyOf(pop, ph.join_keys_used[i])[params.rows[l]]]
    BY DEF population_join_keys, KeyOf
  <2>3. k \in DOMAIN population_join_keys(params, i) /\ population_join_keys(params, i)[k] = jk
    BY <2>1, <2>2
  <2> QED
    BY <2>3 DEF Range
<1>4. df.nrows \in Nat
  BY <1>1 DEF IsFrame
\* The view of the population.
<1>5. main.join_keys[1].data[r] = jk /\ time_stamp(main, r) = (IF name = <<>> THEN Zero ELSE now)
  <2>1. q1.join_key = ph.join_keys_used[i] /\ q1.time_stamp = name /\ q1.upper_time_stamp = <<>>
    BY DEF PopulationParams
  <2> DEFINE column == pop.join_keys[find_ix_join_key(pop, ph.join_keys_used[i])]
             begins == pop.time_stamps[find_ix_time_stamp(pop, name)]
  <2> HIDE DEF q1
  <2>2. /\ main.join_keys = <<column>>
        /\ name = <<>> => main.time_stamps = <<>>
        /\ name # <<>> => main.time_stamps = <<begins>>
    <3> HIDE DEF pop, name
    <3>1. /\ main.join_keys = <<pop.join_keys[find_ix_join_key(pop, q1.join_key)]>>
          /\ q1.time_stamp = <<>> => main.time_stamps = <<>>
          /\ q1.time_stamp # <<>> /\ q1.upper_time_stamp = <<>> =>
                main.time_stamps = <<pop.time_stamps[find_ix_time_stamp(pop, q1.time_stamp)]>>
      BY <1>1, Subview
    <3> HIDE DEF main
    <3> QED
      BY <2>1, <3>1
  <2>3. jk = column.data[r] /\ now = begins.data[r]
    BY DEF KeyOf, TimeOf
  <2> HIDE DEF main, column, begins, jk, now, name
  <2>4. main.join_keys[1] = column
    BY <2>2
  <2>5. <<begins>> # <<>> /\ <<begins>>[1] = begins
    OBVIOUS
  <2>6. name # <<>> => main.time_stamps # <<>> /\ main.time_stamps[1] = begins
    BY <2>2, <2>5, Zenon
  <2> QED
    BY <2>2, <2>3, <2>4, <2>6 DEF time_stamp
\* The view of the peripheral table.
<1>6. /\ per.nrows = df.nrows /\ per.join_keys[1].data = jks
      /\ name = <<>> => per.time_stamps = <<>> /\ per.ts_index = None
      /\ name # <<>> /\ upper = <<>> =>
            /\ \A s : time_stamp(per, s) = low[s] /\ upper_time_stamp(per, s) = NAN
            /\ per.ts_index = None
      /\ name # <<>> /\ upper # <<>> =>
            /\ \A s : time_stamp(per, s) = low[s] /\ upper_time_stamp(per, s) = up[s]
            /\ per.ts_index = make_ts_index(df, ph.other_join_keys_used[i], lower, upper,
                                            population_join_keys(params, i))
  <2>1. /\ q2.join_key = ph.other_join_keys_used[i] /\ q2.time_stamp = lower
        /\ q2.upper_time_stamp = upper
        /\ q2.population_join_keys = population_join_keys(params, i)
    BY DEF PeripheralParams
  <2> DEFINE column == df.join_keys[find_ix_join_key(df, ph.other_join_keys_used[i])]
             begins == df.time_stamps[find_ix_time_stamp(df, lower)]
             ix == make_ts_index(df, ph.other_join_keys_used[i], lower, upper,
                                 population_join_keys(params, i))
  <2> HIDE DEF q2
  <2>2. /\ per.nrows = df.nrows /\ per.join_keys = <<column>>
        /\ lower = <<>> => per.time_stamps = <<>> /\ per.ts_index = None
        /\ lower # <<>> /\ upper = <<>> => per.time_stamps = <<begins>> /\ per.ts_index = None
        /\ lower # <<>> /\ upper # <<>> => per.time_stamps = <<begins, ends>> /\ per.ts_index = ix
    <3> HIDE DEF df, lower, upper
    <3> DEFINE ts1 == df.time_stamps[find_ix_time_stamp(df, q2.time_stamp)]
               ts2 == df.time_stamps[find_ix_time_stamp(df, q2.upper_time_stamp)]
    <3>1. /\ per.nrows = df.nrows
          /\ per.join_keys = <<df.join_keys[find_ix_join_key(df, q2.join_key)]>>
          /\ q2.time_stamp = <<>> => per.time_stamps = <<>> /\ per.ts_index = None
          /\ q2.time_stamp # <<>> /\ q2.upper_time_stamp = <<>> =>
                per.time_stamps = <<ts1>> /\ per.ts_index = None
          /\ q2.time_stamp # <<>> /\ q2.upper_time_stamp # <<>> =>
                /\ per.time_stamps = <<ts1, ts2>>
                /\ per.ts_index = make_ts_index(df, q2.join_key, q2.time_stamp,
                                                q2.upper_time_stamp, q2.population_join_keys)
      BY <1>1, Subview
    <3> HIDE DEF per
    <3> QED
      BY <2>1, <3>1
  <2>3. jks = column.data /\ low = begins.data /\ up = ends.data
    BY DEF KeyOf, TimeOf
  <2> HIDE DEF per, column, begins, ends, jks, low, up, name, lower, upper, ix
  <2>4. per.join_keys[1].data = jks
    BY <2>2, <2>3
  <2>5. ASSUME per.time_stamps = <<begins>>, NEW s
        PROVE  time_stamp(per, s) = low[s] /\ upper_time_stamp(per, s) = NAN
    <3>1. Len(per.time_stamps) = 1 /\ per.time_stamps # <<>> /\ per.time_stamps[1] = begins
      BY <2>5
    <3> QED
      BY <2>3, <3>1 DEF time_stamp, upper_time_stamp
  <2>6. ASSUME per.time_stamps = <<begins, ends>>, NEW s
        PROVE  time_stamp(per, s) = low[s] /\ upper_time_stamp(per, s) = up[s]
    <3>1. /\ Len(per.time_stamps) = 2 /\ per.time_stamps # <<>>
          /\ per.time_stamps[1] = begins /\ per.time_stamps[2] = ends
      BY <2>6
    <3> QED
      BY <2>3, <3>1 DEF time_stamp, upper_time_stamp
  <2> QED
    BY <1>1, <2>2, <2>4, <2>5, <2>6 DEF ix
<1>7. {s \in Rows(per) : Belongs(i, r, s)} = S
  <2>1. Rows(per) = Rows(df)
    BY <1>6 DEF Rows
  <2>2. ASSUME NEW s \in Rows(df)
        PROVE  Belongs(i, r, s) <=> jks[s] = jk /\ jk >= 0 /\ (name # <<>> => InTime(s))
    BY DEF Belongs, KeyOf, TimeOf
  <2> QED
    BY <2>1, <2>2
<1>8. RowsWith(per, per.join_keys[1].data, {jk}) = all
  <2>1. Rows(per) = Rows(df)
    BY <1>6 DEF Rows
  <2> HIDE DEF per, jks, jk, df
  <2> QED
    BY <1>6, <2>1 DEF RowsWith
<1> HIDE DEF ph, pop, df, name, lower, upper, jk, jks, now, low, up, ends, keys, q1, q2, main, per
<1>9. per.nrows \in Nat
  BY <1>4, <1>6
<1>10. /\ Range(find(per, jk)) = all
       /\ has(per, jk) <=> all # {}
  BY <1>8, <1>9, FindLists
<1>11. S \subseteq all
  OBVIOUS
\* There is an index: the upper time stamps are computed.
<1>12. ASSUME per.ts_index # None
       PROVE  /\ name # <<>> /\ upper # <<>> /\ ends.generated /\ df.nrows # 0
              /\ per.ts_index = IndexOver(RowsWith(df, jks, keys), jks, low, Sub(up[1], low[1]))
  <2>1. /\ name # <<>> /\ upper # <<>>
        /\ per.ts_index = make_ts_index(df, ph.other_join_keys_used[i], lower, upper,
                                        population_join_keys(params, i))
    BY <1>6, <1>12
  <2> DEFINE index == IndexOver(RowsWith(df, jks, keys), jks, low, Sub(up[1], low[1]))
             absent == df.nrows = 0 \/ population_join_keys(params, i) = <<>> \/ ~ ends.generated
  <2>2. make_ts_index(df, ph.other_join_keys_used[i], lower, upper,
                      population_join_keys(params, i)) = IF absent THEN None ELSE index
    BY DEF make_ts_index, IndexOver, jks, low, up, ends, keys, KeyOf, TimeOf
  <2> HIDE DEF index
  <2>3. ~ absent /\ per.ts_index = index
    BY <1>12, <2>1, <2>2
  <2> QED
    BY <2>1, <2>3 DEF index
<1> DEFINE ts_out == IF name = <<>> THEN Zero ELSE now
           found == make_matches(main, per, r)
<1>13. found = IF all = {} THEN <<>>
               ELSE IF per.ts_index # None THEN find_range(per.ts_index, jk, ts_out)
               ELSE make_matches_using_linear_method(per, jk, ts_out)
  <2> HIDE DEF all
  <2> QED
    BY <1>5, <1>10 DEF make_matches, make_matches_using_ts_index
<1>14. Lists(found, S)
  <2>1. CASE all = {}
    <3>1. S = {} /\ found = <<>>
      BY <1>11, <1>13, <2>1
    <3>2. Lists(<<>>, {})
      <4>1. <<>> \in [1 .. 0 -> {}] /\ Range(<<>>) = {}
        BY DEF Range
      <4> QED
        BY <4>1 DEF Lists
    <3> HIDE DEF S, found
    <3> QED
      BY <3>1, <3>2
  <2>2. CASE all # {} /\ per.ts_index # None
    <3> DEFINE index == IndexOver(RowsWith(df, jks, keys), jks, low, Sub(up[1], low[1]))
               T == Current(df, jks, low, up, jk, now)
    <3>1. name # <<>> /\ upper # <<>> /\ ends.generated /\ df.nrows # 0 /\ per.ts_index = index
      BY <1>12, <2>2
    <3>2. Lists(find_range(index, jk, now), T)
      <4>1. /\ low \in [Rows(df) -> Rational \cup {NAN}] /\ up \in [Rows(df) -> Rational \cup {NAN}]
            /\ LiesAMemoryAfter(up, low, df) /\ now \in Rational \cup {NAN}
            /\ \A s \in Rows(df) : ~ is_null(low[s])
        BY <1>1, <1>2, <1>18, <3>1
      <4> QED
        BY <1>1, <1>2, <1>3, <1>4, <3>1, <4>1, IndexFindsTheRows
    <3>3. T = S
      BY <3>1 DEF Current
    <3> HIDE DEF S, T, index, all, found
    <3>4. found = find_range(index, jk, now)
      BY <1>13, <2>2, <3>1
    <3> QED
      BY <3>2, <3>3, <3>4
  <2>3. CASE all # {} /\ per.ts_index = None
    <3> DEFINE T == {s \in all : InRange(per, ts_out, s)}
    <3>1. Lists(make_matches_using_linear_method(per, jk, ts_out), T)
      BY <1>8, <1>9, LinearMethod
    <3>2. ASSUME NEW s \in all
          PROVE  InRange(per, ts_out, s) <=> (name # <<>> => InTime(s))
      <4>1. CASE name = <<>>
        <5>1. time_stamp(per, s) = Zero /\ upper_time_stamp(per, s) = NAN
          <6>1. per.time_stamps = <<>>
            BY <1>6, <4>1
          <6> QED
            BY <6>1 DEF time_stamp, upper_time_stamp
        <5>2. Zero \in Rational /\ ~ Before(Zero, Zero)
          BY DEF Zero, Int2Float, Rational, Before
        <5>3. ~ Less(Zero, Zero) /\ Zero # NAN
          BY <5>2, LessIsBefore
        <5> QED
          BY <4>1, <5>1, <5>3 DEF InRange, is_null
      <4>2. CASE name # <<>> /\ upper = <<>>
        <5>1. time_stamp(per, s) = low[s] /\ upper_time_stamp(per, s) = NAN
          BY <1>6, <4>2
        <5> QED
          BY <4>2, <5>1 DEF InRange, is_null
      <4>3. CASE name # <<>> /\ upper # <<>>
        <5>1. time_stamp(per, s) = low[s] /\ upper_time_stamp(per, s) = up[s]
          BY <1>6, <4>3
        <5> QED
          BY <4>3, <5>1 DEF InRange
      <4> QED
        BY <4>1, <4>2, <4>3
    <3>3. S = {s \in all : name # <<>> => InTime(s)}
      OBVIOUS
    <3>4. T = S
      <4> HIDE DEF all, S, InTime, ts_out
      <4> QED
        BY <3>2, <3>3
    <3> HIDE DEF T, S, all, found
    <3>5. found = make_matches_using_linear_method(per, jk, ts_out)
      BY <1>13, <2>3
    <3> QED
      BY <3>1, <3>4, <3>5
  <2> QED
    BY <2>1, <2>2, <2>3
<1>15. \A s \in S : s \in Range(find(per, main.join_keys[1].data[r]))
  <2>1. Range(find(per, main.join_keys[1].data[r])) = all
    BY <1>5, <1>10
  <2> QED
    BY <1>11, <2>1
<1>16. \A s \in Rows(per) : Belongs(i, r, s) => s \in S
  BY <1>7
<1> HIDE DEF S
<1>17. /\ Lists(found, {s \in Rows(per) : Belongs(i, r, s)})
       /\ \A s \in Rows(per) :
            Belongs(i, r, s) => s \in Range(find(per, main.join_keys[1].data[r]))
  BY <1>7, <1>14, <1>15, <1>16
<1> QED
  BY <1>17 DEF found, main, per, q1, q2, pop, df

-----------------------------------------------------------------------------
(* Matches: the invariant *)

\* The matches of the k-th row of the population, table by table.
MatchesOfRow(k) ==
  LET t == NewTableHolder(params)
  IN  [i \in DOMAIN t.main_tables |->
          make_matches(t.main_tables[i], t.peripheral_tables[i], params.rows[k])]

Inv ==
  /\ WellFormed(params)
  /\ tables \in {None, NewTableHolder(params)}
  /\ \E n \in 0 .. Len(params.rows) :
        /\ matches = [k \in 1 .. n |-> MatchesOfRow(k)]
        /\ tables = None => n = 0

\* The matches of one more row are put behind those of the rows before.
LEMMA NextMatches ==
  ASSUME NEW F(_), NEW n \in Nat
  PROVE  Append([k \in 1 .. n |-> F(k)], F(n + 1)) = [k \in 1 .. n + 1 |-> F(k)]
<1> DEFINE S == {F(k) : k \in 1 .. n + 1}
           s == [k \in 1 .. n |-> F(k)]
           t == [k \in 1 .. n + 1 |-> F(k)]
<1>1. \A k \in 1 .. n + 1 : F(k) \in S
  OBVIOUS
<1> HIDE DEF S
<1>2. s \in Seq(S) /\ Len(s) = n /\ t \in Seq(S) /\ Len(t) = n + 1
  BY <1>1
<1>3. /\ Append(s, F(n + 1)) \in Seq(S) /\ Len(Append(s, F(n + 1))) = n + 1
      /\ \A k \in 1 .. n + 1 : Append(s, F(n + 1))[k] = t[k]
  BY <1>1, <1>2
<1> HIDE DEF s, t
<1> QED
  BY <1>2, <1>3 DEF s, t

\* The tables are those TableHolder makes of its parameters, and the matches are
\* those of the first rows, table by table.
LEMMA InvHolds == HolderSpec => []Inv
<1>1. HolderInit => Inv
  <2> SUFFICES ASSUME HolderInit PROVE Inv
    OBVIOUS
  <2>1. WellFormed(params) /\ tables = None
    BY TableHolderAssumption DEF HolderInit
  <2>2. Len(params.rows) \in Nat /\ 0 \in 0 .. Len(params.rows)
    BY <2>1 DEF WellFormed
  <2>3. matches = [k \in 1 .. 0 |-> MatchesOfRow(k)]
    BY DEF HolderInit
  <2> QED
    BY <2>1, <2>2, <2>3 DEF Inv
<1>2. Inv /\ [HolderNext]_holderVars => Inv'
  <2> SUFFICES ASSUME Inv, [HolderNext]_holderVars PROVE Inv'
    OBVIOUS
  <2>1. PICK n \in 0 .. Len(params.rows) :
          matches = [k \in 1 .. n |-> MatchesOfRow(k)] /\ (tables = None => n = 0)
    BY DEF Inv
  <2>2. Len(params.rows) \in Nat
    BY DEF Inv, WellFormed
  <2>3. ASSUME params' = params PROVE \A k : MatchesOfRow(k)' = MatchesOfRow(k)
    BY <2>3 DEF MatchesOfRow
  <2>4. CASE Build
    <3>1. params' = params /\ matches' = matches /\ tables' = NewTableHolder(params) /\ n = 0
      BY <2>1, <2>4 DEF Build
    <3>2. matches' = [k \in 1 .. n |-> MatchesOfRow(k)']
      BY <2>1, <2>3, <3>1
    <3> QED
      BY <3>1, <3>2 DEF Inv
  <2>5. CASE MatchRow
    <3>1. params' = params /\ tables' = tables /\ tables = NewTableHolder(params)
      BY <2>5 DEF MatchRow, Inv
    <3>2. Len(matches) = n
      BY <2>1
    <3>3. n < Len(params.rows) /\ matches' = Append(matches, MatchesOfRow(n + 1))
      BY <2>5, <3>1, <3>2 DEF MatchRow, MatchesOfRow
    <3>4. matches' = [k \in 1 .. n + 1 |-> MatchesOfRow(k)]
      BY <2>1, <3>3, NextMatches
    <3>5. matches' = [k \in 1 .. n + 1 |-> MatchesOfRow(k)']
      BY <2>3, <3>1, <3>4
    <3>6. n + 1 \in 0 .. Len(params.rows) /\ tables # None
      BY <2>2, <2>5, <3>3 DEF MatchRow
    <3> QED
      BY <3>1, <3>5, <3>6 DEF Inv
  <2>6. CASE UNCHANGED holderVars
    <3>1. params' = params /\ tables' = tables /\ matches' = matches
      BY <2>6 DEF holderVars
    <3>2. matches' = [k \in 1 .. n |-> MatchesOfRow(k)']
      BY <2>1, <2>3, <3>1
    <3> QED
      BY <2>1, <3>1, <3>2 DEF Inv
  <2> QED
    BY <2>4, <2>5, <2>6 DEF HolderNext
<1> QED
  BY <1>1, <1>2, PTL DEF HolderSpec

\* A joined table and a row that was matched.
LEMMA MatchesOfJoined ==
  ASSUME NAN \notin Rational, Inv, NEW k \in DOMAIN matches, NEW i \in DOMAIN Joined(params)
  PROVE  LET main == create_subview(params.population, PopulationParams(params, i))
             per  == create_subview(Peripheral(params, i), PeripheralParams(params, i))
         IN  /\ tables = NewTableHolder(params)
             /\ tables.peripheral_tables[i] = per
             /\ k \in DOMAIN params.rows /\ params.rows[k] \in Range(params.rows)
             /\ matches[k][i] = make_matches(main, per, params.rows[k])
<1>1. PICK n \in 0 .. Len(params.rows) :
        matches = [l \in 1 .. n |-> MatchesOfRow(l)] /\ (tables = None => n = 0)
  BY DEF Inv
<1>2. /\ WellFormed(params) /\ Len(params.rows) \in Nat
      /\ params.rows \in [1 .. Len(params.rows) -> Rows(params.population)]
  BY DEF Inv, WellFormed
<1>3. k \in 1 .. n
  BY <1>1
<1>4. tables = NewTableHolder(params)
  BY <1>1, <1>3 DEF Inv
<1>5. k \in DOMAIN params.rows /\ params.rows[k] \in Range(params.rows)
  BY <1>2, <1>3 DEF Range
<1>6. LET t == NewTableHolder(params)
      IN  /\ i \in DOMAIN t.main_tables
          /\ t.main_tables[i] = create_subview(params.population, PopulationParams(params, i))
          /\ t.peripheral_tables[i]
                = create_subview(Peripheral(params, i), PeripheralParams(params, i))
  <2> DEFINE n1 == Len(Joined(params))
             m == TextFields(params)
             t == NewTableHolder(params)
  <2>1. /\ DOMAIN Joined(params) = 1 .. n1 /\ n1 \in Nat /\ m \in Nat
        /\ DOMAIN t.main_tables = 1 .. n1 + m
        /\ \A j \in 1 .. n1 :
              /\ t.main_tables[j] = create_subview(params.population, PopulationParams(params, j))
              /\ t.peripheral_tables[j]
                    = create_subview(Peripheral(params, j), PeripheralParams(params, j))
    BY <1>2, TablesArePaired
  <2> HIDE DEF n1, m, t
  <2>2. i \in 1 .. n1 /\ i \in 1 .. n1 + m
    BY <2>1
  <2> QED
    BY <2>1, <2>2 DEF t
<1>7. matches[k] = MatchesOfRow(k)
  BY <1>1, <1>3
<1>8. matches[k][i] = make_matches(NewTableHolder(params).main_tables[i],
                                   NewTableHolder(params).peripheral_tables[i], params.rows[k])
  BY <1>6, <1>7 DEF MatchesOfRow
<1> QED
  BY <1>4, <1>5, <1>6, <1>8

\* The types, and that every table of the population has its peripheral one.
THEOREM TypeCorrect == HolderSpec => []HolderTypeOK
<1>1. Inv => HolderTypeOK
  <2> SUFFICES ASSUME Inv PROVE HolderTypeOK
    OBVIOUS
  <2>1. PICK n \in 0 .. Len(params.rows) : matches = [k \in 1 .. n |-> MatchesOfRow(k)]
    BY DEF Inv
  <2>2. WellFormed(params) /\ Len(params.rows) \in Nat
    BY DEF Inv, WellFormed
  <2>3. Len(matches) <= Len(params.rows)
    BY <2>1, <2>2
  <2>4. ASSUME tables # None
        PROVE  /\ Len(tables.main_tables) = Len(tables.peripheral_tables)
               /\ Len(tables.subtables) = Len(tables.main_tables)
               /\ \A i \in DOMAIN tables.main_tables :
                     Len(tables.main_tables[i].join_keys) = 1
    <3>1. tables = NewTableHolder(params)
      BY <2>4 DEF Inv
    <3> QED
      BY <2>2, <3>1, TablesArePaired
  <2> QED
    BY <2>2, <2>3, <2>4 DEF HolderTypeOK
<1> QED
  BY <1>1, InvHolds, PTL

\* A feature is computed from the rows that belong to a row, and from no other.
THEOREM MatchesExact == HolderSpec => []MatchesAreExact
<1>1. Inv => MatchesAreExact
  <2> SUFFICES ASSUME Inv, NEW k \in DOMAIN matches, NEW i \in DOMAIN Joined(params),
                      TimesAreKnown(i)
               PROVE  LET m   == matches[k][i]
                          all == Rows(tables.peripheral_tables[i])
                      IN  /\ Range(m) = {s \in all : Belongs(i, params.rows[k], s)}
                          /\ Len(m) = Cardinality(Range(m))
    BY DEF MatchesAreExact
  <2> DEFINE m == matches[k][i]
             S == {s \in Rows(tables.peripheral_tables[i]) : Belongs(i, params.rows[k], s)}
  <2>1. Lists(m, S)
    BY MatchesOfJoined, Matching, TableHolderAssumption DEF Inv
  <2> HIDE DEF m, S
  <2>2. Range(m) = S /\ Len(m) = Cardinality(Range(m))
    BY <2>1, ListsCount
  <2> QED
    BY <2>2 DEF m, S
<1> QED
  BY <1>1, InvHolds, PTL

\* The rows of a subtable are enough for the features that are built on it.
THEOREM SubtablesSuffice == HolderSpec => []MatchedRowsAreInTheSubtable
<1>1. Inv => MatchedRowsAreInTheSubtable
  <2> SUFFICES ASSUME Inv, NEW k \in DOMAIN matches, NEW i \in DOMAIN Joined(params),
                      TimesAreKnown(i), tables.subtables[i] # None
               PROVE  Range(matches[k][i]) \subseteq Range(tables.subtables[i].params.rows)
    BY DEF MatchedRowsAreInTheSubtable
  <2> DEFINE j    == find_peripheral_ix(params.peripheral_names, Joined(params)[i].name)
             main == create_subview(params.population, PopulationParams(params, i))
             per  == create_subview(Peripheral(params, i), PeripheralParams(params, i))
             r    == params.rows[k]
             S    == {s \in Rows(per) : Belongs(i, r, s)}
             all(l) == Range(find(per, main.join_keys[1].data[params.rows[l]]))
             U    == UNION {all(l) : l \in DOMAIN params.rows}
  <2>1. WellFormed(params)
    BY DEF Inv
  <2>2. k \in DOMAIN params.rows
    BY MatchesOfJoined, TableHolderAssumption
  <2>3. Range(matches[k][i]) = S
    <3>1. Lists(matches[k][i], S)
      BY MatchesOfJoined, Matching, TableHolderAssumption DEF Inv
    <3> HIDE DEF S
    <3> QED
      BY <3>1, ListsCount
  <2>4. S \subseteq all(k)
    BY <2>1, MatchesOfJoined, Matching, TableHolderAssumption
  <2>5. tables.subtables[i].params = make_output(params, i, j)
    <3>1. tables = NewTableHolder(params) /\ i \in 1 .. Len(Joined(params))
      BY <2>1, MatchesOfJoined, TableHolderAssumption DEF WellFormed
    <3> QED
      BY <2>1, <3>1, TablesArePaired
  <2>6. make_output(params, i, j).rows = make_subrows(main, params.rows, per)
    <3>1. {"population", "rows", "additional", "placeholder"} \subseteq DOMAIN params
      BY <2>1 DEF WellFormed
    <3>2. per = create_subview(params.peripheral[j], PeripheralParams(params, i))
      BY DEF Peripheral
    <3> DEFINE rows == make_subrows(main, params.rows, per)
    <3>3. make_output(params, i, j)
            = [params EXCEPT !.population  = params.peripheral[j],
                             !.rows        = rows,
                             !.placeholder = Joined(params)[i],
                             !.additional  = <<>>]
      BY <3>2 DEF make_output
    <3> HIDE DEF rows
    <3>4. make_output(params, i, j).rows = rows
      BY <3>1, <3>3
    <3> QED
      BY <3>4 DEF rows
  <2>7. Range(make_subrows(main, params.rows, per)) = U
    <3>1. make_subrows(main, params.rows, per) = Ascending(U)
      BY DEF make_subrows
    <3>2. U \subseteq Rows(per) /\ per.nrows \in Nat
      <4>1. per.nrows \in Nat
        <5>1. IsFrame(Peripheral(params, i))
          BY <2>1, JoinedFrames
        <5> QED
          BY <5>1, Subview DEF IsFrame
      <4>2. \A l \in DOMAIN params.rows : all(l) \subseteq Rows(per)
        <5> HIDE DEF per, main
        <5>1. \A jk : RowsWith(per, per.join_keys[1].data, {jk}) \subseteq Rows(per)
          BY DEF RowsWith
        <5>2. \A jk : Range(find(per, jk)) \subseteq Rows(per)
          BY <4>1, <5>1, FindLists
        <5> QED
          BY <5>2
      <4> HIDE DEF all
      <4> QED
        BY <4>1, <4>2
    <3>3. Lists(Ascending(U), U)
      BY <3>2, RowsAreFinite, AscendingLists
    <3> HIDE DEF U
    <3> QED
      BY <3>1, <3>3, ListsCount
  <2> HIDE DEF main, per, S, all, j
  <2>8. S \subseteq U
    BY <2>2, <2>4
  <2> QED
    BY <2>3, <2>5, <2>6, <2>7, <2>8
<1> QED
  BY <1>1, InvHolds, PTL

\* The rows that belong to a row are matched with it, and no others, and all of them
\* are in the subtable.
THEOREM MatchesBelong == HolderSpec => []MatchesAreTheRowsThatBelong
<1>1. MatchesAreExact /\ MatchedRowsAreInTheSubtable => MatchesAreTheRowsThatBelong
  BY DEF MatchesAreTheRowsThatBelong
<1> QED
  BY <1>1, MatchesExact, SubtablesSuffice, PTL
=============================================================================
