------------------------------ MODULE Pipelines ------------------------------
(***************************************************************************)
(* The requests that create, train, apply, deploy and delete pipelines     *)
(* (engine::handlers::PipelineManager, the pipelines of ProjectManager),   *)
(* run by one thread each on top of the read-write lock as RWLockSpec      *)
(* specifies it.                                                           *)
(*                                                                         *)
(* A handler works on a copy of the pipeline and assigns the whole copy    *)
(* back to the map at its end.  fit, deploy and copy make the copy under a *)
(* ReadLock that they let go of at once; transform and refresh make it     *)
(* without any lock.  A thread can hold two lock objects at a time: those  *)
(* are the parties of the lock.                                            *)
(***************************************************************************)
EXTENDS Naturals, FiniteSets

CONSTANTS Clients,       \* threads that serve requests
          Names,         \* names of pipelines
          MaxRequests,   \* bound: requests in one behaviour
          Absent

\* A pipeline: its definition, whether it answers HTTP requests, the fit it
\* carries with the definition that was fitted (0: not fitted), and the fit its
\* scores are about (0: none).
PipelineType ==
  [obj : 1..MaxRequests, allow_http_ : BOOLEAN,
   fitted_ : [fit : 0..MaxRequests, obj : 0..MaxRequests], scores_ : 0..MaxRequests]

ASSUME PipelinesAssumption == MaxRequests \in Nat /\ Absent \notin PipelineType

VARIABLES
  pipelines_,
  held,       \* what each party holds of read_write_lock_
  pc, req,    \* of each thread: where it is, and its request
  num,        \* of each thread: the number of its request, which also numbers
              \* the definitions and the fits
  copy,       \* of each thread: its copy of the pipeline
  requests,   \* how many there were
  deployed,   \* whether each pipeline is to allow HTTP requests, by the
              \* answers sent so far (in no variable of the program)
  raced       \* whether a copy without lock ever met an assignment

vars == <<pipelines_, held, pc, req, num, copy, requests, deployed, raced>>

Parties == Clients \X {"outer", "nested"}

Lock == INSTANCE RWLockSpec WITH Threads <- Parties, mode <- held

\* A pipeline that was just added is not fitted and has no scores.
Pipeline(obj) ==
  [obj |-> obj, allow_http_ |-> FALSE, fitted_ |-> [fit |-> 0, obj |-> 0], scores_ |-> 0]

Idle == [op |-> "none"]

Init ==
  /\ pipelines_ = [n \in Names |-> Absent]
  /\ held = [p \in Parties |-> "free"]
  /\ pc = [t \in Clients |-> "idle"]
  /\ req = [t \in Clients |-> Idle]
  /\ num = [t \in Clients |-> 0]
  /\ copy = [t \in Clients |-> Absent]
  /\ requests = 0
  /\ deployed = [n \in Names |-> FALSE]
  /\ raced = FALSE

-----------------------------------------------------------------------------

Goto(t, l) == pc' = [pc EXCEPT ![t] = l]

SetCopy(t, p) == copy' = [copy EXCEPT ![t] = p]

outer(t) == <<t, "outer">>
nested(t) == <<t, "nested">>

exists(name) == pipelines_[name] # Absent

\* The request is over, by an answer or an exception.
End(t) ==
  /\ Goto(t, "idle")
  /\ req' = [req EXCEPT ![t] = Idle]
  /\ num' = [num EXCEPT ![t] = 0]
  /\ SetCopy(t, Absent)

\* ... and the destructor of the lock object releases what it holds.
Done(t) == End(t) /\ Lock!Release(outer(t))

Requests ==
  [op : {"add", "delete", "fit", "refresh"}, name : Names]
  \cup [op : {"copy"}, name : Names, other : Names]
  \cup [op : {"deploy"}, name : Names, deploy : BOOLEAN]
  \cup [op : {"transform"}, name : Names, store : BOOLEAN, score : BOOLEAN]

FirstStep(op) == CASE op \in {"add", "delete"}            -> "set_write"
                   [] op \in {"fit", "deploy", "copy"}    -> "get_pipeline"
                   [] op \in {"transform", "refresh"}     -> "peek"

Begin(t, r) ==
  /\ pc[t] = "idle"
  /\ requests < MaxRequests
  /\ requests' = requests + 1
  /\ req' = [req EXCEPT ![t] = r]
  /\ num' = [num EXCEPT ![t] = requests + 1]
  /\ SetCopy(t, IF r.op = "add" THEN Pipeline(requests + 1) ELSE Absent)
  /\ Goto(t, FirstStep(r.op))
  /\ UNCHANGED <<pipelines_, held, deployed, raced>>

-----------------------------------------------------------------------------
(* The copy *)

\* get_pipeline: the ReadLock is held for the time of the copy only, which is
\* one step because no party can be writing.
GetPipeline(t) ==
  LET r == req[t]
      p == pipelines_[IF r.op = "copy" THEN r.other ELSE r.name]
  IN  /\ pc[t] = "get_pipeline"
      /\ Lock!NobodyIs("write")
      /\ IF p = Absent THEN End(t)
         ELSE /\ SetCopy(t, IF r.op = "deploy" THEN [p EXCEPT !.allow_http_ = r.deploy]
                            ELSE p)
              /\ Goto(t, CASE r.op = "fit"    -> "weak"
                           [] r.op = "deploy" -> "set_weak"
                           [] r.op = "copy"   -> "set_write")
              /\ UNCHANGED <<req, num>>
      /\ UNCHANGED <<pipelines_, held, requests, deployed, raced>>

\* The pipelines an assignment by thread s to the same entry may show instead.
Mixed(p, q) ==
  [obj : {p.obj, q.obj}, allow_http_ : {p.allow_http_, q.allow_http_},
   fitted_ : {p.fitted_, q.fitted_}, scores_ : {p.scores_, q.scores_}]

Assigning(s, name) == pc[s] = "assign" /\ req[s].name = name

\* Getter::get(name, pipelines()) without a lock: while another thread assigns
\* to the entry the copy is a mixture, while one erases it anything happens.
Peek(t) ==
  LET name == req[t].name
      writers == {s \in Clients : Assigning(s, name) /\ copy[s] # Absent}
      candidates == {pipelines_[name]} \cup
        UNION {Mixed(pipelines_[name], copy[s]) : s \in writers}
  IN  /\ pc[t] = "peek"
      /\ raced' = (raced \/ \E s \in Clients : pc[s] = "assign")
      /\ IF ~exists(name) \/ req[t].op = "refresh" THEN End(t)
         ELSE /\ \E p \in candidates : SetCopy(t, p)
              /\ Goto(t, "weak")
              /\ UNCHANGED <<req, num>>
      /\ UNCHANGED <<pipelines_, held, requests, deployed>>

-----------------------------------------------------------------------------
(* Training and applying a pipeline, under the weak write lock *)

TakeWeakLock(t) ==
  /\ pc[t] \in {"weak", "set_weak"}
  /\ Lock!Acquire(outer(t), "weak")
  /\ Goto(t, IF pc[t] = "set_weak" THEN "find"
             ELSE IF req[t].op = "fit" THEN "fit" ELSE "receive_data")
  /\ UNCHANGED <<pipelines_, req, num, copy, requests, deployed, raced>>

\* receive_data takes a ReadLock on top of the weak lock, for as long as the
\* client sends.
BeginReceiveData(t) ==
  /\ pc[t] = "receive_data"
  /\ Lock!Acquire(nested(t), "read")
  /\ Goto(t, "receiving")
  /\ UNCHANGED <<pipelines_, req, num, copy, requests, deployed, raced>>

\* Mutant: the ReadLock of receive_data lives as long as the request.
EndReceiveDataLocked(t) ==
  /\ pc[t] = "receiving"
  /\ Goto(t, "transform")
  /\ UNCHANGED <<pipelines_, held, req, num, copy, requests, deployed, raced>>

EndReceiveData(t) ==
  /\ pc[t] = "receiving"
  /\ Lock!Release(nested(t))
  /\ Goto(t, "transform")
  /\ UNCHANGED <<pipelines_, req, num, copy, requests, deployed, raced>>

\* After the transformation the weak lock is kept to store a data frame, else
\* it is released; set_pipeline, which stores scores, takes it once more.
Transform(t) ==
  LET r == req[t]
      p == copy[t]
  IN  /\ pc[t] = "transform"
      /\ IF p.fitted_.fit = 0 \/ ~(r.store \/ r.score) THEN Done(t)
         ELSE /\ SetCopy(t, IF r.score THEN [p EXCEPT !.scores_ = p.fitted_.fit] ELSE p)
              /\ IF r.store THEN Goto(t, "upgrade_store") /\ UNCHANGED held
                 ELSE Goto(t, "set_weak") /\ Lock!Release(outer(t))
              /\ UNCHANGED <<req, num>>
      /\ UNCHANGED <<pipelines_, requests, deployed, raced>>

\* store_df changes the encodings and the data frames: see DataFrames.
StoreDataFrame(t) ==
  /\ pc[t] = "store_df"
  /\ IF req[t].score
     THEN Lock!Release(outer(t)) /\ Goto(t, "set_weak") /\ UNCHANGED <<req, num, copy>>
     ELSE Done(t)
  /\ UNCHANGED <<pipelines_, requests, deployed, raced>>

\* Mutant: fit leaves the scores of the fit before.
FitKeepsScores(t) ==
  /\ pc[t] = "fit"
  /\ SetCopy(t, [copy[t] EXCEPT !.fitted_ = [fit |-> num[t], obj |-> copy[t].obj]])
  /\ Goto(t, "find")
  /\ UNCHANGED <<pipelines_, held, req, num, requests, deployed, raced>>

Fit(t) ==
  /\ pc[t] = "fit"
  /\ SetCopy(t, [copy[t] EXCEPT !.fitted_ = [fit |-> num[t], obj |-> copy[t].obj],
                                !.scores_ = num[t]])
  /\ Goto(t, "find")
  /\ UNCHANGED <<pipelines_, held, req, num, requests, deployed, raced>>

\* Mutant: nobody checks whether the pipeline is still there.
FindUnchecked(t) ==
  /\ pc[t] = "find"
  /\ Goto(t, "upgrade")
  /\ UNCHANGED <<pipelines_, held, req, num, copy, requests, deployed, raced>>

\* pipelines().find(name): fit and set_pipeline throw if it is gone.
Find(t) ==
  /\ pc[t] = "find"
  /\ IF exists(req[t].name)
     THEN Goto(t, "upgrade") /\ UNCHANGED <<held, req, num, copy>>
     ELSE Done(t)
  /\ UNCHANGED <<pipelines_, requests, deployed, raced>>

Upgrade(t) ==
  /\ pc[t] \in {"upgrade", "upgrade_store"}
  /\ Lock!UpgradeWeak(outer(t))
  /\ Goto(t, IF pc[t] = "upgrade_store" THEN "store_df" ELSE "assign")
  /\ UNCHANGED <<pipelines_, req, num, copy, requests, deployed, raced>>

\* set_pipeline and delete_pipeline of ProjectManager.
TakeWriteLock(t) ==
  /\ pc[t] = "set_write"
  /\ Lock!Acquire(outer(t), "write")
  /\ Goto(t, "assign")
  /\ UNCHANGED <<pipelines_, req, num, copy, requests, deployed, raced>>

\* The assignment to the entry, its insertion, or its removal (the copy of a
\* thread that deletes is Absent).
Assign(t) ==
  LET r == req[t]
  IN  /\ pc[t] = "assign"
      /\ pipelines_' = [pipelines_ EXCEPT ![r.name] = copy[t]]
      /\ deployed' = [deployed EXCEPT ![r.name] =
                        IF r.op = "delete" THEN FALSE
                        ELSE IF r.op \in {"add", "copy", "deploy"} THEN copy[t].allow_http_
                        ELSE @]
      /\ Done(t)
      /\ UNCHANGED <<requests, raced>>

\* The connection breaks, the data cannot be parsed, training fails: the
\* exception runs the destructors of both lock objects.
Fails(t) ==
  /\ pc[t] \in {"receive_data", "receiving", "transform", "fit"}
  /\ End(t)
  /\ held' = [p \in Parties |-> IF p \in {outer(t), nested(t)} THEN "free" ELSE held[p]]
  /\ UNCHANGED <<pipelines_, requests, deployed, raced>>

-----------------------------------------------------------------------------
Step(t) ==
  \/ GetPipeline(t) \/ Peek(t)
  \/ TakeWeakLock(t) \/ BeginReceiveData(t) \/ EndReceiveData(t)
  \/ Transform(t) \/ StoreDataFrame(t) \/ Fit(t) \/ Find(t)
  \/ Upgrade(t) \/ TakeWriteLock(t) \/ Assign(t)

Next == \E t \in Clients :
  \/ \E r \in Requests : Begin(t, r)
  \/ Step(t) \/ Fails(t)

\* The lock is handed out fairly and whoever can go on does, clients that
\* send data included.  Nobody has to make a request, and none has to fail.
Fairness == \A t \in Clients : SF_vars(Step(t))

Spec == Init /\ [][Next]_vars

FairSpec == Spec /\ Fairness

-----------------------------------------------------------------------------
(* Properties *)

Holds(t, m) == held[outer(t)] = m

\* A thread holds of the lock what its place in the handler calls for.
TypeOK ==
  /\ pipelines_ \in [Names -> PipelineType \cup {Absent}]
  /\ deployed \in [Names -> BOOLEAN]
  /\ copy \in [Clients -> PipelineType \cup {Absent}]
  /\ held \in [Parties -> Lock!Modes]
  /\ requests \in 0..MaxRequests /\ num \in [Clients -> 0..MaxRequests]
  /\ raced \in BOOLEAN
  /\ \A t \in Clients :
       /\ Holds(t, "write") <=> pc[t] \in {"assign", "store_df"}
       /\ Holds(t, "weak") <=> pc[t] \in {"receive_data", "receiving", "transform",
                                          "fit", "find", "upgrade", "upgrade_store"}
       /\ held[nested(t)] = "read" <=> pc[t] = "receiving"

\* The scores of a pipeline are about the fit that is stored with them, and
\* that fit was made with the definition that is stored with it: whoever
\* assigned last has assigned all of them.  Unless a copy was made without lock
\* in the middle of an assignment (PipelineManager.cpp:190,479,763).
PipelinesAreConsistent == raced \/
  \A n \in Names : exists(n) =>
    /\ pipelines_[n].fitted_.fit # 0 => pipelines_[n].fitted_.obj = pipelines_[n].obj
    /\ pipelines_[n].scores_ \in {0, pipelines_[n].fitted_.fit}

\* fit, deploy and transform find the pipeline, wait for their upgrade, and
\* then assign through the iterator (PipelineManager.hpp:291-299,
\* PipelineManager.cpp:413-425): it is still there, and nothing else than a
\* request to add or copy it brings back a pipeline that was deleted.
DeletedStaysDeleted ==
  [][\A t \in Clients : Assign(t) /\ ~exists(req[t].name) =>
       req[t].op \in {"add", "copy", "delete"}]_vars

\* No two handlers wait for each other, or for themselves: with a lock that is
\* fair, every request comes to its end, although transform takes a second
\* lock while it holds one.
RequestsEnd == \A t \in Clients : (pc[t] # "idle") ~> (pc[t] = "idle")

\* deploy "Determines whether the pipeline should allow HTTP requests."
\* (PipelineManager.hpp:95-96): what it has answered stays true, until it is
\* called again or the pipeline is replaced.  The race above is excluded.
DeployDetermines == raced \/
  \A n \in Names : exists(n) => pipelines_[n].allow_http_ = deployed[n]
=============================================================================
