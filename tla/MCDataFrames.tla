----------------------------- MODULE MCDataFrames -----------------------------
(***************************************************************************)
(* What keeps rows: the handlers of requests on data frames, and the pool  *)
(* that holds the vectors of memory-mapped frames.  A behaviour is one of  *)
(* either (part); the other rests in its initial state.                    *)
(*                                                                         *)
(* Two clients, two data frames and two strings.  The columns that clients *)
(* send hold both strings, in an order of their own, and a null value: two *)
(* requests that build on the same global encoding disagree on the ids.    *)
(*                                                                         *)
(* Three vectors in one pool: enough for two blocks that are in use around *)
(* a hole that is given back and taken again.                              *)
(***************************************************************************)
EXTENDS DataFrames, Pool

CONSTANTS Active,     \* what a behaviour may be one of
          c1, c2, d1, d2, a, b, v1, v2, v3

VARIABLE part

storedVars == <<part, vars, poolVars>>

MCClients == {c1, c2}

MCNames == {d1, d2}

MCStrings == {a, b}

MCUploads == {<<a, NULL>>, <<b, a>>}

MCVectors == {v1, v2, v3}

StoredInit == part \in Active /\ Init /\ PoolInit

RequestStep == part = "requests" /\ Next /\ UNCHANGED <<part, poolVars>>

PoolStep == part = "pool" /\ PoolNext /\ UNCHANGED <<part, vars>>

StoredNext == RequestStep \/ PoolStep

StoredSpec == StoredInit /\ [][StoredNext]_storedVars

Symmetry == Permutations(MCClients) \cup Permutations(MCNames)

\* States that differ in what pages beyond the contents of a vector hold are
\* one state: nobody reads those pages before they are written.
FilledPages == UNION {page_num_[v] .. page_num_[v] + size_[v] - 1 :
                        v \in {w \in Vectors : page_num_[w] # NOT_ALLOCATED}}

ReadPages == [p \in DOMAIN data_ |-> IF p \in FilledPages THEN data_[p] ELSE NOT_ALLOCATED]

Seen == <<part, vars, tracker, num_pages_, pages_, ReadPages, page_num_, size_, misread>>

\* Behaviours are not followed beyond a save that was interrupted by a crash, and not
\* beyond the slot past the end of the free blocks.
Bound == NotTorn /\ NotMisread

\* The types of both.
StoredTypeOK == TypeOK /\ PoolTypeOK
=============================================================================
