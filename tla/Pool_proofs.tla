----------------------------- MODULE Pool_proofs -----------------------------
(***************************************************************************)
(* The four invariants of Pool, for any set of vectors, any size of the    *)
(* pool and of the disk.                                                   *)
(*                                                                         *)
(* The argument has three levels.  Listed says what a list of free blocks  *)
(* is (not empty, in order, none touching the next); lemmas show that each *)
(* operator of FreeBlocksTracker keeps it, and which pages are free        *)
(* afterwards.  Step says what an operation on one vector may do to the    *)
(* pool, and StepKeeps that every such step keeps the invariant Kept.  A   *)
(* lemma for each operation shows that it is such a step.  Everything      *)
(* holds until free_block takes the slot behind its list for a block       *)
(* (misread), which the runs show it can do.                               *)
(***************************************************************************)
EXTENDS Pool, RecursionTheorems, SequenceTheorems

FreeBlock == [begin_ : Nat, end_ : Nat]

Trackers == [free_blocks_ : Seq(FreeBlock), past : Seq(Nat)]

\* The blocks of a pool of N pages are not empty and in order, and no two of
\* them touch each other.
Listed(s, N) ==
  /\ s \in Seq(FreeBlock)
  /\ \A i \in 1 .. Len(s) : s[i].begin_ < s[i].end_ /\ s[i].end_ <= N
  /\ \A i, j \in 1 .. Len(s) : i < j => s[i].end_ < s[j].begin_

Within(q, block) == block.begin_ <= q /\ q < block.end_

\* Page q is in one of the blocks.
Held(s, q) == \E i \in 1 .. Len(s) : Within(q, s[i])

\* Block b can stand behind the blocks before i and before those from k on.
Between(s, i, k, b) ==
  \A j \in 1 .. Len(s) :
    /\ j < i => s[j].end_ < b.begin_
    /\ k <= j => b.end_ < s[j].begin_

Put(s, i, b) == [s EXCEPT ![i] = b]

EndSet(t, i, n) == [t EXCEPT !.free_blocks_[i].end_ = n]

Good(t, N) == t \in Trackers /\ Listed(t.free_blocks_, N)

IsFree(t, q) == Held(t.free_blocks_, q)

-----------------------------------------------------------------------------
(* Lists *)

\* erase of a vector moves the elements behind the place one forward.
LEMMA RemovedAt ==
  ASSUME NEW S, NEW s \in Seq(S), NEW i \in 1 .. Len(s)
  PROVE  /\ RemoveAt(s, i) \in Seq(S) /\ Len(RemoveAt(s, i)) = Len(s) - 1
         /\ \A j \in 1 .. Len(s) - 1 : RemoveAt(s, i)[j] = IF j < i THEN s[j] ELSE s[j + 1]
<1> DEFINE a == SubSeq(s, 1, i - 1)
           b == SubSeq(s, i + 1, Len(s))
<1>1. /\ Len(s) \in Nat /\ i \in Int /\ 1 <= i /\ i - 1 <= Len(s)
      /\ a \in Seq(S) /\ Len(a) = i - 1 /\ \A j \in 1 .. i - 1 : a[j] = s[j]
  OBVIOUS
<1>2. /\ b \in Seq(S) /\ Len(b) = Len(s) - i
      /\ \A j \in 1 .. Len(s) - i : b[j] = s[j + i]
  OBVIOUS
<1>3. RemoveAt(s, i) = a \o b
  BY DEF RemoveAt
<1> HIDE DEF a, b
<1>4. a \o b \in Seq(S) /\ Len(a \o b) = Len(s) - 1
  <2>1. a \in Seq(S) /\ b \in Seq(S)
    BY <1>1, <1>2
  <2>2. a \o b \in Seq(S) /\ Len(a \o b) = Len(a) + Len(b)
    BY <2>1, ConcatProperties
  <2> QED
    BY <1>1, <1>2, <2>2
<1>5. ASSUME NEW j \in 1 .. Len(s) - 1
      PROVE  (a \o b)[j] = IF j < i THEN s[j] ELSE s[j + 1]
  <2>3. j < i \/ j >= i
    BY <1>1
  <2>1. CASE j < i
    BY <1>1, <1>2, <2>1
  <2>2. CASE j >= i
    <3>1. (a \o b)[j] = b[j - (i - 1)] /\ j - (i - 1) \in 1 .. Len(s) - i
      BY <1>1, <1>2, <2>2
    <3> QED
      BY <1>2, <2>2, <3>1
  <2> QED
    BY <2>1, <2>2, <2>3, Zenon
<1> QED
  BY <1>3, <1>4, <1>5

\* insert of a vector puts an element at the place and moves those behind it.
LEMMA InsertedAt ==
  ASSUME NEW S, NEW s \in Seq(S), NEW i \in 1 .. Len(s) + 1, NEW x \in S
  PROVE  /\ InsertAt(s, i, x) \in Seq(S) /\ Len(InsertAt(s, i, x)) = Len(s) + 1
         /\ \A j \in 1 .. Len(s) + 1 :
              InsertAt(s, i, x)[j] = IF j < i THEN s[j] ELSE IF j = i THEN x ELSE s[j - 1]
<1> DEFINE a == SubSeq(s, 1, i - 1)
           b == SubSeq(s, i, Len(s))
<1>1. /\ Len(s) \in Nat /\ i \in Int /\ 1 <= i /\ i - 1 <= Len(s)
      /\ a \in Seq(S) /\ Len(a) = i - 1 /\ \A j \in 1 .. i - 1 : a[j] = s[j]
  OBVIOUS
<1>2. /\ b \in Seq(S) /\ Len(b) = Len(s) - i + 1
      /\ \A j \in 1 .. Len(s) - i + 1 : b[j] = s[j + i - 1]
  OBVIOUS
<1>3. InsertAt(s, i, x) = (a \o <<x>>) \o b
  BY DEF InsertAt
<1> HIDE DEF a, b
<1>4. /\ a \o <<x>> \in Seq(S) /\ Len(a \o <<x>>) = i
      /\ \A j \in 1 .. i : (a \o <<x>>)[j] = IF j < i THEN s[j] ELSE x
  BY <1>1
<1> DEFINE c == a \o <<x>>
<1> HIDE DEF c
<1>5. c \o b \in Seq(S) /\ Len(c \o b) = Len(s) + 1
  <2>1. c \in Seq(S) /\ b \in Seq(S) /\ Len(c) = i
    BY <1>2, <1>4 DEF c
  <2>2. c \o b \in Seq(S) /\ Len(c \o b) = Len(c) + Len(b)
    BY <2>1, ConcatProperties
  <2> QED
    BY <1>1, <1>2, <2>1, <2>2
<1>6. ASSUME NEW j \in 1 .. Len(s) + 1
      PROVE  (c \o b)[j] = IF j < i THEN s[j] ELSE IF j = i THEN x ELSE s[j - 1]
  <2>3. j <= i \/ j > i
    BY <1>1
  <2>1. CASE j <= i
    BY <1>2, <1>4, <2>1 DEF c
  <2>2. CASE j > i
    <3>1. c \in Seq(S) /\ Len(c) = i /\ b \in Seq(S) /\ Len(b) = Len(s) - i + 1
      BY <1>2, <1>4 DEF c
    <3>2. Len(c \o b) = Len(s) + 1 /\ j \in 1 .. Len(c \o b) /\ ~ (j <= Len(c))
      BY <1>1, <1>5, <2>2, <3>1
    <3>3. (c \o b)[j] = b[j - Len(c)]
      BY <3>1, <3>2, ConcatProperties
    <3>4. (c \o b)[j] = b[j - i] /\ j - i \in 1 .. Len(s) - i + 1
      BY <1>1, <2>2, <3>1, <3>3
    <3> QED
      BY <1>2, <2>2, <3>4
  <2> QED
    BY <2>1, <2>2, <2>3, Zenon
<1> QED
  BY <1>3, <1>5, <1>6 DEF c

\* A block of the free list has a begin and an end.
LEMMA BlockFields ==
  ASSUME NEW s \in Seq(FreeBlock), NEW i \in 1 .. Len(s)
  PROVE  s[i] \in FreeBlock /\ s[i].begin_ \in Nat /\ s[i].end_ \in Nat
<1>1. s[i] \in FreeBlock
  OBVIOUS
<1> QED
  BY <1>1 DEF FreeBlock

\* A free list without one of its blocks is a free list, of the pages outside that
\* block.
LEMMA BlocksRemoved ==
  ASSUME NEW N \in Nat, NEW s, Listed(s, N), NEW i \in 1 .. Len(s)
  PROVE  /\ Listed(RemoveAt(s, i), N)
         /\ \A q \in Nat : Held(RemoveAt(s, i), q) <=> Held(s, q) /\ ~ Within(q, s[i])
<1> DEFINE r == RemoveAt(s, i)
<1>1. /\ s \in Seq(FreeBlock) /\ Len(s) \in Nat
      /\ \A j \in 1 .. Len(s) : s[j].begin_ < s[j].end_ /\ s[j].end_ <= N
      /\ \A j, k \in 1 .. Len(s) : j < k => s[j].end_ < s[k].begin_
  BY DEF Listed
<1>2. \A j \in 1 .. Len(s) : s[j].begin_ \in Nat /\ s[j].end_ \in Nat
  BY <1>1, BlockFields
<1>3. /\ r \in Seq(FreeBlock) /\ Len(r) = Len(s) - 1
      /\ \A j \in 1 .. Len(s) - 1 : r[j] = IF j < i THEN s[j] ELSE s[j + 1]
  BY <1>1, RemovedAt
<1> HIDE DEF r
<1> DEFINE from(j) == IF j < i THEN j ELSE j + 1
<1>4. \A j \in 1 .. Len(r) : from(j) \in 1 .. Len(s) /\ r[j] = s[from(j)] /\ from(j) # i
  BY <1>1, <1>3
<1>5. \A j, k \in 1 .. Len(r) : j < k => from(j) < from(k)
  BY <1>1, <1>3
<1>6. \A j \in 1 .. Len(s) : j # i => \E k \in 1 .. Len(r) : from(k) = j
  <2> SUFFICES ASSUME NEW j \in 1 .. Len(s), j # i PROVE \E k \in 1 .. Len(r) : from(k) = j
    OBVIOUS
  <2>1. CASE j < i
    <3>1. j \in 1 .. Len(r) /\ from(j) = j
      BY <1>1, <1>3, <2>1
    <3> QED
      BY <3>1
  <2>2. CASE j > i
    <3>1. j - 1 \in 1 .. Len(r) /\ from(j - 1) = j
      BY <1>1, <1>3, <2>2
    <3> QED
      BY <3>1
  <2> QED
    BY <1>1, <2>1, <2>2
<1> HIDE DEF from
<1>7. Listed(r, N)
  <2>1. \A j \in 1 .. Len(r) : r[j].begin_ < r[j].end_ /\ r[j].end_ <= N
    BY <1>1, <1>4
  <2>2. \A j, k \in 1 .. Len(r) : j < k => r[j].end_ < r[k].begin_
    BY <1>1, <1>4, <1>5
  <2> QED
    BY <1>3, <2>1, <2>2 DEF Listed
<1>8. ASSUME NEW q \in Nat PROVE Held(r, q) <=> Held(s, q) /\ ~ Within(q, s[i])
  <2>1. ASSUME NEW j \in 1 .. Len(r), Within(q, r[j])
        PROVE  Held(s, q) /\ ~ Within(q, s[i])
    <3> DEFINE k == from(j)
    <3>1. k \in 1 .. Len(s) /\ Within(q, s[k]) /\ k # i
      BY <1>4, <2>1
    <3> HIDE DEF k
    <3>2. k < i \/ i < k
      BY <1>1, <3>1
    <3>3. s[k].end_ < s[i].begin_ \/ s[i].end_ < s[k].begin_
      BY <1>1, <3>1, <3>2
    <3>4. ~ Within(q, s[i])
      BY <1>2, <3>1, <3>3 DEF Within
    <3> QED
      BY <3>1, <3>4 DEF Held
  <2>2. ASSUME NEW j \in 1 .. Len(s), Within(q, s[j]), ~ Within(q, s[i])
        PROVE  Held(r, q)
    <3>1. PICK k \in 1 .. Len(r) : from(k) = j
      BY <1>6, <2>2
    <3> QED
      BY <1>4, <2>2, <3>1 DEF Held
  <2> QED
    BY <2>1, <2>2 DEF Held
<1> QED
  BY <1>7, <1>8 DEF r

\* A block of the free list that is replaced by one between its neighbours leaves a
\* free list, of the pages of the new block and the other ones.
LEMMA BlockReplaced ==
  ASSUME NEW N \in Nat, NEW s, Listed(s, N), NEW i \in 1 .. Len(s),
         NEW M \in Nat, N <= M, NEW b \in FreeBlock, b.begin_ < b.end_, b.end_ <= M,
         Between(s, i, i + 1, b)
  PROVE  /\ Listed(Put(s, i, b), M)
         /\ \A q \in Nat : Held(Put(s, i, b), q) <=>
                            (Held(s, q) /\ ~ Within(q, s[i])) \/ Within(q, b)
<1> DEFINE r == Put(s, i, b)
<1>1. /\ s \in Seq(FreeBlock) /\ Len(s) \in Nat
      /\ \A j \in 1 .. Len(s) : s[j].begin_ < s[j].end_ /\ s[j].end_ <= N
      /\ \A j, k \in 1 .. Len(s) : j < k => s[j].end_ < s[k].begin_
  BY DEF Listed
<1>2. \A j \in 1 .. Len(s) : s[j].begin_ \in Nat /\ s[j].end_ \in Nat
  BY <1>1, BlockFields
<1>3. /\ r \in Seq(FreeBlock) /\ Len(r) = Len(s) /\ r[i] = b
      /\ \A j \in 1 .. Len(s) : j # i => r[j] = s[j]
  BY <1>1 DEF Put
<1> HIDE DEF r
<1>4. Listed(r, M)
  <2>1. ASSUME NEW j \in 1 .. Len(r) PROVE r[j].begin_ < r[j].end_ /\ r[j].end_ <= M
    <3>1. CASE j = i
      BY <1>3, <3>1
    <3>2. CASE j # i
      BY <1>1, <1>2, <1>3, <3>2
    <3> QED
      BY <3>1, <3>2
  <2>2. ASSUME NEW j \in 1 .. Len(r), NEW k \in 1 .. Len(r), j < k
        PROVE  r[j].end_ < r[k].begin_
    <3>1. CASE j = i
      <4>1. k # i /\ i + 1 <= k /\ r[k] = s[k] /\ r[j] = b /\ k \in 1 .. Len(s)
        BY <1>1, <1>3, <2>2, <3>1
      <4> QED
        BY <4>1 DEF Between
    <3>2. CASE k = i
      <4>1. j # i /\ j < i /\ r[j] = s[j] /\ r[k] = b /\ j \in 1 .. Len(s)
        BY <1>1, <1>3, <2>2, <3>2
      <4> QED
        BY <4>1 DEF Between
    <3>3. CASE j # i /\ k # i
      BY <1>1, <1>3, <2>2, <3>3
    <3> QED
      BY <3>1, <3>2, <3>3
  <2> QED
    BY <1>3, <2>1, <2>2 DEF Listed
<1>5. ASSUME NEW q \in Nat
      PROVE  Held(r, q) <=> (Held(s, q) /\ ~ Within(q, s[i])) \/ Within(q, b)
  <2>1. ASSUME NEW j \in 1 .. Len(s), Within(q, r[j])
        PROVE  (Held(s, q) /\ ~ Within(q, s[i])) \/ Within(q, b)
    <3>1. CASE j = i
      BY <1>3, <2>1, <3>1
    <3>2. CASE j # i
      <4>1. Within(q, s[j]) /\ (j < i \/ i < j)
        BY <1>1, <1>3, <2>1, <3>2
      <4>2. s[j].end_ < s[i].begin_ \/ s[i].end_ < s[j].begin_
        BY <1>1, <4>1
      <4>3. ~ Within(q, s[i])
        BY <1>2, <4>1, <4>2 DEF Within
      <4> QED
        BY <4>1, <4>3 DEF Held
    <3> QED
      BY <3>1, <3>2
  <2>2. ASSUME NEW j \in 1 .. Len(s), Within(q, s[j]), ~ Within(q, s[i]) PROVE Held(r, q)
    <3>1. j # i
      BY <2>2
    <3> QED
      BY <1>3, <2>2, <3>1 DEF Held
  <2>3. Within(q, b) => Held(r, q)
    BY <1>3 DEF Held
  <2> QED
    BY <1>3, <2>1, <2>2, <2>3 DEF Held
<1> QED
  BY <1>4, <1>5 DEF r

\* A block that is inserted between its neighbours adds its pages.
LEMMA BlockInserted ==
  ASSUME NEW N \in Nat, NEW s, Listed(s, N), NEW i \in 1 .. Len(s) + 1,
         NEW M \in Nat, N <= M, NEW b \in FreeBlock, b.begin_ < b.end_, b.end_ <= M,
         Between(s, i, i, b)
  PROVE  /\ Listed(InsertAt(s, i, b), M)
         /\ InsertAt(s, i, b)[i] = b /\ Len(InsertAt(s, i, b)) = Len(s) + 1
         /\ \A q \in Nat : Held(InsertAt(s, i, b), q) <=> Held(s, q) \/ Within(q, b)
<1> DEFINE r == InsertAt(s, i, b)
<1>1. /\ s \in Seq(FreeBlock) /\ Len(s) \in Nat
      /\ \A j \in 1 .. Len(s) : s[j].begin_ < s[j].end_ /\ s[j].end_ <= N
      /\ \A j, k \in 1 .. Len(s) : j < k => s[j].end_ < s[k].begin_
  BY DEF Listed
<1>2. \A j \in 1 .. Len(s) : s[j].begin_ \in Nat /\ s[j].end_ \in Nat
  BY <1>1, BlockFields
<1>3. /\ r \in Seq(FreeBlock) /\ Len(r) = Len(s) + 1
      /\ \A j \in 1 .. Len(s) + 1 : r[j] = IF j < i THEN s[j] ELSE IF j = i THEN b ELSE s[j - 1]
  BY <1>1, InsertedAt
<1> HIDE DEF r
<1> DEFINE from(j) == IF j < i THEN j ELSE j - 1
<1>4. r[i] = b /\ i \in 1 .. Len(r)
  BY <1>1, <1>3
<1>5. \A j \in 1 .. Len(r) : j # i => /\ from(j) \in 1 .. Len(s) /\ r[j] = s[from(j)]
                                      /\ j < i => from(j) < i
                                      /\ i < j => i <= from(j)
  BY <1>1, <1>3
<1>6. \A j, k \in 1 .. Len(r) : j < k /\ j # i /\ k # i => from(j) < from(k)
  BY <1>1, <1>3
<1>7. \A j \in 1 .. Len(s) : \E k \in 1 .. Len(r) : k # i /\ from(k) = j
  <2> SUFFICES ASSUME NEW j \in 1 .. Len(s) PROVE \E k \in 1 .. Len(r) : k # i /\ from(k) = j
    OBVIOUS
  <2>1. CASE j < i
    BY <1>1, <1>3, <2>1
  <2>2. CASE j >= i
    <3>1. j + 1 \in 1 .. Len(r) /\ from(j + 1) = j /\ j + 1 # i
      BY <1>1, <1>3, <2>2
    <3> QED
      BY <3>1
  <2> QED
    BY <1>1, <2>1, <2>2
<1> HIDE DEF from
<1>8. Listed(r, M)
  <2>1. ASSUME NEW j \in 1 .. Len(r) PROVE r[j].begin_ < r[j].end_ /\ r[j].end_ <= M
    <3>1. CASE j = i
      BY <1>4, <3>1
    <3>2. CASE j # i
      <4>1. from(j) \in 1 .. Len(s) /\ r[j] = s[from(j)]
        BY <1>5, <3>2
      <4>2. s[from(j)].begin_ < s[from(j)].end_ /\ s[from(j)].end_ <= N
        BY <1>1, <4>1
      <4>3. s[from(j)].end_ \in Nat
        BY <1>2, <4>1
      <4> QED
        BY <4>1, <4>2, <4>3
    <3> QED
      BY <3>1, <3>2
  <2>2. ASSUME NEW j \in 1 .. Len(r), NEW k \in 1 .. Len(r), j < k
        PROVE  r[j].end_ < r[k].begin_
    <3>1. CASE j = i
      <4>1. k # i /\ i < k
        BY <1>1, <1>3, <2>2, <3>1
      <4>2. from(k) \in 1 .. Len(s) /\ i <= from(k) /\ r[k] = s[from(k)]
        BY <1>5, <4>1
      <4> QED
        BY <1>4, <3>1, <4>2 DEF Between
    <3>2. CASE k = i
      <4>1. j # i /\ j < i
        BY <1>1, <1>3, <2>2, <3>2
      <4>2. from(j) \in 1 .. Len(s) /\ from(j) < i /\ r[j] = s[from(j)]
        BY <1>5, <4>1
      <4>3. s[from(j)].end_ < b.begin_
        BY <4>2 DEF Between
      <4>4. r[k] = b
        BY <1>4, <3>2
      <4> QED
        BY <4>2, <4>3, <4>4, Zenon
    <3>3. CASE j # i /\ k # i
      BY <1>1, <1>5, <1>6, <2>2, <3>3
    <3> QED
      BY <3>1, <3>2, <3>3
  <2> QED
    BY <1>3, <2>1, <2>2 DEF Listed
<1>9. ASSUME NEW q \in Nat PROVE Held(r, q) <=> Held(s, q) \/ Within(q, b)
  <2>1. ASSUME NEW j \in 1 .. Len(r), Within(q, r[j]) PROVE Held(s, q) \/ Within(q, b)
    BY <1>4, <1>5, <2>1 DEF Held
  <2>2. ASSUME NEW j \in 1 .. Len(s), Within(q, s[j]) PROVE Held(r, q)
    <3>1. PICK k \in 1 .. Len(r) : k # i /\ from(k) = j
      BY <1>7
    <3> QED
      BY <1>5, <2>2, <3>1 DEF Held
  <2>3. Within(q, b) => Held(r, q)
    BY <1>4 DEF Held
  <2> QED
    BY <2>1, <2>2, <2>3 DEF Held
<1> QED
  BY <1>3, <1>4, <1>8, <1>9 DEF r

-----------------------------------------------------------------------------
(* FreeBlocksTracker *)

\* The size of a block does not wrap around.
LEMMA SizeOfBlock ==
  ASSUME NEW b \in FreeBlock, b.begin_ <= b.end_, b.end_ <= DiskPages
  PROVE  Size(b) = b.end_ - b.begin_
<1>1. b.begin_ \in Nat /\ b.end_ \in Nat /\ DiskPages \in Nat /\ DiskPages < 2^SizeWidth
  BY PoolAssumption DEF FreeBlock
<1> QED
  BY <1>1 DEF Size, SizeWidth

\* Erasing a block erases it from the list of the tracker.
LEMMA ErasedBlocks ==
  ASSUME NEW t \in Trackers, NEW i \in 1 .. Len(t.free_blocks_)
  PROVE  /\ Erased(t, i) \in Trackers
         /\ Erased(t, i).free_blocks_ = RemoveAt(t.free_blocks_, i)
<1>1. t.free_blocks_ \in Seq(FreeBlock) /\ t.past \in Seq(Nat)
  BY DEF Trackers
<1>2. RemoveAt(t.free_blocks_, i) \in Seq(FreeBlock)
  BY <1>1, RemovedAt
<1>3. Last(t.free_blocks_).begin_ \in Nat
  <2>1. Len(t.free_blocks_) \in 1 .. Len(t.free_blocks_)
    BY <1>1
  <2> QED
    BY <1>1, <2>1, BlockFields DEF Last
<1>4. <<Last(t.free_blocks_).begin_>> \o t.past \in Seq(Nat)
  BY <1>1, <1>3
<1> QED
  BY <1>2, <1>4 DEF Erased, Trackers

\* Inserting a block inserts it into the list of the tracker.
LEMMA InsertedBlocks ==
  ASSUME NEW t \in Trackers, NEW i \in 1 .. Len(t.free_blocks_) + 1, NEW b \in FreeBlock
  PROVE  /\ Inserted(t, i, b) \in Trackers
         /\ Inserted(t, i, b).free_blocks_ = InsertAt(t.free_blocks_, i, b)
<1>1. t.free_blocks_ \in Seq(FreeBlock) /\ t.past \in Seq(Nat)
  BY DEF Trackers
<1>2. InsertAt(t.free_blocks_, i, b) \in Seq(FreeBlock)
  BY <1>1, InsertedAt
<1>3. (IF t.past = <<>> THEN <<>> ELSE Tail(t.past)) \in Seq(Nat)
  BY <1>1
<1> QED
  BY <1>2, <1>3 DEF Inserted, Trackers

\* A change of the begin or the end of block i puts another block in its place.
LEMMA ChangedBlocks ==
  ASSUME NEW t \in Trackers, NEW i \in 1 .. Len(t.free_blocks_), NEW n \in Nat
  PROVE  LET s == t.free_blocks_
             front == SetBegin(t, i, n)
             back == EndSet(t, i, n)
         IN  /\ front \in Trackers /\ back \in Trackers
             /\ front.free_blocks_ = Put(s, i, Block(n, s[i].end_))
             /\ back.free_blocks_ = Put(s, i, Block(s[i].begin_, n))
             /\ Block(n, s[i].end_) \in FreeBlock /\ Block(s[i].begin_, n) \in FreeBlock
<1> DEFINE s == t.free_blocks_
           b == s[i]
           f == Block(n, b.end_)
           g == Block(b.begin_, n)
<1>1. s \in Seq(FreeBlock) /\ t.past \in Seq(Nat)
  BY DEF Trackers
<1>2. b \in FreeBlock /\ b.begin_ \in Nat /\ b.end_ \in Nat
  BY <1>1, BlockFields
<1>3. [b EXCEPT !.begin_ = n] = f /\ [b EXCEPT !.end_ = n] = g
  BY <1>2 DEF Block, FreeBlock
<1>4. /\ [s EXCEPT ![i].begin_ = n] = [s EXCEPT ![i] = f]
      /\ [s EXCEPT ![i].end_ = n] = [s EXCEPT ![i] = g]
  BY <1>3
<1>5. f \in FreeBlock /\ g \in FreeBlock
  BY <1>2 DEF Block, FreeBlock
<1> HIDE DEF f, g
<1>6. [s EXCEPT ![i] = f] \in Seq(FreeBlock) /\ [s EXCEPT ![i] = g] \in Seq(FreeBlock)
  BY <1>1, <1>5
<1>7. SetBegin(t, i, n) = [t EXCEPT !.free_blocks_ = [s EXCEPT ![i].begin_ = n]]
  BY DEF SetBegin
<1>8. EndSet(t, i, n) = [t EXCEPT !.free_blocks_ = [s EXCEPT ![i].end_ = n]]
  BY DEF EndSet
<1>9. ASSUME NEW r \in Seq(FreeBlock)
      PROVE  /\ [t EXCEPT !.free_blocks_ = r] \in Trackers
             /\ [t EXCEPT !.free_blocks_ = r].free_blocks_ = r
  BY <1>1 DEF Trackers
<1>10. /\ SetBegin(t, i, n) \in Trackers
       /\ SetBegin(t, i, n).free_blocks_ = [s EXCEPT ![i] = f]
  BY <1>4, <1>6, <1>7, <1>9
<1>11. /\ EndSet(t, i, n) \in Trackers
       /\ EndSet(t, i, n).free_blocks_ = [s EXCEPT ![i] = g]
  BY <1>4, <1>6, <1>8, <1>9
<1> QED
  BY <1>5, <1>10, <1>11 DEF f, g, Put

\* find_free_block finds a block with enough pages, or there is none.
LEMMA FreeBlockFound ==
  ASSUME NEW t, NEW N \in Nat, Good(t, N), N <= DiskPages, NEW n
  PROVE  LET i == find_free_block(t, n)
             s == t.free_blocks_
         IN  \/ /\ i \in 1 .. Len(s) /\ s[i].end_ - s[i].begin_ >= n
             \/ /\ i = 0
                /\ \A j \in 1 .. Len(s) : ~ (s[j].end_ - s[j].begin_ >= n)
<1> DEFINE s == t.free_blocks_
           I == {i \in 1 .. Len(s) : Size(s[i]) >= n}
<1>1. find_free_block(t, n) = IF I # {} THEN Min(I) ELSE 0
  BY DEF find_free_block, First, SelectInSeq
<1>2. ASSUME NEW i \in 1 .. Len(s) PROVE Size(s[i]) = s[i].end_ - s[i].begin_
  <2>1. s \in Seq(FreeBlock) /\ s[i].begin_ < s[i].end_ /\ s[i].end_ <= N
    BY DEF Good, Listed
  <2>2. s[i] \in FreeBlock /\ s[i].begin_ \in Nat /\ s[i].end_ \in Nat
    BY <2>1, BlockFields
  <2> QED
    BY <2>1, <2>2, SizeOfBlock, PoolAssumption
<1>3. CASE I = {}
  BY <1>1, <1>2, <1>3
<1>4. CASE I # {}
  <2>1. I \subseteq Nat
    OBVIOUS
  <2>2. Min(I) \in I
    BY <1>4, <2>1, LeastNumber DEF Min
  <2> QED
    BY <1>1, <1>2, <1>4, <2>2
<1> QED
  BY <1>3, <1>4

\* Taking pages off the front of a block frees or occupies no other page.
LEMMA FrontIsTaken ==
  ASSUME NEW t, NEW N \in Nat, Good(t, N), N <= DiskPages,
         NEW i \in 1 .. Len(t.free_blocks_), NEW n \in Nat, 0 < n,
         n <= t.free_blocks_[i].end_ - t.free_blocks_[i].begin_
  PROVE  LET b == t.free_blocks_[i].begin_
         IN  /\ Good(TakeFront(t, i, n), N)
             /\ \A q \in Nat : IsFree(TakeFront(t, i, n), q) <=>
                                 IsFree(t, q) /\ ~ (b <= q /\ q < b + n)
<1> DEFINE s == t.free_blocks_
           b == s[i].begin_
           e == s[i].end_
<1>1. /\ t \in Trackers /\ s \in Seq(FreeBlock) /\ Listed(s, N) /\ i \in 1 .. Len(s)
      /\ s[i].begin_ < s[i].end_ /\ s[i].end_ <= N
      /\ \A j \in 1 .. Len(s) : /\ j < i => s[j].end_ < s[i].begin_
                                /\ i < j => s[i].end_ < s[j].begin_
  BY DEF Good, Listed
<1>2. /\ s[i] \in FreeBlock
      /\ \A j \in 1 .. Len(s) : s[j].begin_ \in Nat /\ s[j].end_ \in Nat
  BY <1>1, BlockFields
<1>3. Size(s[i]) = e - b
  BY <1>1, <1>2, SizeOfBlock, PoolAssumption
<1>4. CASE e - b = n
  <2>1. TakeFront(t, i, n) = Erased(t, i)
    BY <1>3, <1>4 DEF TakeFront
  <2>2. ASSUME NEW q \in Nat PROVE Within(q, s[i]) <=> b <= q /\ q < b + n
    <3>1. e = b + n
      BY <1>1, <1>2, <1>4
    <3> QED
      BY <3>1 DEF Within
  <2> QED
    BY <1>1, <2>1, <2>2, ErasedBlocks, BlocksRemoved DEF Good, IsFree
<1>5. CASE e - b # n
  <2> DEFINE c == Block(b + n, e)
  <2>1. TakeFront(t, i, n) = SetBegin(t, i, b + n)
    BY <1>3, <1>5 DEF TakeFront
  <2>2. b + n \in Nat
    BY <1>2
  <2>3. /\ SetBegin(t, i, b + n) \in Trackers /\ c \in FreeBlock
        /\ SetBegin(t, i, b + n).free_blocks_ = Put(s, i, c)
    BY <1>1, <2>2, ChangedBlocks
  <2>4. c.begin_ = b + n /\ c.end_ = e
    BY DEF Block
  <2> HIDE DEF c
  <2>5. c.begin_ < c.end_ /\ c.end_ <= N /\ Between(s, i, i + 1, c)
    <3>1. c.begin_ < c.end_ /\ c.end_ <= N
      <4>1. b \in Nat /\ e \in Nat /\ n <= e - b /\ e - b # n /\ e <= N
        BY <1>1, <1>2, <1>5
      <4> HIDE DEF b, e
      <4> QED
        BY <2>4, <4>1
    <3>2. ASSUME NEW j \in 1 .. Len(s)
          PROVE  /\ j < i => s[j].end_ < c.begin_
                 /\ i + 1 <= j => c.end_ < s[j].begin_
      <4>1. j < i => s[j].end_ < s[i].begin_
        BY <1>1
      <4>2. i + 1 <= j => s[i].end_ < s[j].begin_
        BY <1>1
      <4>3. s[j].end_ \in Nat /\ s[i].begin_ \in Nat
        BY <1>1, <1>2
      <4> DEFINE x == s[j].end_
                 y == s[i].begin_
      <4>4. x \in Nat /\ y \in Nat /\ (j < i => x < y) /\ c.begin_ = y + n
        BY <2>4, <4>1, <4>3
      <4> HIDE DEF x, y
      <4>5. j < i => x < c.begin_
        BY <4>4
      <4>6. i + 1 <= j => c.end_ < s[j].begin_
        BY <2>4, <4>2
      <4> QED
        BY <4>5, <4>6 DEF x
    <3> QED
      BY <3>1, <3>2 DEF Between
  <2>6. /\ Listed(Put(s, i, c), N)
        /\ \A q \in Nat : Held(Put(s, i, c), q) <=>
                           (Held(s, q) /\ ~ Within(q, s[i])) \/ Within(q, c)
    BY <1>1, <2>3, <2>5, BlockReplaced
  <2>7. ASSUME NEW q \in Nat
        PROVE  (Held(s, q) /\ ~ Within(q, s[i])) \/ Within(q, c) <=>
                 Held(s, q) /\ ~ (b <= q /\ q < b + n)
    <3>1. Within(q, s[i]) => Held(s, q)
      BY <1>1 DEF Held
    <3>2. Within(q, c) <=> Within(q, s[i]) /\ ~ (b <= q /\ q < b + n)
      BY <1>1, <1>2, <1>5, <2>4 DEF Within
    <3>3. b <= q /\ q < b + n => Within(q, s[i])
      BY <1>1, <1>2, <1>5 DEF Within
    <3> QED
      BY <3>1, <3>2, <3>3
  <2> QED
    BY <2>1, <2>3, <2>6, <2>7 DEF Good, IsFree
<1> QED
  BY <1>4, <1>5

\* increase_pool_size adds exactly the new pages, at the end of one block.
LEMMA PoolGrows ==
  ASSUME NEW t, NEW N \in Nat, Good(t, N), NEW M \in Nat, N < M
  PROVE  LET u == increase_pool_size(t, N, M)
         IN  /\ Good(u, M)
             /\ \A q \in Nat : IsFree(u, q) <=> IsFree(t, q) \/ (N <= q /\ q < M)
             /\ \E i \in 1 .. Len(u.free_blocks_) :
                  u.free_blocks_[i].begin_ <= N /\ u.free_blocks_[i].end_ = M
<1> DEFINE s == t.free_blocks_
           n == Len(s)
           u == increase_pool_size(t, N, M)
<1>1. /\ t \in Trackers /\ s \in Seq(FreeBlock) /\ Listed(s, N) /\ n \in Nat
      /\ \A j \in 1 .. Len(s) : s[j].begin_ < s[j].end_ /\ s[j].end_ <= N
      /\ \A j, k \in 1 .. Len(s) : j < k => s[j].end_ < s[k].begin_
  BY DEF Good, Listed
<1>2. \A j \in 1 .. Len(s) : s[j].begin_ \in Nat /\ s[j].end_ \in Nat
  BY <1>1, BlockFields
<1>3. Last(s) = s[n]
  BY DEF Last
<1>4. CASE n # 0 /\ s[n].end_ = N
  <2> DEFINE c == Block(s[n].begin_, M)
  <2>1. n \in 1 .. Len(s) /\ u = EndSet(t, n, M)
    BY <1>1, <1>3, <1>4 DEF increase_pool_size, EndSet
  <2>2. u \in Trackers /\ u.free_blocks_ = Put(s, n, c) /\ c \in FreeBlock
    BY <1>1, <2>1, ChangedBlocks
  <2>3. c.begin_ = s[n].begin_ /\ c.end_ = M
    BY DEF Block
  <2> HIDE DEF c
  <2>4. c.begin_ < c.end_ /\ c.end_ <= M /\ Between(s, n, n + 1, c)
    <3>1. c.begin_ < c.end_ /\ c.end_ <= M
      BY <1>1, <1>2, <1>4, <2>1, <2>3
    <3>2. ASSUME NEW j \in 1 .. Len(s)
          PROVE  (j < n => s[j].end_ < c.begin_) /\ ~ (n + 1 <= j)
      BY <1>1, <1>2, <2>1, <2>3
    <3> QED
      BY <3>1, <3>2 DEF Between
  <2>5. /\ Listed(Put(s, n, c), M)
        /\ \A q \in Nat : Held(Put(s, n, c), q) <=>
                           (Held(s, q) /\ ~ Within(q, s[n])) \/ Within(q, c)
    BY <1>1, <2>1, <2>2, <2>4, BlockReplaced
  <2>6. ASSUME NEW q \in Nat
        PROVE  (Held(s, q) /\ ~ Within(q, s[n])) \/ Within(q, c) <=>
                 Held(s, q) \/ (N <= q /\ q < M)
    <3>1. Within(q, s[n]) => Held(s, q)
      BY <2>1 DEF Held
    <3>2. Within(q, c) <=> Within(q, s[n]) \/ (N <= q /\ q < M)
      BY <1>1, <1>2, <1>4, <2>1, <2>3 DEF Within
    <3> QED
      BY <3>1, <3>2
  <2>7. Len(Put(s, n, c)) = n /\ Put(s, n, c)[n] = c
    BY <1>1, <2>1 DEF Put
  <2>8. c.begin_ <= N
    BY <1>1, <1>2, <2>1, <2>3
  <2> QED
    BY <2>1, <2>2, <2>3, <2>5, <2>6, <2>7, <2>8 DEF Good, IsFree
<1>5. CASE ~ (n # 0 /\ s[n].end_ = N)
  <2> DEFINE c == Block(N, M)
  <2>1. n + 1 \in 1 .. Len(s) + 1 /\ u = Inserted(t, n + 1, c)
    BY <1>1, <1>3, <1>5 DEF increase_pool_size
  <2>2. c \in FreeBlock /\ c.begin_ = N /\ c.end_ = M
    BY DEF Block, FreeBlock
  <2> HIDE DEF c
  <2>3. u \in Trackers /\ u.free_blocks_ = InsertAt(s, n + 1, c)
    BY <1>1, <2>1, <2>2, InsertedBlocks
  <2>4. ASSUME NEW j \in 1 .. Len(s) PROVE s[j].end_ < N /\ ~ (n + 1 <= j)
    <3>1. CASE j = n
      BY <1>1, <1>2, <1>5, <3>1
    <3>2. CASE j # n
      <4>1. j < n /\ n \in 1 .. Len(s)
        BY <1>1, <3>2
      <4>2. s[j].end_ < s[n].begin_ /\ s[n].begin_ < s[n].end_ /\ s[n].end_ <= N
        BY <1>1, <4>1
      <4> QED
        BY <1>1, <1>2, <4>1, <4>2
    <3> QED
      BY <3>1, <3>2
  <2>7. Between(s, n + 1, n + 1, c) /\ c.begin_ < c.end_ /\ c.end_ <= M
    BY <1>2, <2>2, <2>4 DEF Between
  <2>5. /\ Listed(InsertAt(s, n + 1, c), M)
        /\ InsertAt(s, n + 1, c)[n + 1] = c /\ Len(InsertAt(s, n + 1, c)) = n + 1
        /\ \A q \in Nat : Held(InsertAt(s, n + 1, c), q) <=> Held(s, q) \/ Within(q, c)
    BY <1>1, <2>1, <2>2, <2>7, BlockInserted
  <2>6. \A q \in Nat : Within(q, c) <=> N <= q /\ q < M
    BY <2>2 DEF Within
  <2> QED
    BY <1>1, <2>2, <2>3, <2>5, <2>6 DEF Good, IsFree
<1> QED
  BY <1>4, <1>5

\* The blocks of a pool do not overlap pages that are not free.
LEMMA BlockAside ==
  ASSUME NEW s, NEW N \in Nat, Listed(s, N), NEW j \in 1 .. Len(s),
         NEW b \in Nat, NEW e \in Nat, b < e,
         \A q \in Nat : b <= q /\ q < e => ~ Held(s, q)
  PROVE  s[j].end_ <= b \/ e <= s[j].begin_
<1>1. s \in Seq(FreeBlock) /\ s[j].begin_ < s[j].end_
  BY DEF Listed
<1>2. s[j].begin_ \in Nat /\ s[j].end_ \in Nat
  BY <1>1, BlockFields
<1>3. \A q \in Nat : b <= q /\ q < e => ~ Within(q, s[j])
  BY DEF Held
<1>4. CASE s[j].begin_ <= b
  <2>1. ~ Within(b, s[j])
    BY <1>3
  <2> QED
    BY <1>2, <1>4, <2>1 DEF Within
<1>5. CASE b < s[j].begin_
  <2>1. s[j].begin_ < e => ~ Within(s[j].begin_, s[j])
    BY <1>2, <1>3, <1>5
  <2> QED
    BY <1>1, <1>2, <1>5, <2>1 DEF Within
<1> QED
  BY <1>2, <1>4, <1>5

\* free_block looks at the first block that touches or follows the one that is
\* freed.
LEMMA RelevantFound ==
  ASSUME NEW t \in Trackers, NEW b, NEW e
  PROVE  LET i == Relevant(t, b, e)
             s == t.free_blocks_
         IN  \/ /\ i \in 1 .. Len(s) /\ (s[i].end_ = b \/ s[i].begin_ >= e)
                /\ \A j \in 1 .. Len(s) : j < i => ~ (s[j].end_ = b \/ s[j].begin_ >= e)
             \/ /\ i = 0
                /\ \A j \in 1 .. Len(s) : ~ (s[j].end_ = b \/ s[j].begin_ >= e)
<1> DEFINE s == t.free_blocks_
           I == {i \in 1 .. Len(s) : s[i].end_ = b \/ s[i].begin_ >= e}
<1>1. Relevant(t, b, e) = IF I # {} THEN Min(I) ELSE 0
  BY DEF Relevant, First, SelectInSeq
<1>2. CASE I = {}
  BY <1>1, <1>2
<1>3. CASE I # {}
  <2>1. I \subseteq Nat
    OBVIOUS
  <2>2. Min(I) \in I /\ \A j \in I : Min(I) <= j
    BY <1>3, <2>1, LeastNumber DEF Min
  <2>3. \A j \in 1 .. Len(s) : j < Min(I) => j \notin I
    BY <2>1, <2>2
  <2> QED
    BY <1>1, <1>3, <2>2, <2>3
<1> QED
  BY <1>2, <1>3

\* A block that is given back is free afterwards, and no other page is.
LEMMA BlockFreed ==
  ASSUME NEW t, NEW N \in Nat, Good(t, N), NEW b \in Nat, NEW e \in Nat, b < e, e <= N,
         \A q \in Nat : b <= q /\ q < e => ~ IsFree(t, q),
         NEW junk, ~ Misreads(t, b, e, junk)
  PROVE  /\ Good(free_block(t, b, e, junk), N)
         /\ \A q \in Nat : IsFree(free_block(t, b, e, junk), q) <=>
                             IsFree(t, q) \/ (b <= q /\ q < e)
<1> DEFINE s == t.free_blocks_
           i == Relevant(t, b, e)
           u == free_block(t, b, e, junk)
           new == Block(b, e)
<1>1. /\ t \in Trackers /\ s \in Seq(FreeBlock) /\ Listed(s, N) /\ Len(s) \in Nat
      /\ \A j \in 1 .. Len(s) : s[j].begin_ < s[j].end_ /\ s[j].end_ <= N
      /\ \A j, k \in 1 .. Len(s) : j < k => s[j].end_ < s[k].begin_
  BY DEF Good, Listed
<1>2. \A j \in 1 .. Len(s) : s[j].begin_ \in Nat /\ s[j].end_ \in Nat
  BY <1>1, BlockFields
<1>3. \A j \in 1 .. Len(s) : s[j].end_ <= b \/ e <= s[j].begin_
  BY <1>1, BlockAside DEF IsFree
<1>4. new \in FreeBlock /\ new.begin_ = b /\ new.end_ = e
  BY DEF Block, FreeBlock
<1>5. \A q \in Nat : Within(q, new) <=> b <= q /\ q < e
  BY <1>4 DEF Within
<1>6. \/ /\ i \in 1 .. Len(s) /\ (s[i].end_ = b \/ s[i].begin_ >= e)
         /\ \A j \in 1 .. Len(s) : j < i => ~ (s[j].end_ = b \/ s[j].begin_ >= e)
      \/ /\ i = 0
         /\ \A j \in 1 .. Len(s) : ~ (s[j].end_ = b \/ s[j].begin_ >= e)
  BY <1>1, RelevantFound
<1>7. u = IF i = 0 THEN Inserted(t, Len(s) + 1, new)
          ELSE IF ClosesGap(t, i, b, e, junk) THEN Erased(SetBegin(t, i + 1, s[i].begin_), i)
          ELSE IF s[i].end_ = b THEN EndSet(t, i, e)
          ELSE IF s[i].begin_ = e THEN [t EXCEPT !.free_blocks_[i].begin_ = b]
          ELSE Inserted(t, i, new)
  BY DEF free_block, EndSet
<1>8. ~ (i # 0 /\ i = Len(s) /\ ClosesGap(t, i, b, e, junk))
  BY DEF Misreads
<1> HIDE DEF new, u, i
<1>9. ASSUME NEW k \in 1 .. Len(s) + 1, Between(s, k, k, new), u = Inserted(t, k, new)
      PROVE  /\ Good(u, N)
             /\ \A q \in Nat : IsFree(u, q) <=> IsFree(t, q) \/ (b <= q /\ q < e)
  <2>1. u \in Trackers /\ u.free_blocks_ = InsertAt(s, k, new)
    BY <1>1, <1>4, <1>9, InsertedBlocks
  <2>2. /\ Listed(InsertAt(s, k, new), N)
        /\ \A q \in Nat : Held(InsertAt(s, k, new), q) <=> Held(s, q) \/ Within(q, new)
    BY <1>1, <1>4, <1>9, BlockInserted
  <2> QED
    BY <1>5, <2>1, <2>2 DEF Good, IsFree
<1>10. CASE i = 0
  <2>1. u = Inserted(t, Len(s) + 1, new)
    BY <1>7, <1>10
  <2>2. ASSUME NEW j \in 1 .. Len(s)
        PROVE  s[j].end_ < b /\ ~ (Len(s) + 1 <= j)
    <3>1. s[j].end_ # b /\ ~ (s[j].begin_ >= e)
      BY <1>6, <1>10
    <3> QED
      BY <1>1, <1>2, <1>3, <3>1
  <2>3. Between(s, Len(s) + 1, Len(s) + 1, new)
    BY <1>4, <2>2 DEF Between
  <2>4. Len(s) + 1 \in 1 .. Len(s) + 1
    BY <1>1
  <2> QED
    BY <1>9, <2>1, <2>3, <2>4 DEF u
<1>11. CASE i # 0
  <2>1. /\ i \in 1 .. Len(s) /\ i \in Nat /\ (s[i].end_ = b \/ s[i].begin_ >= e)
        /\ \A j \in 1 .. Len(s) : j < i => ~ (s[j].end_ = b \/ s[j].begin_ >= e)
    BY <1>1, <1>6, <1>11
  <2>2. \A j \in 1 .. Len(s) : j < i => s[j].end_ < b
    BY <1>2, <1>3, <2>1
  <2>3. /\ s[i].begin_ < s[i].end_ /\ s[i].end_ <= N
        /\ s[i].begin_ \in Nat /\ s[i].end_ \in Nat
        /\ \A j \in 1 .. Len(s) : /\ j < i => s[j].end_ < s[i].begin_
                                  /\ i < j => s[i].end_ < s[j].begin_
    BY <1>1, <1>2, <2>1
  \* Block i becomes block c, which has the freed pages, too.
  <2>4. ASSUME NEW c \in FreeBlock, u \in Trackers, u.free_blocks_ = Put(s, i, c),
               c.begin_ < c.end_, c.end_ <= N, Between(s, i, i + 1, c),
               \A q \in Nat : Within(q, c) <=> Within(q, s[i]) \/ (b <= q /\ q < e)
        PROVE  /\ Good(u, N)
               /\ \A q \in Nat : IsFree(u, q) <=> IsFree(t, q) \/ (b <= q /\ q < e)
    <3>1. /\ Listed(Put(s, i, c), N)
          /\ \A q \in Nat : Held(Put(s, i, c), q) <=>
                             (Held(s, q) /\ ~ Within(q, s[i])) \/ Within(q, c)
      BY <1>1, <2>1, <2>4, BlockReplaced
    <3>2. ASSUME NEW q \in Nat PROVE Within(q, s[i]) => Held(s, q)
      BY <2>1 DEF Held
    <3>3. ASSUME NEW q \in Nat
          PROVE  IsFree(u, q) <=> IsFree(t, q) \/ (b <= q /\ q < e)
      BY <2>4, <3>1, <3>2 DEF IsFree
    <3> QED
      BY <2>4, <3>1, <3>3 DEF Good
  <2>5. CASE ~ ClosesGap(t, i, b, e, junk) /\ s[i].end_ = b
    <3> DEFINE c == Block(s[i].begin_, e)
    <3>1. u = EndSet(t, i, e)
      BY <1>7, <1>11, <2>5
    <3>2. u \in Trackers /\ u.free_blocks_ = Put(s, i, c) /\ c \in FreeBlock
      BY <1>1, <2>1, <3>1, ChangedBlocks
    <3>3. c.begin_ = s[i].begin_ /\ c.end_ = e
      BY DEF Block
    <3> HIDE DEF c
    <3>4. ASSUME i + 1 <= Len(s) PROVE s[i + 1].begin_ # e /\ e <= s[i + 1].begin_
      <4>1. s[i + 1].begin_ # e
        BY <2>5, <3>4 DEF ClosesGap, BeginOf
      <4>2. i + 1 \in 1 .. Len(s)
        BY <2>1, <3>4
      <4>3. s[i].end_ < s[i + 1].begin_ /\ s[i + 1].begin_ < s[i + 1].end_
        BY <1>1, <2>1, <4>2
      <4> QED
        BY <1>2, <1>3, <2>5, <4>1, <4>2, <4>3
    <3>5. ASSUME NEW j \in 1 .. Len(s), i + 1 <= j PROVE e < s[j].begin_
      <4>1. i + 1 \in 1 .. Len(s)
        BY <1>1, <2>1, <3>5
      <4>2. CASE j = i + 1
        BY <1>2, <3>4, <4>1, <4>2
      <4>3. CASE j # i + 1
        <5>1. s[i + 1].end_ < s[j].begin_ /\ s[i + 1].begin_ < s[i + 1].end_
          BY <1>1, <2>1, <3>5, <4>1, <4>3
        <5>2. /\ s[i + 1].begin_ \in Nat /\ s[i + 1].end_ \in Nat /\ s[j].begin_ \in Nat
              /\ e <= s[i + 1].begin_
          BY <1>2, <3>4, <4>1
        <5> DEFINE x == s[i + 1].begin_
                   y == s[i + 1].end_
                   z == s[j].begin_
        <5>3. /\ e <= x /\ x < y /\ y < z /\ x \in Nat /\ y \in Nat /\ z \in Nat
          BY <5>1, <5>2
        <5> HIDE DEF x, y, z
        <5>4. e < z
          BY <5>3
        <5> QED
          BY <5>4 DEF z
      <4> QED
        BY <4>2, <4>3
    <3>6. Between(s, i, i + 1, c)
      BY <2>3, <3>3, <3>5 DEF Between
    <3>7. c.begin_ < c.end_ /\ c.end_ <= N
      BY <2>3, <2>5, <3>3
    <3>8. \A q \in Nat : Within(q, c) <=> Within(q, s[i]) \/ (b <= q /\ q < e)
      BY <2>3, <2>5, <3>3 DEF Within
    <3> QED
      BY <2>4, <3>2, <3>6, <3>7, <3>8 DEF u
  <2>6. CASE s[i].end_ # b /\ s[i].begin_ = e
    <3> DEFINE c == Block(b, s[i].end_)
    <3>1. ~ ClosesGap(t, i, b, e, junk)
      BY <2>6 DEF ClosesGap
    <3>2. u = SetBegin(t, i, b)
      BY <1>7, <1>11, <2>1, <2>6, <3>1 DEF SetBegin
    <3>3. u \in Trackers /\ u.free_blocks_ = Put(s, i, c) /\ c \in FreeBlock
      BY <1>1, <2>1, <3>2, ChangedBlocks
    <3>4. c.begin_ = b /\ c.end_ = s[i].end_
      BY DEF Block
    <3> HIDE DEF c
    <3>5. ASSUME NEW j \in 1 .. Len(s)
          PROVE  /\ j < i => s[j].end_ < b
                 /\ i + 1 <= j => s[i].end_ < s[j].begin_
      BY <2>1, <2>2, <2>3
    <3>6. Between(s, i, i + 1, c)
      BY <3>4, <3>5 DEF Between
    <3>7. c.begin_ < c.end_ /\ c.end_ <= N
      BY <2>3, <2>6, <3>4
    <3>8. \A q \in Nat : Within(q, c) <=> Within(q, s[i]) \/ (b <= q /\ q < e)
      BY <2>3, <2>6, <3>4 DEF Within
    <3> QED
      BY <2>4, <3>3, <3>6, <3>7, <3>8 DEF u
  <2>7. CASE s[i].end_ # b /\ s[i].begin_ # e
    <3>1. ~ ClosesGap(t, i, b, e, junk)
      BY <2>7 DEF ClosesGap
    <3>2. u = Inserted(t, i, new)
      BY <1>7, <1>11, <2>7, <3>1
    <3>3. e < s[i].begin_
      BY <2>1, <2>3, <2>7
    <3>4. ASSUME NEW j \in 1 .. Len(s), i <= j PROVE e < s[j].begin_
      <4>1. CASE j = i
        BY <3>3, <4>1
      <4>2. CASE j # i
        <5>1. s[i].end_ < s[j].begin_
          BY <2>1, <2>3, <3>4, <4>2
        <5>2. s[j].begin_ \in Nat
          BY <1>2
        <5> DEFINE x == s[i].begin_
                   y == s[i].end_
                   z == s[j].begin_
        <5>3. e < x /\ x < y /\ y < z /\ x \in Nat /\ y \in Nat /\ z \in Nat
          BY <2>3, <3>3, <5>1, <5>2
        <5> HIDE DEF x, y, z
        <5>4. e < z
          BY <5>3
        <5> QED
          BY <5>4 DEF z
      <4> QED
        BY <4>1, <4>2
    <3>5. Between(s, i, i, new)
      BY <1>4, <2>2, <3>4 DEF Between
    <3>6. i \in 1 .. Len(s) + 1
      BY <1>1, <2>1
    <3> QED
      BY <1>9, <3>2, <3>5, <3>6 DEF u
  <2>8. CASE ClosesGap(t, i, b, e, junk)
    <3> DEFINE k == i + 1
               c == Block(s[i].begin_, s[k].end_)
               r == RemoveAt(s, i)
               w == SetBegin(t, k, s[i].begin_)
    <3>1. i # Len(s) /\ k \in 1 .. Len(s) /\ k \in Nat
      BY <1>1, <1>8, <1>11, <2>1, <2>8
    <3>2. s[i].end_ = b /\ s[k].begin_ = e
      BY <2>8, <3>1 DEF ClosesGap, BeginOf
    <3>3. u = Erased(w, i)
      BY <1>7, <1>11, <2>8
    <3> HIDE DEF k
    <3>4. w \in Trackers /\ w.free_blocks_ = Put(s, k, c) /\ c \in FreeBlock
      BY <1>1, <2>3, <3>1, ChangedBlocks
    <3>5. c.begin_ = s[i].begin_ /\ c.end_ = s[k].end_
      BY DEF Block
    <3> HIDE DEF c, w
    <3>6. /\ Put(s, k, c) \in Seq(FreeBlock) /\ Len(Put(s, k, c)) = Len(s)
          /\ \A j \in 1 .. Len(s) : Put(s, k, c)[j] = IF j = k THEN c ELSE s[j]
      BY <1>1, <3>1, <3>4 DEF Put
    <3>7. u \in Trackers /\ u.free_blocks_ = RemoveAt(Put(s, k, c), i)
      <4>1. i \in 1 .. Len(w.free_blocks_)
        BY <2>1, <3>4, <3>6
      <4> QED
        BY <3>3, <3>4, <4>1, ErasedBlocks
    <3>8. /\ r \in Seq(FreeBlock) /\ Len(r) = Len(s) - 1
          /\ \A j \in 1 .. Len(s) - 1 : r[j] = IF j < i THEN s[j] ELSE s[j + 1]
      <4>1. s \in Seq(FreeBlock) /\ i \in 1 .. Len(s)
        BY <1>1, <2>1
      <4> QED
        BY <4>1, RemovedAt
    <3>9. /\ Listed(r, N)
          /\ \A q \in Nat : Held(r, q) <=> Held(s, q) /\ ~ Within(q, s[i])
      BY <1>1, <2>1, BlocksRemoved
    <3> HIDE DEF r
    <3>10. i \in 1 .. Len(r) /\ r[i] = s[k]
      BY <1>1, <2>1, <3>1, <3>8 DEF k
    <3>11. RemoveAt(Put(s, k, c), i) = Put(r, i, c)
      <4> DEFINE x == RemoveAt(Put(s, k, c), i)
                 y == Put(r, i, c)
      <4>1. /\ x \in Seq(FreeBlock) /\ Len(x) = Len(s) - 1
            /\ \A j \in 1 .. Len(s) - 1 :
                 x[j] = IF j < i THEN Put(s, k, c)[j] ELSE Put(s, k, c)[j + 1]
        <5> DEFINE z == Put(s, k, c)
        <5>1. z \in Seq(FreeBlock) /\ Len(z) = Len(s) /\ i \in 1 .. Len(z)
          BY <2>1, <3>6
        <5> HIDE DEF z
        <5>2. /\ RemoveAt(z, i) \in Seq(FreeBlock) /\ Len(RemoveAt(z, i)) = Len(z) - 1
              /\ \A j \in 1 .. Len(z) - 1 :
                   RemoveAt(z, i)[j] = IF j < i THEN z[j] ELSE z[j + 1]
          BY <5>1, RemovedAt
        <5> QED
          BY <5>1, <5>2 DEF z
      <4>2. /\ y \in Seq(FreeBlock) /\ Len(y) = Len(s) - 1
            /\ \A j \in 1 .. Len(s) - 1 : y[j] = IF j = i THEN c ELSE r[j]
        BY <3>4, <3>8, <3>10 DEF Put
      <4> HIDE DEF x, y
      <4>3. ASSUME NEW j \in 1 .. Len(s) - 1 PROVE x[j] = y[j]
        <5>1. j < i \/ j = i \/ j > i
          BY <2>1
        <5>2. CASE j < i
          <6>1. j \in 1 .. Len(s) /\ j # k /\ j # i
            BY <1>1, <2>1, <5>2 DEF k
          <6> QED
            BY <3>6, <3>8, <4>1, <4>2, <5>2, <6>1
        <5>3. CASE j = i
          <6>1. j + 1 = k /\ ~ (j < i)
            BY <2>1, <5>3 DEF k
          <6> QED
            BY <3>1, <3>6, <4>1, <4>2, <5>3, <6>1
        <5>4. CASE j > i
          <6>1. j + 1 \in 1 .. Len(s) /\ j + 1 # k /\ j # i /\ ~ (j < i)
            BY <1>1, <2>1, <5>4 DEF k
          <6> QED
            BY <3>6, <3>8, <4>1, <4>2, <6>1
        <5> QED
          BY <5>1, <5>2, <5>3, <5>4
      <4> QED
        BY <4>1, <4>2, <4>3, SeqEqual DEF x, y
    <3>12. c.begin_ < c.end_ /\ c.end_ <= N
      <4>1. /\ s[k].begin_ < s[k].end_ /\ s[k].end_ <= N
            /\ s[k].begin_ \in Nat /\ s[k].end_ \in Nat
        BY <1>1, <1>2, <3>1
      <4> QED
        BY <2>3, <3>2, <3>5, <4>1
    <3>13. Between(r, i, i + 1, c)
      <4>1. ASSUME NEW j \in 1 .. Len(r)
            PROVE  /\ j < i => r[j].end_ < s[i].begin_
                   /\ i + 1 <= j => s[k].end_ < r[j].begin_
        <5>1. CASE j < i
          <6>1. r[j] = s[j] /\ j \in 1 .. Len(s) /\ ~ (i + 1 <= j)
            BY <1>1, <2>1, <3>8, <5>1
          <6> QED
            BY <2>3, <5>1, <6>1
        <5>2. CASE i + 1 <= j
          <6>1. j \in 1 .. Len(s) - 1 /\ j + 1 \in 1 .. Len(s) /\ k < j + 1 /\ ~ (j < i)
            <7>1. Len(s) \in Nat /\ i \in Nat /\ j \in 1 .. Len(s) - 1
              BY <1>1, <2>1, <3>8
            <7> QED
              BY <5>2, <7>1 DEF k
          <6>2. r[j] = s[j + 1]
            BY <3>8, <6>1
          <6>3. s[k].end_ < s[j + 1].begin_
            BY <1>1, <3>1, <6>1
          <6> QED
            BY <6>1, <6>2, <6>3
        <5> QED
          BY <5>1, <5>2
      <4> QED
        BY <3>5, <4>1 DEF Between
    <3>14. /\ Listed(Put(r, i, c), N)
           /\ \A q \in Nat : Held(Put(r, i, c), q) <=>
                              (Held(r, q) /\ ~ Within(q, r[i])) \/ Within(q, c)
      BY <3>4, <3>9, <3>10, <3>12, <3>13, BlockReplaced
    <3>15. ASSUME NEW q \in Nat
           PROVE  Held(Put(r, i, c), q) <=> Held(s, q) \/ (b <= q /\ q < e)
      <4>1. Within(q, s[i]) => Held(s, q)
        BY <2>1 DEF Held
      <4>2. Within(q, s[k]) => Held(s, q)
        BY <3>1 DEF Held
      <4>3. Within(q, c) <=> Within(q, s[i]) \/ (b <= q /\ q < e) \/ Within(q, s[k])
        <5>1. /\ s[k].begin_ \in Nat /\ s[k].end_ \in Nat /\ s[k].begin_ < s[k].end_
              /\ s[i].begin_ \in Nat /\ s[i].begin_ < s[i].end_
          BY <1>1, <1>2, <2>3, <3>1
        <5> QED
          BY <3>2, <3>5, <5>1 DEF Within
      <4> QED
        BY <3>9, <3>10, <3>14, <4>1, <4>2, <4>3
    <3> QED
      BY <3>7, <3>11, <3>14, <3>15 DEF Good, IsFree, u
  <2> QED
    BY <2>5, <2>6, <2>7, <2>8 DEF ClosesGap
<1> QED
  BY <1>10, <1>11 DEF u

\* A block that grows takes the free pages behind it, and no others.
LEMMA BlockExtended ==
  ASSUME NEW t, NEW N \in Nat, Good(t, N), N <= DiskPages, NEW page \in Nat, 0 < page,
         NEW by \in Nat, 0 < by, ~ IsFree(t, page - 1),
         \A q \in Nat : page <= q /\ q < page + by => IsFree(t, q)
  PROVE  /\ Good(extend_block(t, page, by), N)
         /\ \A q \in Nat : IsFree(extend_block(t, page, by), q) <=>
                             IsFree(t, q) /\ ~ (page <= q /\ q < page + by)
<1> DEFINE s == t.free_blocks_
           I == {i \in 1 .. Len(s) : s[i].begin_ = page}
           i == IF I # {} THEN Min(I) ELSE 0
<1>1. /\ t \in Trackers /\ s \in Seq(FreeBlock) /\ Len(s) \in Nat
      /\ \A j \in 1 .. Len(s) : s[j].begin_ < s[j].end_
      /\ \A j, k \in 1 .. Len(s) : j < k => s[j].end_ < s[k].begin_
  BY DEF Good, Listed
<1>2. \A j \in 1 .. Len(s) : s[j].begin_ \in Nat /\ s[j].end_ \in Nat
  BY <1>1, BlockFields
<1>3. extend_block(t, page, by) = IF i = 0 THEN t ELSE TakeFront(t, i, by)
  BY DEF extend_block, First, SelectInSeq
<1>4. I # {}
  <2>1. IsFree(t, page)
    OBVIOUS
  <2>2. PICK j \in 1 .. Len(s) : Within(page, s[j])
    BY <2>1 DEF IsFree, Held
  <2>3. ~ Within(page - 1, s[j])
    BY DEF IsFree, Held
  <2>4. s[j].begin_ = page
    BY <1>2, <2>2, <2>3 DEF Within
  <2> QED
    BY <2>4
<1>5. i \in 1 .. Len(s) /\ s[i].begin_ = page
  <2>1. I \subseteq Nat
    OBVIOUS
  <2>2. Min(I) \in I
    BY <1>4, <2>1, LeastNumber DEF Min
  <2> QED
    BY <1>4, <2>2
<1> HIDE DEF i
<1>6. by <= s[i].end_ - s[i].begin_
  <2> DEFINE e == s[i].end_
  <2>1. SUFFICES ASSUME e < page + by PROVE FALSE
    BY <1>2, <1>5
  <2>2. e \in Nat /\ page < e
    BY <1>1, <1>2, <1>5
  <2>3. IsFree(t, e)
    BY <2>1, <2>2
  <2>4. PICK k \in 1 .. Len(s) : Within(e, s[k])
    BY <2>3 DEF IsFree, Held
  <2>5. k < i \/ k = i \/ i < k
    BY <1>5
  <2>6. CASE k < i
    <3>1. s[k].end_ < s[i].begin_
      BY <1>1, <1>5, <2>6
    <3> QED
      BY <1>2, <1>5, <2>2, <2>4, <3>1 DEF Within
  <2>7. CASE k = i
    BY <2>2, <2>4, <2>7 DEF Within
  <2>8. CASE i < k
    <3>1. s[i].end_ < s[k].begin_
      BY <1>1, <1>5, <2>8
    <3> QED
      BY <1>2, <1>5, <2>4, <3>1 DEF Within
  <2> QED
    BY <2>5, <2>6, <2>7, <2>8
<1>7. i # 0
  BY <1>5
<1> QED
  BY <1>3, <1>5, <1>6, <1>7, FrontIsTaken

-----------------------------------------------------------------------------
(* The pool after one or two doublings *)

\* How resize is repeated: each doubling goes by the tracker of the one before.
LEMMA TrackersResized ==
  /\ ResizedTracker[0] = tracker
  /\ ResizedTracker[1] = increase_pool_size(ResizedTracker[0], Doubled(0), Doubled(1))
  /\ ResizedTracker[2] = increase_pool_size(ResizedTracker[1], Doubled(1), Doubled(2))
<1> DEFINE t1 == increase_pool_size(tracker, Doubled(0), Doubled(1))
           t2 == increase_pool_size(t1, Doubled(1), Doubled(2))
           next(r, k) == IF k = 0 THEN tracker
                         ELSE increase_pool_size(r[k - 1], Doubled(k - 1), Doubled(k))
           g == [k \in 0 .. 2 |-> IF k = 0 THEN tracker ELSE IF k = 1 THEN t1 ELSE t2]
           f == CHOOSE r : r = [k \in 0 .. 2 |-> next(r, k)]
<1>1. g[0] = tracker /\ g[1] = t1 /\ g[2] = t2
  OBVIOUS
<1>2. next(g, 0) = g[0] /\ next(g, 1) = g[1] /\ next(g, 2) = g[2]
  BY <1>1
<1>3. 0 .. 2 = {0, 1, 2}
  OBVIOUS
<1>4. ResizedTracker = f
  BY DEF ResizedTracker
<1> HIDE DEF next, g
<1>5. g = [k \in 0 .. 2 |-> g[k]]
  BY DEF g
<1>6. \A k \in 0 .. 2 : next(g, k) = g[k]
  BY <1>2, <1>3
<1>7. g = [k \in 0 .. 2 |-> next(g, k)]
  BY <1>5, <1>6
<1>8. f = [k \in 0 .. 2 |-> next(f, k)]
  BY <1>7
<1> HIDE DEF f
<1>9. f[0] = next(f, 0) /\ f[1] = next(f, 1) /\ f[2] = next(f, 2)
  BY <1>3, <1>8
<1> QED
  BY <1>4, <1>9 DEF next

\* After two doublings there are as many new pages, free and in one block, as a
\* vector that is doubled can need.
LEMMA TrackersGrow ==
  ASSUME num_pages_ \in Nat, 0 < num_pages_, Good(tracker, num_pages_)
  PROVE  /\ Doubled(0) = num_pages_ /\ Doubled(1) = 2 * num_pages_
         /\ Doubled(2) = 4 * num_pages_
         /\ \A k \in 0 .. 2 :
              /\ Doubled(k) \in Nat /\ num_pages_ <= Doubled(k)
              /\ Good(ResizedTracker[k], Doubled(k))
              /\ \A q \in Nat : IsFree(ResizedTracker[k], q) <=>
                                  IsFree(tracker, q) \/ (num_pages_ <= q /\ q < Doubled(k))
         /\ \E i \in 1 .. Len(ResizedTracker[2].free_blocks_) :
              /\ ResizedTracker[2].free_blocks_[i].begin_ <= Doubled(1)
              /\ ResizedTracker[2].free_blocks_[i].end_ = Doubled(2)
<1> DEFINE t0 == ResizedTracker[0]
           t1 == ResizedTracker[1]
           t2 == ResizedTracker[2]
           a == Doubled(0)
           b == Doubled(1)
           c == Doubled(2)
<1>1. /\ a = num_pages_ /\ b = 2 * num_pages_ /\ c = 4 * num_pages_
      /\ a \in Nat /\ b \in Nat /\ c \in Nat
      /\ num_pages_ <= a /\ a < b /\ b < c
  BY DEF Doubled
<1>2. t0 = tracker /\ t1 = increase_pool_size(t0, a, b) /\ t2 = increase_pool_size(t1, b, c)
  BY TrackersResized
<1> HIDE DEF t0, t1, t2, a, b, c
<1>3. Good(t0, a) /\ \A q \in Nat : IsFree(t0, q) <=> IsFree(tracker, q)
  BY <1>1, <1>2
<1>4. Good(t1, b) /\ \A q \in Nat : IsFree(t1, q) <=> IsFree(t0, q) \/ (a <= q /\ q < b)
  BY <1>1, <1>2, <1>3, PoolGrows
<1>5. /\ Good(t2, c) /\ \A q \in Nat : IsFree(t2, q) <=> IsFree(t1, q) \/ (b <= q /\ q < c)
      /\ \E i \in 1 .. Len(t2.free_blocks_) :
           t2.free_blocks_[i].begin_ <= b /\ t2.free_blocks_[i].end_ = c
  BY <1>1, <1>2, <1>4, PoolGrows
<1>6. ASSUME NEW q \in Nat
      PROVE  /\ IsFree(t0, q) <=> IsFree(tracker, q) \/ (num_pages_ <= q /\ q < a)
             /\ IsFree(t1, q) <=> IsFree(tracker, q) \/ (num_pages_ <= q /\ q < b)
             /\ IsFree(t2, q) <=> IsFree(tracker, q) \/ (num_pages_ <= q /\ q < c)
  BY <1>1, <1>3, <1>4, <1>5
<1>7. num_pages_ <= b /\ num_pages_ <= c
  BY <1>1
<1>8. ASSUME NEW k \in 0 .. 2
      PROVE  /\ Doubled(k) \in Nat /\ num_pages_ <= Doubled(k)
             /\ Good(ResizedTracker[k], Doubled(k))
             /\ \A q \in Nat : IsFree(ResizedTracker[k], q) <=>
                                 IsFree(tracker, q) \/ (num_pages_ <= q /\ q < Doubled(k))
  <2>1. CASE k = 0
    BY <1>1, <1>3, <1>6, <2>1 DEF t0, a
  <2>2. CASE k = 1
    BY <1>1, <1>4, <1>6, <1>7, <2>2 DEF t1, b
  <2>3. CASE k = 2
    BY <1>1, <1>5, <1>6, <1>7, <2>3 DEF t2, c
  <2>4. k = 0 \/ k = 1 \/ k = 2
    OBVIOUS
  <2> QED
    BY <2>1, <2>2, <2>3, <2>4
<1> QED
  BY <1>1, <1>5, <1>8 DEF t2, a, b, c

\* There is always a number of doublings after which the block fits, or the disk
\* is full.
LEMMA DoublingsFound ==
  ASSUME num_pages_ \in Nat, 0 < num_pages_, num_pages_ <= DiskPages,
         Good(tracker, num_pages_), NEW n \in Nat, n <= 2 * num_pages_
  PROVE  Doublings(n) \in 0 .. 2 /\ Doubled(Doublings(n)) <= DiskPages
<1> DEFINE P(k) == /\ Fits(k, n) \/ Doubled(k + 1) > DiskPages
                   /\ \A j \in 0 .. k - 1 : ~ Fits(j, n)
                   /\ Doubled(k) <= DiskPages
<1>1. Doublings(n) = CHOOSE k \in 0 .. 2 : P(k)
  BY DEF Doublings
<1>2. \E k \in 0 .. 2 : P(k)
  <2>1. /\ Doubled(0) = num_pages_ /\ Doubled(1) = 2 * num_pages_
        /\ Doubled(2) = 4 * num_pages_ /\ DiskPages \in Nat
    BY TrackersGrow, PoolAssumption
  <2>2. CASE Fits(0, n) \/ Doubled(1) > DiskPages
    <3>1. 0 \in 0 .. 2 /\ 0 + 1 = 1 /\ \A j \in 0 .. 0 - 1 : ~ Fits(j, n)
      OBVIOUS
    <3> QED
      BY <2>1, <2>2, <3>1
  <2>3. CASE ~ Fits(0, n) /\ Doubled(1) <= DiskPages /\ (Fits(1, n) \/ Doubled(2) > DiskPages)
    <3>1. 1 \in 0 .. 2 /\ 1 + 1 = 2 /\ \A j \in 0 .. 1 - 1 : j = 0
      OBVIOUS
    <3> QED
      BY <2>3, <3>1
  <2>4. CASE ~ Fits(0, n) /\ ~ Fits(1, n) /\ Doubled(2) <= DiskPages
    <3>1. 2 \in 0 .. 2 /\ \A j \in 0 .. 2 - 1 : j = 0 \/ j = 1
      OBVIOUS
    <3>2. Fits(2, n)
      <4> DEFINE t == ResizedTracker[2]
                 s == t.free_blocks_
                 i == find_free_block(t, n)
      <4>1. Good(t, Doubled(2)) /\ Doubled(2) \in Nat
        <5>1. 2 \in 0 .. 2
          OBVIOUS
        <5> QED
          BY <5>1, TrackersGrow
      <4>2. PICK j \in 1 .. Len(s) : s[j].begin_ <= Doubled(1) /\ s[j].end_ = Doubled(2)
        BY TrackersGrow
      <4>3. s[j].begin_ \in Nat
        BY <4>1, BlockFields DEF Good, Listed
      <4>4. s[j].end_ - s[j].begin_ >= n
        BY <2>1, <4>2, <4>3
      <4> HIDE DEF t
      <4>5. i # 0
        <5>1. \/ /\ i \in 1 .. Len(s) /\ s[i].end_ - s[i].begin_ >= n
              \/ /\ i = 0
                 /\ \A h \in 1 .. Len(s) : ~ (s[h].end_ - s[h].begin_ >= n)
          BY <2>4, <4>1, FreeBlockFound
        <5> HIDE DEF i
        <5> QED
          BY <4>4, <5>1
      <4> QED
        BY <4>5 DEF Fits, t
    <3> QED
      BY <2>4, <3>1, <3>2
  <2>5. \/ Fits(0, n) \/ Doubled(1) > DiskPages
        \/ ~ Fits(0, n) /\ Doubled(1) <= DiskPages /\ (Fits(1, n) \/ Doubled(2) > DiskPages)
        \/ ~ Fits(0, n) /\ ~ Fits(1, n) /\ Doubled(2) <= DiskPages
    BY <2>1
  <2> QED
    BY <2>2, <2>3, <2>4, <2>5
<1> HIDE DEF P
<1>3. Doublings(n) \in 0 .. 2 /\ P(Doublings(n))
  BY <1>1, <1>2
<1> QED
  BY <1>3 DEF P

-----------------------------------------------------------------------------
(* The inductive invariant *)

PageTable == [0 .. DiskPages - 1 -> [is_allocated_ : BOOLEAN, block_size_ : 0 .. DiskPages]]

\* Page q is in the block of vector v.
Has(v, q) ==
  /\ page_num_[v] # NOT_ALLOCATED
  /\ page_num_[v] <= q /\ q < page_num_[v] + block_size(page_num_[v])

\* A vector has no block, or one that lies in the pool and holds its elements.
Blocks == \A v \in Vectors :
  \/ page_num_[v] = NOT_ALLOCATED /\ size_[v] = 0
  \/ LET p == page_num_[v]
     IN  /\ p \in Nat /\ pages_[p].is_allocated_
         /\ 1 <= block_size(p) /\ p + block_size(p) <= num_pages_
         /\ size_[v] <= block_size(p)

\* Only the first page of the block of a vector is marked as a head.
HeadsOnly == \A p \in 0 .. DiskPages - 1 :
  pages_[p].is_allocated_ => \E v \in Vectors : page_num_[v] = p

\* Every page is free or in the block of one vector.
Partition == \A q \in Nat :
  /\ q < num_pages_ => IsFree(tracker, q) \/ \E v \in Vectors : Has(v, q)
  /\ \A v \in Vectors : Has(v, q) =>
       ~ IsFree(tracker, q) /\ \A w \in Vectors : Has(w, q) => w = v

\* The pages a vector has filled hold its elements.
Filled(v, q) == Has(v, q) /\ q < page_num_[v] + size_[v]

Contents == \A v \in Vectors : \A q \in Nat : Filled(v, q) => data_[q] = v

Kept ==
  /\ PoolTypeOK /\ Good(tracker, num_pages_)
  /\ Blocks /\ HeadsOnly /\ Partition /\ Contents

Inv == misread \in BOOLEAN /\ (misread \/ Kept)

\* What the invariant says of the pool as a whole.
LEMMA PoolFacts ==
  ASSUME Kept
  PROVE  /\ num_pages_ \in Nat /\ 0 < num_pages_ /\ num_pages_ <= DiskPages
         /\ DiskPages \in Nat /\ Good(tracker, num_pages_) /\ pages_ \in PageTable
         /\ \A p \in 0 .. DiskPages - 1 : /\ pages_[p].is_allocated_ \in BOOLEAN
                                          /\ block_size(p) \in Nat
<1>1. /\ num_pages_ \in InitialPages .. DiskPages /\ pages_ \in PageTable
      /\ Good(tracker, num_pages_)
  BY DEF Kept, PoolTypeOK, PageTable
<1>2. \A p \in 0 .. DiskPages - 1 :
        pages_[p] \in [is_allocated_ : BOOLEAN, block_size_ : 0 .. DiskPages]
  BY <1>1 DEF PageTable
<1> QED
  BY <1>1, <1>2, PoolAssumption DEF block_size

\* What the invariant says of a vector that has a block: the block's pages, and
\* those of them that are filled.
LEMMA VectorFacts ==
  ASSUME Kept, NEW v \in Vectors, page_num_[v] # NOT_ALLOCATED
  PROVE  LET p == page_num_[v]
             n == block_size(p)
         IN  /\ p \in Nat /\ p \in 0 .. DiskPages - 1 /\ n \in Nat /\ 1 <= n
             /\ p + n <= num_pages_ /\ size_[v] \in Nat /\ size_[v] <= n
             /\ pages_[p].is_allocated_ = TRUE
             /\ \A q : Has(v, q) <=> p <= q /\ q < p + n
             /\ \A q \in Nat : Filled(v, q) <=> p <= q /\ q < p + size_[v]
<1> DEFINE p == page_num_[v]
           n == block_size(p)
<1>1. /\ p \in Nat /\ pages_[p].is_allocated_ /\ 1 <= n /\ p + n <= num_pages_
      /\ size_[v] <= n
  BY DEF Kept, Blocks
<1>2. size_[v] \in Nat
  BY PoolAssumption DEF Kept, PoolTypeOK
<1>3. p \in 0 .. DiskPages - 1
  BY PoolAssumption DEF Kept, PoolTypeOK
<1>4. n \in Nat /\ pages_[p].is_allocated_ \in BOOLEAN
  BY <1>3, PoolFacts
<1>5. /\ \A q : Has(v, q) <=> p <= q /\ q < p + n
      /\ \A q : Filled(v, q) <=> Has(v, q) /\ q < p + size_[v]
  BY DEF Has, Filled
<1>6. pages_[p].is_allocated_ = TRUE
  BY <1>1, <1>4
<1>7. ASSUME NEW q \in Nat PROVE Filled(v, q) <=> p <= q /\ q < p + size_[v]
  BY <1>1, <1>2, <1>4, <1>5
<1> QED
  BY <1>1, <1>2, <1>3, <1>4, <1>5, <1>6, <1>7, Zenon

\* Two vectors do not have the same block.
LEMMA HeadsDiffer ==
  ASSUME Kept, NEW v \in Vectors, NEW w \in Vectors, w # v,
         page_num_[v] # NOT_ALLOCATED
  PROVE  page_num_[w] # page_num_[v]
<1>1. SUFFICES ASSUME page_num_[w] = page_num_[v] PROVE FALSE
  OBVIOUS
<1>2. page_num_[v] \in Nat /\ Has(v, page_num_[v]) /\ Has(w, page_num_[v])
  <2>1. /\ page_num_[v] \in Nat /\ block_size(page_num_[v]) \in Nat
        /\ 1 <= block_size(page_num_[v])
    BY VectorFacts
  <2> QED
    BY <1>1, <2>1 DEF Has
<1> QED
  BY <1>2 DEF Kept, Partition

\* What every operation on vector v does: the block of v is what it was, or is
\* made of pages that were free; the pages it had before and no longer has are
\* free; the other vectors do not notice.
Step(v) ==
  /\ num_pages_' \in num_pages_ .. DiskPages
  /\ Good(tracker', num_pages_')
  /\ pages_' \in PageTable
  /\ data_' \in [0 .. DiskPages - 1 -> Vectors \cup {NOT_ALLOCATED}]
  /\ page_num_' \in [Vectors -> 0 .. DiskPages - 1 \cup {NOT_ALLOCATED}]
  /\ size_' \in [Vectors -> 0 .. DiskPages]
  /\ misread' \in BOOLEAN
  /\ \A w \in Vectors : w # v =>
       /\ page_num_'[w] = page_num_[w] /\ size_'[w] = size_[w]
       /\ page_num_[w] # NOT_ALLOCATED => pages_'[page_num_[w]] = pages_[page_num_[w]]
       /\ \A q \in Nat : Filled(w, q) => data_'[q] = data_[q]
  /\ \A p \in 0 .. DiskPages - 1 : pages_'[p].is_allocated_ =>
       (pages_[p].is_allocated_ /\ p # page_num_[v]) \/ p = page_num_'[v]
  /\ \/ page_num_'[v] = NOT_ALLOCATED /\ size_'[v] = 0
     \/ /\ page_num_'[v] \in Nat /\ pages_'[page_num_'[v]].is_allocated_
        /\ 1 <= block_size(page_num_[v])'
        /\ page_num_'[v] + block_size(page_num_[v])' <= num_pages_'
        /\ size_'[v] <= block_size(page_num_[v])'
  /\ \A q \in Nat :
       /\ Has(v, q)' => Has(v, q) \/ IsFree(tracker, q) \/ num_pages_ <= q
       /\ IsFree(tracker', q) <=>
            /\ IsFree(tracker, q) \/ Has(v, q) \/ (num_pages_ <= q /\ q < num_pages_')
            /\ ~ Has(v, q)'
       /\ Filled(v, q)' => data_'[q] = v

\* What a step of one vector may do keeps the invariant.
LEMMA StepKeeps ==
  ASSUME Kept, NEW v \in Vectors, Step(v)
  PROVE  Kept'
<1>1. /\ num_pages_ \in Nat /\ num_pages_' \in Nat /\ num_pages_ <= num_pages_'
      /\ num_pages_' \in InitialPages .. DiskPages
  BY PoolFacts, PoolAssumption DEF Kept, PoolTypeOK, Step
<1>2. PoolTypeOK' /\ Good(tracker, num_pages_)'
  BY <1>1 DEF PoolTypeOK, Step, PageTable
<1>3. ASSUME NEW w \in Vectors, w # v
      PROVE  /\ page_num_'[w] = page_num_[w] /\ size_'[w] = size_[w]
             /\ page_num_[w] # NOT_ALLOCATED =>
                  /\ pages_'[page_num_[w]] = pages_[page_num_[w]]
                  /\ block_size(page_num_[w])' = block_size(page_num_[w])
             /\ \A q : Has(w, q)' <=> Has(w, q)
             /\ \A q : Filled(w, q)' <=> Filled(w, q)
             /\ \A q \in Nat : Filled(w, q) => data_'[q] = data_[q]
  <2>1. /\ page_num_'[w] = page_num_[w] /\ size_'[w] = size_[w]
        /\ page_num_[w] # NOT_ALLOCATED => pages_'[page_num_[w]] = pages_[page_num_[w]]
        /\ \A q \in Nat : Filled(w, q) => data_'[q] = data_[q]
    BY <1>3 DEF Step
  <2>2. page_num_[w] # NOT_ALLOCATED => block_size(page_num_[w])' = block_size(page_num_[w])
    BY <2>1 DEF block_size
  <2> QED
    BY <2>1, <2>2 DEF Has, Filled
<1>4. Blocks'
  <2>1. ASSUME NEW w \in Vectors, w # v
        PROVE  \/ page_num_'[w] = NOT_ALLOCATED /\ size_'[w] = 0
               \/ /\ page_num_'[w] \in Nat /\ pages_'[page_num_'[w]].is_allocated_
                  /\ 1 <= block_size(page_num_[w])'
                  /\ page_num_'[w] + block_size(page_num_[w])' <= num_pages_'
                  /\ size_'[w] <= block_size(page_num_[w])'
    <3>1. CASE page_num_[w] = NOT_ALLOCATED
      <4>1. page_num_[w] \notin Nat
        BY <3>1, PoolAssumption
      <4> QED
        BY <1>3, <2>1, <3>1, <4>1 DEF Kept, Blocks
    <3>2. CASE page_num_[w] # NOT_ALLOCATED
      <4>1. /\ page_num_[w] \in Nat /\ pages_[page_num_[w]].is_allocated_
            /\ 1 <= block_size(page_num_[w]) /\ block_size(page_num_[w]) \in Nat
            /\ page_num_[w] + block_size(page_num_[w]) <= num_pages_
            /\ size_[w] <= block_size(page_num_[w])
        BY <3>2, VectorFacts
      <4> QED
        BY <1>1, <1>3, <2>1, <3>2, <4>1
    <3> QED
      BY <3>1, <3>2
  <2>2. \/ page_num_'[v] = NOT_ALLOCATED /\ size_'[v] = 0
        \/ /\ page_num_'[v] \in Nat /\ pages_'[page_num_'[v]].is_allocated_
           /\ 1 <= block_size(page_num_[v])'
           /\ page_num_'[v] + block_size(page_num_[v])' <= num_pages_'
           /\ size_'[v] <= block_size(page_num_[v])'
    BY DEF Step
  <2> QED
    BY <2>1, <2>2 DEF Blocks
<1>5. HeadsOnly'
  <2> SUFFICES ASSUME NEW p \in 0 .. DiskPages - 1, pages_'[p].is_allocated_
               PROVE  \E w \in Vectors : page_num_'[w] = p
    BY DEF HeadsOnly
  <2>1. (pages_[p].is_allocated_ /\ p # page_num_[v]) \/ p = page_num_'[v]
    BY DEF Step
  <2>2. CASE pages_[p].is_allocated_ /\ p # page_num_[v]
    <3>1. PICK w \in Vectors : page_num_[w] = p
      BY <2>2 DEF Kept, HeadsOnly
    <3> QED
      BY <1>3, <2>2, <3>1
  <2> QED
    BY <2>1, <2>2
<1>6. ASSUME NEW q \in Nat
      PROVE  /\ Has(v, q)' => Has(v, q) \/ IsFree(tracker, q) \/ num_pages_ <= q
             /\ IsFree(tracker', q) <=>
                  /\ IsFree(tracker, q) \/ Has(v, q) \/ (num_pages_ <= q /\ q < num_pages_')
                  /\ ~ Has(v, q)'
             /\ Filled(v, q)' => data_'[q] = v
  BY DEF Step
<1>7. ASSUME NEW q \in Nat
      PROVE  /\ q < num_pages_ => IsFree(tracker, q) \/ \E w \in Vectors : Has(w, q)
             /\ \A w \in Vectors : Has(w, q) =>
                  ~ IsFree(tracker, q) /\ \A x \in Vectors : Has(x, q) => x = w
  BY DEF Kept, Partition
<1>8. ASSUME NEW w \in Vectors, NEW q \in Nat, Has(w, q) PROVE q < num_pages_
  <2>1. page_num_[w] # NOT_ALLOCATED
    BY <1>8 DEF Has
  <2>2. /\ page_num_[w] \in Nat /\ block_size(page_num_[w]) \in Nat
        /\ q < page_num_[w] + block_size(page_num_[w])
        /\ page_num_[w] + block_size(page_num_[w]) <= num_pages_
    BY <1>8, <2>1, VectorFacts
  <2> QED
    BY <1>1, <2>2
<1>9. Partition'
  <2> SUFFICES ASSUME NEW q \in Nat
               PROVE  /\ q < num_pages_' =>
                           IsFree(tracker', q) \/ \E w \in Vectors : Has(w, q)'
                      /\ \A w \in Vectors : Has(w, q)' =>
                           ~ IsFree(tracker', q) /\ \A x \in Vectors : Has(x, q)' => x = w
    BY DEF Partition, IsFree
  <2>1. ASSUME q < num_pages_', ~ IsFree(tracker', q)
        PROVE  \E w \in Vectors : Has(w, q)'
    <3>1. CASE Has(v, q)'
      BY <3>1
    <3>2. CASE ~ Has(v, q)'
      <4>1. ~ IsFree(tracker, q) /\ ~ Has(v, q) /\ q < num_pages_
        BY <1>1, <1>6, <2>1, <3>2
      <4>2. PICK w \in Vectors : Has(w, q)
        BY <1>7, <4>1
      <4> QED
        BY <1>3, <4>1, <4>2
    <3> QED
      BY <3>1, <3>2
  <2>2. ASSUME NEW w \in Vectors, w # v, Has(w, q)'
        PROVE  Has(w, q) /\ ~ IsFree(tracker, q) /\ ~ Has(v, q) /\ q < num_pages_
    <3>1. Has(w, q)
      BY <1>3, <2>2
    <3> QED
      BY <1>7, <1>8, <2>2, <3>1
  <2>3. ASSUME NEW w \in Vectors, w # v, Has(w, q)'
        PROVE  ~ IsFree(tracker', q) /\ ~ Has(v, q)'
    BY <1>1, <1>6, <2>2, <2>3
  <2>4. ASSUME NEW w \in Vectors, NEW x \in Vectors, Has(w, q)', Has(x, q)'
        PROVE  x = w
    <3>1. CASE w = v \/ x = v
      BY <2>3, <2>4, <3>1
    <3>2. CASE w # v /\ x # v
      <4>1. Has(w, q) /\ Has(x, q)
        BY <2>2, <2>4, <3>2
      <4> QED
        BY <1>7, <4>1
    <3> QED
      BY <3>1, <3>2
  <2>5. ASSUME NEW w \in Vectors, Has(w, q)' PROVE ~ IsFree(tracker', q)
    <3>1. CASE w = v
      BY <1>6, <2>5, <3>1
    <3>2. CASE w # v
      BY <2>3, <2>5, <3>2
    <3> QED
      BY <3>1, <3>2
  <2> QED
    BY <2>1, <2>4, <2>5
<1>10. Contents'
  <2> SUFFICES ASSUME NEW w \in Vectors, NEW q \in Nat, Filled(w, q)'
               PROVE  data_'[q] = w
    BY DEF Contents
  <2>1. CASE w = v
    BY <1>6, <2>1
  <2>2. CASE w # v
    <3>1. Filled(w, q) /\ data_'[q] = data_[q]
      BY <1>3, <2>2
    <3> QED
      BY <3>1 DEF Kept, Contents
  <2> QED
    BY <2>1, <2>2
<1> QED
  BY <1>2, <1>4, <1>5, <1>9, <1>10 DEF Kept

-----------------------------------------------------------------------------
(* The operations *)

\* What vectors other than v may rely on, while pages that are not theirs change.
LEMMA OthersAside ==
  ASSUME Kept, NEW v \in Vectors, NEW w \in Vectors, w # v, NEW q \in Nat, Filled(w, q)
  PROVE  ~ Has(v, q) /\ ~ IsFree(tracker, q) /\ q < num_pages_
<1>1. Has(w, q) /\ page_num_[w] # NOT_ALLOCATED
  BY DEF Filled, Has
<1>2. q < num_pages_
  <2>1. /\ page_num_[w] \in Nat /\ block_size(page_num_[w]) \in Nat /\ num_pages_ \in Nat
        /\ page_num_[w] + block_size(page_num_[w]) <= num_pages_
        /\ q < page_num_[w] + block_size(page_num_[w])
    BY <1>1, VectorFacts, PoolFacts
  <2> QED
    BY <2>1
<1> QED
  BY <1>1, <1>2 DEF Kept, Partition

\* The call of push_back that fills a page of the block that there is.
Fill(v) ==
  LET p == page_num_[v]
  IN  /\ p # NOT_ALLOCATED /\ size_[v] < block_size(p)
      /\ data_' = [data_ EXCEPT ![p + size_[v]] = v]
      /\ size_' = [size_ EXCEPT ![v] = @ + 1]
      /\ UNCHANGED <<tracker, num_pages_, pages_, page_num_, misread>>

\* Writing an element into the free space of the own block is such a step.
LEMMA FillSteps ==
  ASSUME Kept, misread \in BOOLEAN, NEW v \in Vectors, Fill(v)
  PROVE  Step(v)
<1> DEFINE p == page_num_[v]
           n == block_size(p)
           new == p + size_[v]
<1>1. /\ p # NOT_ALLOCATED /\ size_[v] < n
      /\ data_' = [data_ EXCEPT ![new] = v] /\ size_' = [size_ EXCEPT ![v] = @ + 1]
      /\ tracker' = tracker /\ num_pages_' = num_pages_ /\ pages_' = pages_
      /\ page_num_' = page_num_ /\ misread' = misread
  BY DEF Fill
<1>2. /\ p \in Nat /\ n \in Nat /\ 1 <= n /\ p + n <= num_pages_ /\ size_[v] \in Nat
      /\ pages_[p].is_allocated_
      /\ \A q : Has(v, q) <=> p <= q /\ q < p + n
      /\ \A q \in Nat : Filled(v, q) <=> p <= q /\ q < p + size_[v]
  BY <1>1, VectorFacts
<1>3. /\ num_pages_ \in Nat /\ num_pages_ <= DiskPages /\ DiskPages \in Nat
      /\ Good(tracker, num_pages_) /\ pages_ \in PageTable
  BY PoolFacts
<1>4. /\ data_ \in [0 .. DiskPages - 1 -> Vectors \cup {NOT_ALLOCATED}]
      /\ page_num_ \in [Vectors -> 0 .. DiskPages - 1 \cup {NOT_ALLOCATED}]
      /\ size_ \in [Vectors -> 0 .. DiskPages]
  BY DEF Kept, PoolTypeOK
<1>5. \A q : Has(v, q)' <=> Has(v, q)
  BY <1>1 DEF Has, block_size
<1>6. block_size(page_num_[v])' = n
  BY <1>1 DEF block_size
<1>7. new \in 0 .. DiskPages - 1 /\ Has(v, new) /\ size_[v] + 1 \in 0 .. DiskPages
  BY <1>1, <1>2, <1>3
<1>8. /\ data_' \in [0 .. DiskPages - 1 -> Vectors \cup {NOT_ALLOCATED}]
      /\ data_'[new] = v /\ \A q : q # new => data_'[q] = data_[q]
      /\ size_' \in [Vectors -> 0 .. DiskPages]
      /\ size_'[v] = size_[v] + 1
      /\ \A w \in Vectors : w # v => size_'[w] = size_[w]
  <2>1. data_' \in [0 .. DiskPages - 1 -> Vectors \cup {NOT_ALLOCATED}]
    BY <1>1, <1>4, <1>7
  <2>2. data_'[new] = v
    BY <1>1, <1>4, <1>7
  <2>3. \A q : q # new => data_'[q] = data_[q]
    BY <1>1, <1>4, <1>7
  <2>4. /\ size_' \in [Vectors -> 0 .. DiskPages] /\ size_'[v] = size_[v] + 1
        /\ \A w \in Vectors : w # v => size_'[w] = size_[w]
    BY <1>1, <1>4, <1>7
  <2> QED
    BY <2>1, <2>2, <2>3, <2>4
<1> HIDE DEF new
<1>9. ASSUME NEW w \in Vectors, w # v, NEW q \in Nat, Filled(w, q)
      PROVE  data_'[q] = data_[q]
  <2>1. ~ Has(v, q)
    BY <1>9, OthersAside
  <2> QED
    BY <1>7, <1>8, <2>1
<1>10. ASSUME NEW q \in Nat, Filled(v, q)' PROVE data_'[q] = v
  <2>1. p <= q /\ q < p + size_[v] + 1
    BY <1>1, <1>2, <1>5, <1>8, <1>10 DEF Filled
  <2>2. CASE q = new
    BY <1>8, <2>2
  <2>3. CASE q # new
    <3>1. Filled(v, q)
      BY <1>2, <2>1, <2>3 DEF new
    <3> QED
      BY <1>8, <2>3, <3>1 DEF Kept, Contents
  <2> QED
    BY <2>2, <2>3
<1>11. ASSUME NEW q \in Nat, Has(v, q) PROVE ~ IsFree(tracker, q)
  BY <1>11 DEF Kept, Partition
<1>12. size_'[v] <= n
  BY <1>1, <1>2, <1>8
<1>13. ASSUME NEW q \in Nat
       PROVE  /\ Has(v, q)' => Has(v, q) \/ IsFree(tracker, q) \/ num_pages_ <= q
              /\ IsFree(tracker', q) <=>
                   /\ IsFree(tracker, q) \/ Has(v, q) \/ (num_pages_ <= q /\ q < num_pages_')
                   /\ ~ Has(v, q)'
  BY <1>1, <1>3, <1>5, <1>11
<1>14. ASSUME NEW r \in 0 .. DiskPages - 1, pages_'[r].is_allocated_
       PROVE  (pages_[r].is_allocated_ /\ r # page_num_[v]) \/ r = page_num_'[v]
  BY <1>1, <1>14
<1>15. num_pages_' \in num_pages_ .. DiskPages
  BY <1>1, <1>3
<1> QED
  BY <1>1, <1>2, <1>3, <1>4, <1>6, <1>8, <1>9, <1>10, <1>12, <1>13, <1>14, <1>15 DEF Step

\* Freeing a block makes exactly its pages free, whether it touches other free
\* blocks or not.
LEMMA FreeFrees ==
  ASSUME NEW t, NEW N \in Nat, Good(t, N), NEW b \in Nat, NEW e \in Nat, b < e, e <= N,
         \A q \in Nat : b <= q /\ q < e => ~ IsFree(t, q), Free(t, b, e), ~ misread'
  PROVE  /\ Good(tracker', N)
         /\ \A q \in Nat : IsFree(tracker', q) <=> IsFree(t, q) \/ (b <= q /\ q < e)
<1>1. PICK junk \in {e, e + 1} :
        /\ tracker' = free_block(t, b, e, junk)
        /\ misread' = (misread \/ Misreads(t, b, e, junk))
  BY DEF Free
<1>2. ~ Misreads(t, b, e, junk)
  BY <1>1
<1> QED
  BY <1>1, <1>2, BlockFreed

\* Giving a block back is such a step.
LEMMA DestroySteps ==
  ASSUME Kept, NEW v \in Vectors, Destroy(v), misread' = FALSE
  PROVE  Step(v)
<1> DEFINE p == page_num_[v]
           n == block_size(p)
<1>1. /\ p # NOT_ALLOCATED /\ Free(tracker, p, p + n)
      /\ pages_' = [pages_ EXCEPT ![p] = Page]
      /\ page_num_' = [page_num_ EXCEPT ![v] = NOT_ALLOCATED]
      /\ size_' = [size_ EXCEPT ![v] = 0]
      /\ num_pages_' = num_pages_ /\ data_' = data_
  BY DEF Destroy
<1>2. /\ p \in Nat /\ p \in 0 .. DiskPages - 1 /\ n \in Nat /\ 1 <= n
      /\ p + n <= num_pages_
      /\ \A q : Has(v, q) <=> p <= q /\ q < p + n
  BY <1>1, VectorFacts
<1>3. /\ num_pages_ \in Nat /\ num_pages_ <= DiskPages /\ DiskPages \in Nat
      /\ Good(tracker, num_pages_) /\ pages_ \in PageTable
  BY PoolFacts
<1>4. /\ data_ \in [0 .. DiskPages - 1 -> Vectors \cup {NOT_ALLOCATED}]
      /\ page_num_ \in [Vectors -> 0 .. DiskPages - 1 \cup {NOT_ALLOCATED}]
      /\ size_ \in [Vectors -> 0 .. DiskPages]
  BY DEF Kept, PoolTypeOK
<1>5. ASSUME NEW q \in Nat, Has(v, q) PROVE ~ IsFree(tracker, q)
  BY <1>5 DEF Kept, Partition
<1>6. /\ Good(tracker', num_pages_)
      /\ \A q \in Nat : IsFree(tracker', q) <=> IsFree(tracker, q) \/ Has(v, q)
  <2>1. p + n \in Nat /\ p < p + n
    BY <1>2
  <2>2. \A q \in Nat : p <= q /\ q < p + n => ~ IsFree(tracker, q)
    BY <1>2, <1>5
  <2>3. /\ Good(tracker', num_pages_)
        /\ \A q \in Nat : IsFree(tracker', q) <=>
                            IsFree(tracker, q) \/ (p <= q /\ q < p + n)
    BY <1>1, <1>2, <1>3, <2>1, <2>2, FreeFrees
  <2> QED
    BY <1>2, <2>3
<1>7. /\ page_num_' \in [Vectors -> 0 .. DiskPages - 1 \cup {NOT_ALLOCATED}]
      /\ page_num_'[v] = NOT_ALLOCATED
      /\ \A w \in Vectors : w # v => page_num_'[w] = page_num_[w]
  BY <1>1, <1>4
<1>8. /\ size_' \in [Vectors -> 0 .. DiskPages] /\ size_'[v] = 0
      /\ \A w \in Vectors : w # v => size_'[w] = size_[w]
  <2>1. 0 \in 0 .. DiskPages
    BY <1>3
  <2> QED
    BY <1>1, <1>4, <2>1
<1>9. /\ pages_' \in PageTable /\ pages_'[p].is_allocated_ = FALSE
      /\ \A q : q # p => pages_'[q] = pages_[q]
  <2>1. Page \in [is_allocated_ : BOOLEAN, block_size_ : 0 .. DiskPages]
    BY <1>3 DEF Page
  <2>2. pages_' \in PageTable
    BY <1>1, <1>3, <2>1 DEF PageTable
  <2>3. pages_'[p] = Page /\ \A q : q # p => pages_'[q] = pages_[q]
    BY <1>1, <1>2, <1>3 DEF PageTable
  <2> QED
    BY <2>2, <2>3 DEF Page
<1>10. \A q : ~ Has(v, q)'
  BY <1>7 DEF Has
<1>11. ASSUME NEW w \in Vectors, w # v PROVE page_num_[w] # p
  BY <1>1, <1>11, HeadsDiffer
<1>12. ASSUME NEW r \in 0 .. DiskPages - 1, pages_'[r].is_allocated_
       PROVE  pages_[r].is_allocated_ /\ r # p
  BY <1>9, <1>12
<1>13. ASSUME NEW q \in Nat
       PROVE  /\ IsFree(tracker', q) <=>
                   /\ IsFree(tracker, q) \/ Has(v, q) \/ (num_pages_ <= q /\ q < num_pages_')
                   /\ ~ Has(v, q)'
              /\ ~ Filled(v, q)'
  BY <1>1, <1>3, <1>6, <1>10 DEF Filled
<1>14. num_pages_' \in num_pages_ .. DiskPages
  BY <1>1, <1>3
<1> QED
  BY <1>1, <1>4, <1>6, <1>7, <1>8, <1>9, <1>10, <1>11, <1>12, <1>13, <1>14 DEF Step

\* Pages behind a block are free if none of them is the head of another block.
LEMMA NoHeadsNoPages ==
  ASSUME Kept, NEW v \in Vectors, page_num_[v] # NOT_ALLOCATED, NEW n \in Nat,
         current_block_can_be_extended(n, page_num_[v]), NEW q \in Nat,
         page_num_[v] + block_size(page_num_[v]) <= q, q < page_num_[v] + n
  PROVE  IsFree(tracker, q)
<1> DEFINE p == page_num_[v]
           end == p + block_size(p)
<1>1. /\ p \in Nat /\ block_size(p) \in Nat /\ 1 <= block_size(p)
      /\ \A r : Has(v, r) <=> p <= r /\ r < end
  BY VectorFacts
<1>2. p + n < num_pages_ /\ \A r \in end .. p + n - 1 : ~ pages_[r].is_allocated_
  BY DEF current_block_can_be_extended
<1>3. q < num_pages_
  BY <1>1, <1>2, PoolFacts
<1>4. SUFFICES ASSUME NEW w \in Vectors, Has(w, q) PROVE FALSE
  BY <1>3 DEF Kept, Partition
<1> DEFINE h == page_num_[w]
<1>5. h # NOT_ALLOCATED
  BY <1>4 DEF Has
<1>6. /\ h \in Nat /\ pages_[h].is_allocated_ /\ h <= q /\ q < h + block_size(h)
      /\ block_size(h) \in Nat
      /\ \A r : Has(w, r) <=> h <= r /\ r < h + block_size(h)
  BY <1>4, <1>5, VectorFacts
<1>7. w # v
  BY <1>1, <1>4
<1>8. ~ (end <= h)
  <2>1. end <= h => h \in end .. p + n - 1
    BY <1>1, <1>6
  <2> QED
    BY <1>2, <1>6, <2>1
<1> HIDE DEF h, end
<1>9. \E r \in Nat : Has(v, r) /\ Has(w, r)
  <2>1. CASE p <= h
    <3>1. Has(v, h) /\ Has(w, h)
      BY <1>1, <1>6, <1>8, <2>1 DEF end
    <3> QED
      BY <1>6, <3>1
  <2>2. CASE h < p
    <3>1. Has(v, p) /\ Has(w, p)
      BY <1>1, <1>6, <2>2 DEF end
    <3> QED
      BY <1>1, <3>1
  <2> QED
    BY <1>1, <1>6, <2>1, <2>2
<1> QED
  BY <1>7, <1>9 DEF Kept, Partition

\* Growing a block into the free pages behind it is such a step.
LEMMA ExtensionSteps ==
  ASSUME Kept, misread \in BOOLEAN, NEW v \in Vectors, page_num_[v] # NOT_ALLOCATED,
         ~ (size_[v] < block_size(page_num_[v])), NEW n \in Nat, n = 2 * size_[v],
         current_block_can_be_extended(n, page_num_[v]), ExtendedBlock(v, n)
  PROVE  Step(v)
<1> DEFINE p == page_num_[v]
           m == block_size(p)
           end == p + m
<1>1. /\ tracker' = extend_block(tracker, end, n - m)
      /\ pages_' = [pages_ EXCEPT ![p] = [is_allocated_ |-> TRUE, block_size_ |-> n]]
      /\ data_' = [data_ EXCEPT ![p + size_[v]] = v]
      /\ size_' = [size_ EXCEPT ![v] = @ + 1]
      /\ num_pages_' = num_pages_ /\ page_num_' = page_num_ /\ misread' = misread
  BY DEF ExtendedBlock, allocate_page
<1>2. /\ p \in Nat /\ p \in 0 .. DiskPages - 1 /\ m \in Nat /\ 1 <= m
      /\ p + m <= num_pages_ /\ size_[v] \in Nat /\ size_[v] <= m
      /\ \A q : Has(v, q) <=> p <= q /\ q < end
      /\ \A q \in Nat : Filled(v, q) <=> p <= q /\ q < p + size_[v]
  BY VectorFacts
<1>3. /\ num_pages_ \in Nat /\ num_pages_ <= DiskPages /\ DiskPages \in Nat
      /\ Good(tracker, num_pages_) /\ pages_ \in PageTable
  BY PoolFacts
<1>4. /\ data_ \in [0 .. DiskPages - 1 -> Vectors \cup {NOT_ALLOCATED}]
      /\ page_num_ \in [Vectors -> 0 .. DiskPages - 1 \cup {NOT_ALLOCATED}]
      /\ size_ \in [Vectors -> 0 .. DiskPages]
  BY DEF Kept, PoolTypeOK
<1>5. size_[v] = m /\ n = 2 * m /\ p + n < num_pages_
  BY <1>2 DEF current_block_can_be_extended
<1>6. \A q \in Nat : end <= q /\ q < p + n => IsFree(tracker, q)
  BY NoHeadsNoPages
<1>7. ASSUME NEW q \in Nat, Has(v, q) PROVE ~ IsFree(tracker, q)
  BY <1>7 DEF Kept, Partition
<1>8. /\ Good(tracker', num_pages_)
      /\ \A q \in Nat : IsFree(tracker', q) <=>
                          IsFree(tracker, q) /\ ~ (end <= q /\ q < p + n)
  <2>1. end \in Nat /\ 0 < end /\ n - m \in Nat /\ 0 < n - m /\ end + (n - m) = p + n
    BY <1>2, <1>5
  <2>2. ~ IsFree(tracker, end - 1)
    <3>1. end - 1 \in Nat /\ Has(v, end - 1)
      BY <1>2
    <3> QED
      BY <1>7, <3>1
  <2>3. ASSUME NEW q \in Nat PROVE end <= q /\ q < end + (n - m) => IsFree(tracker, q)
    BY <1>6, <2>1
  <2>4. /\ Good(extend_block(tracker, end, n - m), num_pages_)
        /\ \A q \in Nat : IsFree(extend_block(tracker, end, n - m), q) <=>
                            IsFree(tracker, q) /\ ~ (end <= q /\ q < end + (n - m))
    <3> DEFINE by == n - m
    <3>1. by \in Nat /\ 0 < by /\ end \in Nat /\ 0 < end
      BY <2>1
    <3> HIDE DEF by, end
    <3> QED
      BY <1>3, <2>2, <2>3, <3>1, BlockExtended DEF by
  <2> QED
    BY <1>1, <2>1, <2>4
<1>9. /\ pages_' \in PageTable /\ pages_'[p] = [is_allocated_ |-> TRUE, block_size_ |-> n]
      /\ \A q : q # p => pages_'[q] = pages_[q]
  <2>1. [is_allocated_ |-> TRUE, block_size_ |-> n]
          \in [is_allocated_ : BOOLEAN, block_size_ : 0 .. DiskPages]
    BY <1>2, <1>3, <1>5
  <2> DEFINE head == [is_allocated_ |-> TRUE, block_size_ |-> n]
  <2> HIDE DEF p, head
  <2>2. pages_' = [pages_ EXCEPT ![p] = head] /\ p \in 0 .. DiskPages - 1
    BY <1>1, <1>2 DEF head
  <2>3. head \in [is_allocated_ : BOOLEAN, block_size_ : 0 .. DiskPages]
    BY <2>1 DEF head
  <2>4. pages_' \in PageTable
    BY <1>3, <2>2, <2>3 DEF PageTable
  <2>5. pages_'[p] = head /\ \A q : q # p => pages_'[q] = pages_[q]
    BY <1>3, <2>2 DEF PageTable
  <2> QED
    BY <2>4, <2>5 DEF head
<1>10. pages_'[p].is_allocated_ = TRUE /\ block_size(page_num_[v])' = n
  BY <1>1, <1>9 DEF block_size
<1>11. \A q : Has(v, q)' <=> p <= q /\ q < p + n
  BY <1>1, <1>10 DEF Has
<1> DEFINE new == p + size_[v]
<1>12. /\ new \in 0 .. DiskPages - 1 /\ new = end /\ end <= new /\ new < p + n
       /\ size_[v] + 1 \in 0 .. DiskPages /\ size_[v] + 1 <= n
  BY <1>2, <1>3, <1>5
<1>13. /\ data_' \in [0 .. DiskPages - 1 -> Vectors \cup {NOT_ALLOCATED}]
       /\ data_'[new] = v /\ \A q : q # new => data_'[q] = data_[q]
       /\ size_' \in [Vectors -> 0 .. DiskPages]
       /\ size_'[v] = size_[v] + 1
       /\ \A w \in Vectors : w # v => size_'[w] = size_[w]
  <2>1. data_' \in [0 .. DiskPages - 1 -> Vectors \cup {NOT_ALLOCATED}]
    BY <1>1, <1>4, <1>12
  <2>2. data_'[new] = v
    BY <1>1, <1>4, <1>12
  <2>3. \A q : q # new => data_'[q] = data_[q]
    BY <1>1, <1>4, <1>12
  <2>4. /\ size_' \in [Vectors -> 0 .. DiskPages] /\ size_'[v] = size_[v] + 1
        /\ \A w \in Vectors : w # v => size_'[w] = size_[w]
    BY <1>1, <1>4, <1>12
  <2> QED
    BY <2>1, <2>2, <2>3, <2>4
<1>14. ASSUME NEW w \in Vectors, w # v, NEW q \in Nat, Filled(w, q)
       PROVE  data_'[q] = data_[q]
  <2>1. ~ IsFree(tracker, q)
    BY <1>14, OthersAside
  <2>2. q # new
    BY <1>6, <1>12, <2>1
  <2> QED
    BY <1>13, <2>2
<1>15. ASSUME NEW q \in Nat, Filled(v, q)' PROVE data_'[q] = v
  <2>1. p <= q /\ q < p + size_[v] + 1
    <3>1. Has(v, q)' /\ q < page_num_'[v] + size_'[v]
      BY <1>15 DEF Filled
    <3>2. page_num_'[v] = p /\ size_'[v] = size_[v] + 1 /\ p <= q
      BY <1>1, <1>11, <1>13, <3>1
    <3> QED
      BY <1>2, <3>1, <3>2
  <2>2. CASE q = new
    BY <1>13, <2>2
  <2>3. CASE q # new
    <3>1. Filled(v, q)
      BY <1>2, <2>1, <2>3
    <3> QED
      BY <1>13, <2>3, <3>1 DEF Kept, Contents
  <2> QED
    BY <2>2, <2>3
<1>16. ASSUME NEW q \in Nat
       PROVE  /\ Has(v, q)' => Has(v, q) \/ IsFree(tracker, q) \/ num_pages_ <= q
              /\ IsFree(tracker', q) <=>
                   /\ IsFree(tracker, q) \/ Has(v, q) \/ (num_pages_ <= q /\ q < num_pages_')
                   /\ ~ Has(v, q)'
  <2>1. Has(v, q)' <=> Has(v, q) \/ (end <= q /\ q < p + n)
    BY <1>2, <1>5, <1>11
  <2>2. ~ (num_pages_ <= q /\ q < num_pages_')
    BY <1>1, <1>3
  <2> QED
    BY <1>6, <1>7, <1>8, <2>1, <2>2
<1>17. ASSUME NEW w \in Vectors, w # v PROVE page_num_[w] # p
  BY <1>17, HeadsDiffer
<1>18. ASSUME NEW r \in 0 .. DiskPages - 1, pages_'[r].is_allocated_
       PROVE  (pages_[r].is_allocated_ /\ r # p) \/ r = page_num_'[v]
  BY <1>1, <1>9, <1>18
<1>19. num_pages_' \in num_pages_ .. DiskPages
  BY <1>1, <1>3
<1>20. p + n <= num_pages_'
  <2>1. num_pages_' = num_pages_ /\ p + n < num_pages_ /\ p + n \in Nat
    <3>1. num_pages_' = num_pages_
      BY <1>1
    <3>2. p + n < num_pages_ /\ p + n \in Nat
      BY <1>2, <1>5
    <3> QED
      BY <3>1, <3>2
  <2> QED
    BY <1>3, <2>1
<1>21. /\ page_num_'[v] \in Nat /\ pages_'[page_num_'[v]].is_allocated_
       /\ 1 <= block_size(page_num_[v])'
       /\ page_num_'[v] + block_size(page_num_[v])' <= num_pages_'
       /\ size_'[v] <= block_size(page_num_[v])'
  <2>1. page_num_'[v] = p /\ 1 <= n
    BY <1>1, <1>2, <1>5
  <2> HIDE DEF p
  <2> QED
    BY <1>2, <1>10, <1>12, <1>13, <1>20, <2>1
<1>22. /\ Good(tracker', num_pages_') /\ page_num_' = page_num_ /\ misread' \in BOOLEAN
       /\ page_num_' \in [Vectors -> 0 .. DiskPages - 1 \cup {NOT_ALLOCATED}]
  BY <1>1, <1>4, <1>8
<1> HIDE DEF new, end, m, p
<1>23. ASSUME NEW w \in Vectors, w # v
       PROVE  /\ page_num_'[w] = page_num_[w] /\ size_'[w] = size_[w]
              /\ page_num_[w] # NOT_ALLOCATED => pages_'[page_num_[w]] = pages_[page_num_[w]]
              /\ \A q \in Nat : Filled(w, q) => data_'[q] = data_[q]
  BY <1>9, <1>13, <1>14, <1>17, <1>22, <1>23
<1> QED
  BY <1>9, <1>13, <1>15, <1>16, <1>18, <1>19, <1>21, <1>22, <1>23 DEF Step, p

\* The block that is found in the tracker of a pool that may have been doubled.
LEMMA NewBlockFound ==
  ASSUME Kept, NEW n \in Nat, 1 <= n, n <= 2 * num_pages_
  PROVE  LET k == Doublings(n)
             T == ResizedTracker[k]
             new == allocate_block(T, n)
         IN  /\ Doubled(k) \in num_pages_ .. DiskPages /\ Good(T, Doubled(k))
             /\ \A q \in Nat : IsFree(T, q) <=>
                  IsFree(tracker, q) \/ (num_pages_ <= q /\ q < Doubled(k))
             /\ Fits(k, n) =>
                  /\ new.begin \in Nat /\ new.begin + n <= Doubled(k)
                  /\ Good(new.tracker, Doubled(k))
                  /\ \A q \in Nat : new.begin <= q /\ q < new.begin + n =>
                       IsFree(tracker, q) \/ num_pages_ <= q
                  /\ \A q \in Nat : IsFree(new.tracker, q) <=>
                       /\ IsFree(tracker, q) \/ (num_pages_ <= q /\ q < Doubled(k))
                       /\ ~ (new.begin <= q /\ q < new.begin + n)
<1> DEFINE k == Doublings(n)
           T == ResizedTracker[k]
           N == Doubled(k)
           new == allocate_block(T, n)
           i == find_free_block(T, n)
           b == T.free_blocks_[i].begin_
           e == T.free_blocks_[i].end_
<1>1. /\ num_pages_ \in Nat /\ 0 < num_pages_ /\ num_pages_ <= DiskPages
      /\ DiskPages \in Nat /\ Good(tracker, num_pages_)
  BY PoolFacts
<1>2. k \in 0 .. 2 /\ N <= DiskPages
  BY <1>1, DoublingsFound
<1> HIDE DEF k
<1>3. /\ N \in Nat /\ num_pages_ <= N /\ Good(T, N)
      /\ \A q \in Nat : IsFree(T, q) <=>
           IsFree(tracker, q) \/ (num_pages_ <= q /\ q < N)
  BY <1>1, <1>2, TrackersGrow
<1> HIDE DEF N
<1>4. new.begin = b /\ new.tracker = TakeFront(T, i, n) /\ (Fits(k, n) <=> i # 0)
  BY DEF allocate_block, Fits
<1> HIDE DEF T, new
<1>5. ASSUME i # 0
      PROVE  /\ b \in Nat /\ b + n <= N
             /\ Good(TakeFront(T, i, n), N)
             /\ \A q \in Nat : b <= q /\ q < b + n => IsFree(tracker, q) \/ num_pages_ <= q
             /\ \A q \in Nat : IsFree(TakeFront(T, i, n), q) <=>
                  /\ IsFree(tracker, q) \/ (num_pages_ <= q /\ q < N)
                  /\ ~ (b <= q /\ q < b + n)
  <2>1. i \in 1 .. Len(T.free_blocks_) /\ e - b >= n
    BY <1>2, <1>3, <1>5, FreeBlockFound
  <2> HIDE DEF i
  <2>2. b \in Nat /\ e \in Nat /\ e <= N
    BY <1>3, <2>1, BlockFields DEF Good, Listed
  <2>3. ASSUME NEW q \in Nat, b <= q, q < b + n PROVE IsFree(T, q)
    <3>1. Within(q, T.free_blocks_[i])
      BY <2>1, <2>2, <2>3 DEF Within
    <3> QED
      BY <2>1, <3>1 DEF IsFree, Held
  <2>4. n <= e - b
    BY <2>1, <2>2
  <2>5. /\ Good(TakeFront(T, i, n), N)
        /\ \A q \in Nat : IsFree(TakeFront(T, i, n), q) <=>
                            IsFree(T, q) /\ ~ (b <= q /\ q < b + n)
    BY <1>2, <1>3, <2>1, <2>4, FrontIsTaken
  <2>6. b + n <= N
    BY <1>3, <2>2, <2>4
  <2> QED
    BY <1>3, <2>2, <2>3, <2>5, <2>6
<1>6. N \in num_pages_ .. DiskPages
  BY <1>1, <1>2, <1>3
<1> QED
  BY <1>3, <1>4, <1>5, <1>6 DEF k, N, T, new

\* Taking a new block, copying the elements and giving the old block back is such a
\* step.
LEMMA NewBlockSteps ==
  ASSUME Kept, misread \in BOOLEAN, misread' = FALSE, NEW v \in Vectors,
         NEW n \in Nat, 1 <= n, n <= 2 * num_pages_,
         \/ page_num_[v] = NOT_ALLOCATED
         \/ size_[v] = block_size(page_num_[v]) /\ n = 2 * size_[v],
         NewBlock(v, n)
  PROVE  Step(v)
<1> DEFINE k == Doublings(n)
           N == Doubled(k)
           T == ResizedTracker[k]
           new == allocate_block(T, n)
           b == new.begin
           old == page_num_[v]
           head == [is_allocated_ |-> TRUE, block_size_ |-> n]
<1>1. /\ num_pages_ \in Nat /\ 0 < num_pages_ /\ num_pages_ <= DiskPages
      /\ DiskPages \in Nat /\ Good(tracker, num_pages_) /\ pages_ \in PageTable
  BY PoolFacts
<1>2. /\ data_ \in [0 .. DiskPages - 1 -> Vectors \cup {NOT_ALLOCATED}]
      /\ page_num_ \in [Vectors -> 0 .. DiskPages - 1 \cup {NOT_ALLOCATED}]
      /\ size_ \in [Vectors -> 0 .. DiskPages]
  BY DEF Kept, PoolTypeOK
<1>3. /\ N \in num_pages_ .. DiskPages /\ Good(T, N)
      /\ \A q \in Nat : IsFree(T, q) <=>
           IsFree(tracker, q) \/ (num_pages_ <= q /\ q < N)
      /\ Fits(k, n) =>
           /\ b \in Nat /\ b + n <= N
           /\ Good(new.tracker, N)
           /\ \A q \in Nat : b <= q /\ q < b + n => IsFree(tracker, q) \/ num_pages_ <= q
           /\ \A q \in Nat : IsFree(new.tracker, q) <=>
                /\ IsFree(tracker, q) \/ (num_pages_ <= q /\ q < N)
                /\ ~ (b <= q /\ q < b + n)
  BY NewBlockFound
<1>4. /\ num_pages_' = N
      /\ ~ Fits(k, n) =>
           /\ tracker' = T
           /\ pages_' = pages_ /\ data_' = data_ /\ page_num_' = page_num_
           /\ size_' = size_ /\ misread' = misread
      /\ Fits(k, n) =>
           /\ page_num_' = [page_num_ EXCEPT ![v] = b]
           /\ old = NOT_ALLOCATED =>
                /\ tracker' = new.tracker /\ pages_' = [pages_ EXCEPT ![b] = head]
                /\ data_' = data_ /\ size_' = size_ /\ misread' = misread
           /\ old # NOT_ALLOCATED =>
                /\ Free(new.tracker, old, old + block_size(old))
                /\ pages_' = [[pages_ EXCEPT ![b] = head] EXCEPT ![old] = Page]
                /\ size_' = [size_ EXCEPT ![v] = @ + 1]
                /\ data_' = move_data_to_new_block(v, b)
  BY DEF NewBlock, allocate_page
<1> HIDE DEF k, N, T, new, b
<1>5. ASSUME NEW q \in Nat, Has(v, q) PROVE ~ IsFree(tracker, q)
  BY <1>5 DEF Kept, Partition
<1>6. ASSUME NEW q \in Nat, Filled(v, q) PROVE data_[q] = v
  BY <1>6 DEF Kept, Contents
<1>7. ASSUME NEW q \in Nat, Has(v, q) PROVE q < num_pages_
  <2>1. old # NOT_ALLOCATED
    BY <1>7 DEF Has
  <2>2. /\ old \in Nat /\ block_size(old) \in Nat /\ old + block_size(old) <= num_pages_
        /\ q < old + block_size(old)
    BY <1>7, <2>1, VectorFacts
  <2> QED
    BY <1>1, <2>2
<1>8. N \in Nat /\ num_pages_' \in num_pages_ .. DiskPages
  BY <1>1, <1>3, <1>4
<1>9. CASE ~ Fits(k, n)
  <2>1. /\ tracker' = T /\ pages_' = pages_ /\ data_' = data_ /\ page_num_' = page_num_
        /\ size_' = size_ /\ misread' = misread
    BY <1>4, <1>9
  <2>2. block_size(old)' = block_size(old) /\ page_num_'[v] = old
    BY <2>1 DEF block_size
  <2>3. \A q : (Has(v, q)' <=> Has(v, q)) /\ (Filled(v, q)' <=> Filled(v, q))
    BY <2>1, <2>2 DEF Has, Filled
  <2>4. \/ page_num_'[v] = NOT_ALLOCATED /\ size_'[v] = 0
        \/ /\ page_num_'[v] \in Nat /\ pages_'[page_num_'[v]].is_allocated_
           /\ 1 <= block_size(page_num_[v])'
           /\ page_num_'[v] + block_size(page_num_[v])' <= num_pages_'
           /\ size_'[v] <= block_size(page_num_[v])'
    <3>1. CASE old = NOT_ALLOCATED
      <4>1. old \notin Nat
        BY <3>1, PoolAssumption
      <4> QED
        BY <2>1, <3>1, <4>1 DEF Kept, Blocks
    <3>2. CASE old # NOT_ALLOCATED
      <4>1. /\ old \in Nat /\ pages_[old].is_allocated_ /\ 1 <= block_size(old)
            /\ block_size(old) \in Nat /\ old + block_size(old) <= num_pages_
            /\ size_[v] <= block_size(old)
        BY <3>2, VectorFacts
      <4>2. old + block_size(old) <= num_pages_'
        BY <1>1, <1>8, <4>1
      <4> QED
        BY <2>1, <2>2, <4>1, <4>2
    <3> QED
      BY <3>1, <3>2
  <2>5. ASSUME NEW q \in Nat
        PROVE  /\ Has(v, q)' => Has(v, q) \/ IsFree(tracker, q) \/ num_pages_ <= q
               /\ IsFree(tracker', q) <=>
                    /\ IsFree(tracker, q) \/ Has(v, q) \/ (num_pages_ <= q /\ q < num_pages_')
                    /\ ~ Has(v, q)'
               /\ Filled(v, q)' => data_'[q] = v
    <3>1. ~ (Has(v, q) /\ num_pages_ <= q)
      BY <1>1, <1>7
    <3> QED
      BY <1>3, <1>4, <1>5, <1>6, <2>1, <2>3, <3>1
  <2>6. ASSUME NEW r \in 0 .. DiskPages - 1, pages_'[r].is_allocated_
        PROVE  (pages_[r].is_allocated_ /\ r # page_num_[v]) \/ r = page_num_'[v]
    BY <2>1, <2>6
  <2>7. Good(tracker', num_pages_')
    BY <1>3, <1>4, <2>1
  <2> QED
    BY <1>1, <1>2, <1>8, <2>1, <2>4, <2>5, <2>6, <2>7 DEF Step
<1>10. CASE Fits(k, n)
  <2>1. /\ b \in Nat /\ b + n <= N /\ Good(new.tracker, N)
        /\ \A q \in Nat : b <= q /\ q < b + n => IsFree(tracker, q) \/ num_pages_ <= q
        /\ \A q \in Nat : IsFree(new.tracker, q) <=>
             /\ IsFree(tracker, q) \/ (num_pages_ <= q /\ q < N)
             /\ ~ (b <= q /\ q < b + n)
    BY <1>3, <1>10
  <2>2. b \in 0 .. DiskPages - 1 /\ n \in 0 .. DiskPages
    BY <1>1, <1>3, <2>1
  <2>3. /\ page_num_' = [page_num_ EXCEPT ![v] = b]
        /\ page_num_' \in [Vectors -> 0 .. DiskPages - 1 \cup {NOT_ALLOCATED}]
        /\ page_num_'[v] = b
        /\ \A w \in Vectors : w # v => page_num_'[w] = page_num_[w]
    <3>1. page_num_' = [page_num_ EXCEPT ![v] = b]
      BY <1>4, <1>10
    <3> QED
      BY <1>2, <2>2, <3>1
  \* The new block is nobody's.
  <2>4. ASSUME NEW w \in Vectors, NEW q \in Nat, Has(w, q), b <= q PROVE ~ (q < b + n)
    <3>1. SUFFICES ASSUME q < b + n PROVE FALSE
      OBVIOUS
    <3>2. IsFree(tracker, q) \/ num_pages_ <= q
      BY <2>1, <2>4, <3>1
    <3>3. ~ IsFree(tracker, q)
      BY <2>4 DEF Kept, Partition
    <3>4. page_num_[w] # NOT_ALLOCATED
      BY <2>4 DEF Has
    <3>5. /\ page_num_[w] \in Nat /\ block_size(page_num_[w]) \in Nat
          /\ page_num_[w] + block_size(page_num_[w]) <= num_pages_
          /\ q < page_num_[w] + block_size(page_num_[w])
      BY <2>4, <3>4, VectorFacts
    <3> QED
      BY <1>1, <3>2, <3>3, <3>5
  <2>5. ASSUME NEW w \in Vectors, page_num_[w] # NOT_ALLOCATED PROVE page_num_[w] # b
    <3>1. page_num_[w] \in Nat /\ Has(w, page_num_[w])
      <4>1. /\ page_num_[w] \in Nat /\ 1 <= block_size(page_num_[w])
            /\ block_size(page_num_[w]) \in Nat
        BY <2>5, VectorFacts
      <4> QED
        BY <2>5, <4>1 DEF Has
    <3>2. b <= b /\ b < b + n
      BY <2>1
    <3> QED
      BY <2>4, <3>1, <3>2
  <2>6. ASSUME pages_' \in PageTable, pages_'[b] = head,
               Good(tracker', N),
               \A q \in Nat : IsFree(tracker', q) <=>
                 IsFree(new.tracker, q) \/ Has(v, q),
               data_' \in [0 .. DiskPages - 1 -> Vectors \cup {NOT_ALLOCATED}],
               size_' \in [Vectors -> 0 .. DiskPages],
               size_'[v] <= n,
               \A w \in Vectors : w # v => size_'[w] = size_[w],
               \A w \in Vectors : w # v /\ page_num_[w] # NOT_ALLOCATED =>
                 pages_'[page_num_[w]] = pages_[page_num_[w]],
               \A q \in 0 .. DiskPages - 1 : pages_'[q].is_allocated_ =>
                 (pages_[q].is_allocated_ /\ q # old) \/ q = b,
               \A q \in 0 .. DiskPages - 1 : ~ (b <= q /\ q < b + n) => data_'[q] = data_[q],
               \A q \in Nat : b <= q /\ q < b + size_'[v] => data_'[q] = v
        PROVE  Step(v)
    <3>1. /\ pages_'[b].is_allocated_ = TRUE /\ pages_'[page_num_'[v]].is_allocated_ = TRUE
          /\ block_size(page_num_[v])' = n
      BY <2>3, <2>6 DEF block_size
    <3>2. \A q : Has(v, q)' <=> b <= q /\ q < b + n
      <4>1. page_num_'[v] # NOT_ALLOCATED
        BY <2>1, <2>3, PoolAssumption
      <4> QED
        BY <2>3, <3>1, <4>1 DEF Has
    <3>3. \A q : Filled(v, q)' => b <= q /\ q < b + size_'[v]
      BY <2>3, <3>2 DEF Filled
    <3>4. ASSUME NEW q \in Nat
          PROVE  /\ Has(v, q)' => Has(v, q) \/ IsFree(tracker, q) \/ num_pages_ <= q
                 /\ IsFree(tracker', q) <=>
                      /\ IsFree(tracker, q) \/ Has(v, q)
                         \/ (num_pages_ <= q /\ q < num_pages_')
                      /\ ~ Has(v, q)'
                 /\ Filled(v, q)' => data_'[q] = v
      <4>1. Has(v, q) => ~ (b <= q /\ q < b + n)
        BY <2>4
      <4>2. Has(v, q)' <=> b <= q /\ q < b + n
        BY <3>2
      <4>3. IsFree(tracker', q) <=> IsFree(new.tracker, q) \/ Has(v, q)
        BY <2>6
      <4>4. IsFree(new.tracker, q) <=>
              /\ IsFree(tracker, q) \/ (num_pages_ <= q /\ q < num_pages_')
              /\ ~ (b <= q /\ q < b + n)
        BY <1>4, <2>1
      <4>5. b <= q /\ q < b + n => IsFree(tracker, q) \/ num_pages_ <= q
        BY <2>1
      <4>6. Filled(v, q)' => data_'[q] = v
        BY <2>6, <3>3
      <4> QED
        BY <4>1, <4>2, <4>3, <4>4, <4>5, <4>6
    <3>5. ASSUME NEW w \in Vectors, w # v, NEW q \in Nat, Filled(w, q)
          PROVE  data_'[q] = data_[q]
      <4>1. Has(w, q)
        BY <3>5 DEF Filled
      <4>2. ~ (b <= q /\ q < b + n)
        BY <2>4, <4>1
      <4>3. q \in 0 .. DiskPages - 1
        BY <1>1, <3>5, OthersAside
      <4> QED
        BY <2>6, <4>2, <4>3
    <3>6. ASSUME NEW w \in Vectors, w # v
          PROVE  /\ page_num_'[w] = page_num_[w] /\ size_'[w] = size_[w]
                 /\ page_num_[w] # NOT_ALLOCATED =>
                      pages_'[page_num_[w]] = pages_[page_num_[w]]
                 /\ \A q \in Nat : Filled(w, q) => data_'[q] = data_[q]
      BY <2>3, <2>6, <3>5, <3>6
    <3>7. /\ page_num_'[v] \in Nat /\ pages_'[page_num_'[v]].is_allocated_
          /\ 1 <= block_size(page_num_[v])'
          /\ page_num_'[v] + block_size(page_num_[v])' <= num_pages_'
          /\ size_'[v] <= block_size(page_num_[v])'
      BY <1>4, <2>1, <2>3, <2>6, <3>1
    <3>8. ASSUME NEW q \in 0 .. DiskPages - 1, pages_'[q].is_allocated_
          PROVE  (pages_[q].is_allocated_ /\ q # page_num_[v]) \/ q = page_num_'[v]
      BY <2>3, <2>6, <3>8
    <3>9. Good(tracker', num_pages_') /\ misread' \in BOOLEAN
      BY <1>4, <2>6
    <3> QED
      BY <1>8, <2>3, <2>6, <3>4, <3>6, <3>7, <3>8, <3>9 DEF Step
  <2>7. /\ head \in [is_allocated_ : BOOLEAN, block_size_ : 0 .. DiskPages]
        /\ Page \in [is_allocated_ : BOOLEAN, block_size_ : 0 .. DiskPages]
        /\ Page.is_allocated_ = FALSE
    BY <1>1, <2>2 DEF Page
  <2> DEFINE pages == [pages_ EXCEPT ![b] = head]
  <2>8. /\ pages \in PageTable /\ pages[b] = head
        /\ \A q : q # b => pages[q] = pages_[q]
    <3> HIDE DEF head
    <3> QED
      BY <1>1, <2>2, <2>7 DEF PageTable
  <2> HIDE DEF pages, head
  <2>9. CASE old = NOT_ALLOCATED
    <3>1. /\ tracker' = new.tracker /\ pages_' = pages /\ data_' = data_ /\ size_' = size_
      BY <1>4, <1>10, <2>9 DEF pages
    <3>2. \A q : ~ Has(v, q)
      BY <2>9 DEF Has
    <3>3. size_'[v] = 0
      <4>1. old \notin Nat
        BY <2>9, PoolAssumption
      <4> QED
        BY <3>1, <4>1 DEF Kept, Blocks
    <3>4. \A q \in Nat : ~ (b <= q /\ q < b + size_'[v])
      BY <2>1, <3>3
    <3>5. size_'[v] <= n
      BY <3>3
    <3>6. \A q \in 0 .. DiskPages - 1 : pages_'[q].is_allocated_ =>
            (pages_[q].is_allocated_ /\ q # old) \/ q = b
      <4>1. \A q \in 0 .. DiskPages - 1 : q # old
        BY <2>9, PoolAssumption
      <4> QED
        BY <2>8, <3>1, <4>1
    <3>7. /\ pages_' \in PageTable /\ pages_'[b] = head
          /\ \A w \in Vectors : w # v /\ page_num_[w] # NOT_ALLOCATED =>
               pages_'[page_num_[w]] = pages_[page_num_[w]]
      BY <2>5, <2>8, <3>1
    <3> QED
      BY <1>2, <2>1, <2>6, <3>1, <3>2, <3>4, <3>5, <3>6, <3>7
  <2>10. CASE old # NOT_ALLOCATED
    <3> DEFINE m == block_size(old)
    <3>1. /\ Free(new.tracker, old, old + m)
          /\ pages_' = [pages EXCEPT ![old] = Page]
          /\ size_' = [size_ EXCEPT ![v] = @ + 1]
          /\ data_' = move_data_to_new_block(v, b)
      BY <1>4, <1>10, <2>10 DEF pages
    <3>2. /\ old \in Nat /\ old \in 0 .. DiskPages - 1 /\ m \in Nat /\ 1 <= m
          /\ old + m <= num_pages_ /\ size_[v] = m /\ n = 2 * m
          /\ \A q : Has(v, q) <=> old <= q /\ q < old + m
          /\ \A q \in Nat : Filled(v, q) <=> old <= q /\ q < old + size_[v]
      BY <2>10, VectorFacts
    <3>3. old # b
      BY <2>5, <2>10
    <3> HIDE DEF m, old
    <3>4. /\ pages_' \in PageTable /\ pages_'[b] = head /\ pages_'[old] = Page
          /\ \A q : q # b /\ q # old => pages_'[q] = pages_[q]
      <4>1. pages_' \in PageTable /\ pages_'[old] = Page
        BY <2>7, <2>8, <3>1, <3>2 DEF PageTable
      <4>2. \A q : q # old => pages_'[q] = pages[q]
        BY <2>8, <3>1, <3>2 DEF PageTable
      <4> QED
        BY <2>8, <3>3, <4>1, <4>2
    <3>5. /\ Good(tracker', N)
          /\ \A q \in Nat : IsFree(tracker', q) <=> IsFree(new.tracker, q) \/ Has(v, q)
      <4>1. \A q \in Nat : old <= q /\ q < old + m => ~ IsFree(new.tracker, q)
        <5> SUFFICES ASSUME NEW q \in Nat, old <= q, q < old + m PROVE ~ IsFree(new.tracker, q)
          OBVIOUS
        <5>1. Has(v, q) /\ ~ IsFree(tracker, q) /\ q < num_pages_
          BY <1>5, <1>7, <3>2
        <5> QED
          BY <1>1, <2>1, <5>1
      <4>2. old + m \in Nat /\ old < old + m /\ old + m <= N
        BY <1>1, <1>3, <1>8, <3>2
      <4>3. /\ Good(tracker', N)
            /\ \A q \in Nat : IsFree(tracker', q) <=>
                                IsFree(new.tracker, q) \/ (old <= q /\ q < old + m)
        BY <1>8, <2>1, <3>1, <3>2, <4>1, <4>2, FreeFrees
      <4> QED
        BY <3>2, <4>3
    <3>6. /\ size_' \in [Vectors -> 0 .. DiskPages] /\ size_'[v] = size_[v] + 1
          /\ \A w \in Vectors : w # v => size_'[w] = size_[w]
      <4>1. size_[v] + 1 \in 0 .. DiskPages
        BY <1>1, <2>2, <3>2
      <4> QED
        BY <1>2, <3>1, <4>1
    <3>7. size_'[v] <= n
      BY <3>2, <3>6
    <3>8. ASSUME NEW q \in 0 .. DiskPages - 1, pages_'[q].is_allocated_
          PROVE  (pages_[q].is_allocated_ /\ q # old) \/ q = b
      BY <2>7, <3>4, <3>8
    <3>9. ASSUME NEW w \in Vectors, w # v, page_num_[w] # NOT_ALLOCATED
          PROVE  pages_'[page_num_[w]] = pages_[page_num_[w]]
      <4>1. page_num_[w] # old
        BY <2>10, <3>9, HeadsDiffer DEF old
      <4> QED
        BY <2>5, <3>4, <3>9, <4>1
    <3>10. data_' = [q \in 0 .. DiskPages - 1 |->
                       IF q \in b .. b + size_[v] - 1 THEN data_[old + (q - b)]
                       ELSE IF q = b + size_[v] THEN v ELSE data_[q]]
      BY <1>2, <3>1 DEF move_data_to_new_block, old
    <3>11. ASSUME NEW q \in 0 .. DiskPages - 1, b <= q, q < b + size_[v]
           PROVE  data_[old + (q - b)] = v
      <4>1. old + (q - b) \in Nat /\ old <= old + (q - b) /\ old + (q - b) < old + size_[v]
        BY <2>1, <3>2, <3>11
      <4> QED
        BY <1>6, <3>2, <4>1
    <3>12. data_' \in [0 .. DiskPages - 1 -> Vectors \cup {NOT_ALLOCATED}]
      <4>1. ASSUME NEW q \in 0 .. DiskPages - 1
            PROVE  (IF q \in b .. b + size_[v] - 1 THEN data_[old + (q - b)]
                    ELSE IF q = b + size_[v] THEN v ELSE data_[q])
                      \in Vectors \cup {NOT_ALLOCATED}
        <5>1. q \in b .. b + size_[v] - 1 => data_[old + (q - b)] = v
          BY <2>1, <3>2, <3>11
        <5> QED
          BY <1>2, <5>1
      <4> QED
        BY <3>10, <4>1
    <3>13. ASSUME NEW q \in 0 .. DiskPages - 1, ~ (b <= q /\ q < b + n)
           PROVE  data_'[q] = data_[q]
      <4>1. q \notin b .. b + size_[v] - 1 /\ q # b + size_[v]
        BY <2>1, <3>2, <3>13
      <4> QED
        BY <3>10, <4>1
    <3>14. ASSUME NEW q \in Nat, b <= q, q < b + size_'[v] PROVE data_'[q] = v
      <4>1. q \in 0 .. DiskPages - 1
        BY <1>1, <1>3, <2>1, <3>2, <3>6, <3>14
      <4>2. CASE q = b + size_[v]
        <5>1. q \notin b .. b + size_[v] - 1
          BY <2>1, <3>2, <4>2
        <5> QED
          BY <3>10, <4>1, <4>2, <5>1
      <4>3. CASE q # b + size_[v]
        <5>1. q < b + size_[v] /\ q \in b .. b + size_[v] - 1
          BY <2>1, <3>2, <3>6, <3>14, <4>3
        <5> QED
          BY <3>10, <3>11, <3>14, <4>1, <5>1
      <4> QED
        BY <4>2, <4>3
    <3> QED
      BY <2>6, <3>4, <3>5, <3>6, <3>7, <3>8, <3>9, <3>12, <3>13, <3>14
  <2> QED
    BY <2>9, <2>10
<1> QED
  BY <1>9, <1>10

-----------------------------------------------------------------------------
(* The theorems *)

\* A new pool satisfies the invariant.
LEMMA EmptyPool == PoolInit => Inv
<1> SUFFICES ASSUME PoolInit PROVE Inv
  OBVIOUS
<1>1. /\ num_pages_ = InitialPages
      /\ tracker = increase_pool_size(EmptyTracker, 0, InitialPages)
      /\ pages_ = [p \in 0 .. DiskPages - 1 |-> Page]
      /\ data_ = [p \in 0 .. DiskPages - 1 |-> NOT_ALLOCATED]
      /\ page_num_ = [v \in Vectors |-> NOT_ALLOCATED]
      /\ size_ = [v \in Vectors |-> 0] /\ misread = FALSE
  BY DEF PoolInit
<1>2. /\ InitialPages \in Nat /\ 0 < InitialPages /\ DiskPages \in Nat
      /\ InitialPages <= DiskPages
  BY PoolAssumption
<1>3. Good(EmptyTracker, 0) /\ \A q \in Nat : ~ IsFree(EmptyTracker, q)
  <2>1. EmptyTracker.free_blocks_ = <<>> /\ EmptyTracker \in Trackers
    BY DEF EmptyTracker, Trackers
  <2>2. Len(<<>>) = 0
    OBVIOUS
  <2>3. <<>> \in Seq(FreeBlock) /\ Listed(<<>>, 0) /\ \A q \in Nat : ~ Held(<<>>, q)
    BY <2>2 DEF Listed, Held
  <2> QED
    BY <2>1, <2>3 DEF Good, IsFree
<1>4. /\ Good(tracker, num_pages_)
      /\ \A q \in Nat : IsFree(tracker, q) <=> q < num_pages_
  <2>1. /\ Good(tracker, InitialPages)
        /\ \A q \in Nat : IsFree(tracker, q) <=>
                            IsFree(EmptyTracker, q) \/ (0 <= q /\ q < InitialPages)
    BY <1>1, <1>2, <1>3, PoolGrows
  <2> QED
    BY <1>1, <1>2, <1>3, <2>1
<1>5. PoolTypeOK
  <2>1. Page \in [is_allocated_ : BOOLEAN, block_size_ : 0 .. DiskPages] /\ 0 \in 0 .. DiskPages
    BY <1>2 DEF Page
  <2> HIDE DEF Page
  <2>2. num_pages_ \in InitialPages .. DiskPages
    BY <1>1, <1>2
  <2>3. pages_ \in [0 .. DiskPages - 1 -> [is_allocated_ : BOOLEAN, block_size_ : 0 .. DiskPages]]
    BY <1>1, <2>1
  <2>4. data_ \in [0 .. DiskPages - 1 -> Vectors \cup {NOT_ALLOCATED}]
    BY <1>1
  <2>5. page_num_ \in [Vectors -> 0 .. DiskPages - 1 \cup {NOT_ALLOCATED}]
    BY <1>1
  <2>6. size_ \in [Vectors -> 0 .. DiskPages]
    BY <1>1, <2>1
  <2>7. misread \in BOOLEAN
    BY <1>1, Zenon
  <2> QED
    BY <2>2, <2>3, <2>4, <2>5, <2>6, <2>7 DEF PoolTypeOK
<1>6. \A v \in Vectors : page_num_[v] = NOT_ALLOCATED /\ size_[v] = 0
  BY <1>1
<1>7. \A v \in Vectors, q \in Nat : ~ Has(v, q) /\ ~ Filled(v, q)
  BY <1>6 DEF Has, Filled
<1>8. Blocks /\ Partition /\ Contents
  BY <1>4, <1>6, <1>7 DEF Blocks, Partition, Contents
<1>9. HeadsOnly
  BY <1>1 DEF HeadsOnly, Page
<1> QED
  BY <1>1, <1>4, <1>5, <1>8, <1>9 DEF Inv, Kept

\* A slot that was misread once stays misread.
LEMMA MisreadStays ==
  ASSUME misread \in BOOLEAN, PoolNext
  PROVE  misread' \in BOOLEAN /\ (misread => misread')
<1>1. ASSUME NEW t, NEW b, NEW e, Free(t, b, e)
      PROVE  misread' \in BOOLEAN /\ (misread => misread')
  BY <1>1 DEF Free
<1>2. ASSUME NEW v, NEW n, NewBlock(v, n)
      PROVE  misread' \in BOOLEAN /\ (misread => misread')
  BY <1>1, <1>2 DEF NewBlock
<1>3. PICK v \in Vectors : Create(v) \/ PushBack(v) \/ Destroy(v)
  BY DEF PoolNext
<1>4. CASE Create(v)
  BY <1>2, <1>4 DEF Create
<1>5. CASE PushBack(v)
  BY <1>2, <1>5 DEF PushBack, ExtendedBlock
<1>6. CASE Destroy(v)
  BY <1>1, <1>6 DEF Destroy
<1> QED
  BY <1>3, <1>4, <1>5, <1>6

\* Every operation of a vector is such a step, as long as no freed page is read for
\* the size of a block.
LEMMA OperationsStep ==
  ASSUME Kept, misread \in BOOLEAN, misread' = FALSE, NEW v \in Vectors,
         Create(v) \/ PushBack(v) \/ Destroy(v)
  PROVE  Step(v)
<1> DEFINE p == page_num_[v]
           n == 2 * size_[v]
<1>1. num_pages_ \in Nat /\ 0 < num_pages_
  BY PoolFacts
<1>2. CASE Create(v)
  <2>1. p = NOT_ALLOCATED /\ NewBlock(v, 1)
    BY <1>2 DEF Create
  <2>2. 1 \in Nat /\ 1 <= 1 /\ 1 <= 2 * num_pages_
    BY <1>1
  <2> QED
    BY <2>1, <2>2, NewBlockSteps
<1>3. CASE Destroy(v)
  BY <1>3, DestroySteps
<1>4. CASE PushBack(v)
  <2>1. p # NOT_ALLOCATED
    BY <1>4 DEF PushBack
  <2>2. /\ p \in Nat /\ block_size(p) \in Nat /\ 1 <= block_size(p)
        /\ p + block_size(p) <= num_pages_
        /\ size_[v] \in Nat /\ size_[v] <= block_size(p)
    BY <2>1, VectorFacts
  <2>3. CASE size_[v] < block_size(p)
    <3>1. Fill(v)
      BY <1>4, <2>3 DEF PushBack, Fill
    <3> QED
      BY <3>1, FillSteps
  <2>4. CASE ~ (size_[v] < block_size(p)) /\ current_block_can_be_extended(n, p)
    <3>1. ExtendedBlock(v, n)
      BY <1>4, <2>4 DEF PushBack
    <3>2. n \in Nat
      BY <2>2
    <3> QED
      BY <2>1, <2>4, <3>1, <3>2, ExtensionSteps
  <2>5. CASE ~ (size_[v] < block_size(p)) /\ ~ current_block_can_be_extended(n, p)
    <3>1. NewBlock(v, n)
      BY <1>4, <2>5 DEF PushBack
    <3>2. n \in Nat /\ 1 <= n /\ n <= 2 * num_pages_ /\ size_[v] = block_size(p)
      BY <1>1, <2>2, <2>5
    <3> QED
      BY <3>1, <3>2, NewBlockSteps
  <2> QED
    BY <2>3, <2>4, <2>5
<1> QED
  BY <1>2, <1>3, <1>4

\* The list of free blocks, the marks on the pages, the vectors and what is in
\* them agree after every operation, until the slot behind the list is misread.
THEOREM PoolInvariant == PoolSpec => []Inv
<1>1. PoolInit => Inv
  BY EmptyPool
<1>2. Inv /\ [PoolNext]_poolVars => Inv'
  <2> SUFFICES ASSUME Inv, [PoolNext]_poolVars PROVE Inv'
    OBVIOUS
  <2>1. CASE UNCHANGED poolVars
    BY <2>1 DEF poolVars, Inv, Kept, PoolTypeOK, Blocks, HeadsOnly, Partition, Contents, Has, Filled,
                block_size
  <2>2. CASE PoolNext
    <3>1. misread' \in BOOLEAN /\ (misread => misread')
      BY <2>2, MisreadStays DEF Inv
    <3>2. CASE misread'
      BY <3>1, <3>2 DEF Inv
    <3>3. CASE ~ misread'
      <4>1. Kept /\ misread \in BOOLEAN /\ misread' = FALSE
        BY <3>1, <3>3 DEF Inv
      <4>2. PICK v \in Vectors : Create(v) \/ PushBack(v) \/ Destroy(v)
        BY <2>2 DEF PoolNext
      <4>3. Step(v)
        BY <4>1, <4>2, OperationsStep
      <4>4. Kept'
        BY <4>1, <4>3, StepKeeps
      <4> QED
        BY <3>1, <4>4 DEF Inv
    <3> QED
      BY <3>2, <3>3
  <2> QED
    BY <2>1, <2>2
<1> QED
  BY <1>1, <1>2, PTL DEF PoolSpec

\* As long as the slot past the end of the list has not been taken for a block,
\* the variables have the types the code gives them; in particular a pool that
\* is doubled keeps within the disk.
THEOREM TypeCorrect == PoolSpec => [](misread \/ PoolTypeOK)
<1>1. Inv => misread \/ PoolTypeOK
  BY DEF Inv, Kept
<1> QED
  BY <1>1, PoolInvariant, PTL

\* The list of free blocks stays sorted and merged, whatever is allocated,
\* extended and given back, in which order, on a pool and a disk of any size.
THEOREM FreeBlocksStaySorted == PoolSpec => []FreeBlocksAreSorted
<1>1. Inv => FreeBlocksAreSorted
  <2> SUFFICES ASSUME Kept PROVE SortedAndMaximal
    BY DEF Inv, FreeBlocksAreSorted
  <2> DEFINE s == tracker.free_blocks_
  <2>1. Listed(s, num_pages_)
    BY PoolFacts DEF Good
  <2> HIDE DEF s
  <2>2. /\ s \in Seq(FreeBlock) /\ Len(s) \in Nat /\ DOMAIN s = 1 .. Len(s)
        /\ \A i \in 1 .. Len(s) : s[i].begin_ < s[i].end_
        /\ \A i, j \in 1 .. Len(s) : i < j => s[i].end_ < s[j].begin_
    BY <2>1 DEF Listed
  <2>3. ASSUME NEW i \in 2 .. Len(s) PROVE s[i].begin_ > s[i - 1].end_
    <3>1. i \in 1 .. Len(s) /\ i - 1 \in 1 .. Len(s) /\ i - 1 < i
      BY <2>2
    <3>2. s[i - 1].end_ < s[i].begin_
      BY <2>2, <3>1
    <3>3. s[i - 1].end_ \in Nat /\ s[i].begin_ \in Nat
      BY <2>2, <3>1, BlockFields
    <3> QED
      BY <3>2, <3>3
  <2> QED
    BY <2>2, <2>3 DEF SortedAndMaximal, s
<1> QED
  BY <1>1, PoolInvariant, PTL

\* The pages listed as free are the free pages of the inductive invariant.
LEMMA FreePagesAreFree ==
  ASSUME Kept, NEW q PROVE q \in FreePages <=> q \in Nat /\ IsFree(tracker, q)
<1> DEFINE s == tracker.free_blocks_
<1>1. s \in Seq(FreeBlock) /\ Len(s) \in Nat
  BY PoolFacts DEF Good, Listed
<1>2. \A i \in 1 .. Len(s) : s[i].begin_ \in Nat /\ s[i].end_ \in Nat
  BY <1>1, BlockFields
<1>3. ToSet(s) = {s[i] : i \in 1 .. Len(s)}
  BY <1>1 DEF ToSet
<1>4. q \in FreePages <=> \E i \in 1 .. Len(s) : q \in s[i].begin_ .. s[i].end_ - 1
  BY <1>3 DEF FreePages
<1> HIDE DEF s
<1>5. ASSUME NEW i \in 1 .. Len(s)
      PROVE  q \in s[i].begin_ .. s[i].end_ - 1 <=> q \in Nat /\ Within(q, s[i])
  BY <1>2 DEF Within
<1> QED
  BY <1>4, <1>5 DEF IsFree, Held, s

\* The pages of a vector are those of its block.
LEMMA PagesOfAVector ==
  ASSUME Kept, NEW v \in Vectors, NEW q PROVE q \in PagesOf(v) <=> q \in Nat /\ Has(v, q)
<1>1. CASE page_num_[v] = NOT_ALLOCATED
  BY <1>1 DEF PagesOf, Has
<1>2. CASE page_num_[v] # NOT_ALLOCATED
  <2>1. /\ page_num_[v] \in Nat /\ block_size(page_num_[v]) \in Nat
        /\ Has(v, q) <=> page_num_[v] <= q /\ q < page_num_[v] + block_size(page_num_[v])
    BY <1>2, VectorFacts
  <2> QED
    BY <1>2, <2>1 DEF PagesOf
<1> QED
  BY <1>1, <1>2

\* Every page of the pool is free or belongs to one vector, whatever the vectors
\* do: no page is handed out twice, and none is lost.
THEOREM PagesStayPartitioned == PoolSpec => []PagesArePartitioned
<1>1. Inv => PagesArePartitioned
  <2> SUFFICES ASSUME Kept
               PROVE  /\ Pages = FreePages \cup UNION {PagesOf(v) : v \in Vectors}
                      /\ \A v \in Vectors :
                           /\ PagesOf(v) \cap FreePages = {}
                           /\ \A w \in Vectors \ {v} : PagesOf(v) \cap PagesOf(w) = {}
    BY DEF Inv, PagesArePartitioned
  <2>1. num_pages_ \in Nat /\ \A q : q \in Pages <=> q \in Nat /\ q < num_pages_
    BY PoolFacts DEF Pages
  <2>2. ASSUME NEW q \in Nat
        PROVE  /\ q < num_pages_ => IsFree(tracker, q) \/ \E v \in Vectors : Has(v, q)
               /\ \A v \in Vectors : Has(v, q) =>
                    ~ IsFree(tracker, q) /\ \A w \in Vectors : Has(w, q) => w = v
    BY DEF Kept, Partition
  <2>3. ASSUME NEW q \in Pages
        PROVE  q \in FreePages \/ \E v \in Vectors : q \in PagesOf(v)
    BY <2>1, <2>2, FreePagesAreFree, PagesOfAVector
  <2>4. ASSUME NEW q, NEW v \in Vectors, q \in PagesOf(v)
        PROVE  q \in Pages /\ q \notin FreePages
               /\ \A w \in Vectors \ {v} : q \notin PagesOf(w)
    <3>1. q \in Nat /\ Has(v, q)
      BY <2>4, PagesOfAVector
    <3>2. page_num_[v] # NOT_ALLOCATED
      BY <3>1 DEF Has
    <3>3. /\ page_num_[v] \in Nat /\ block_size(page_num_[v]) \in Nat
          /\ page_num_[v] + block_size(page_num_[v]) <= num_pages_
          /\ q < page_num_[v] + block_size(page_num_[v])
      BY <3>1, <3>2, VectorFacts
    <3>4. q \in Pages
      BY <2>1, <3>1, <3>3
    <3> QED
      BY <2>2, <3>1, <3>4, FreePagesAreFree, PagesOfAVector
  <2>5. ASSUME NEW q \in FreePages PROVE q \in Pages
    <3> DEFINE s == tracker.free_blocks_
    <3>1. q \in Nat /\ IsFree(tracker, q)
      BY FreePagesAreFree
    <3>2. PICK i \in 1 .. Len(s) : Within(q, s[i])
      BY <3>1 DEF IsFree, Held
    <3>3. s \in Seq(FreeBlock) /\ s[i].end_ <= num_pages_
      BY PoolFacts DEF Good, Listed
    <3>4. s[i].end_ \in Nat
      BY <3>3, BlockFields
    <3> QED
      BY <2>1, <3>1, <3>2, <3>3, <3>4 DEF Within
  <2> HIDE DEF Pages, FreePages, PagesOf
  <2>6. Pages = FreePages \cup UNION {PagesOf(v) : v \in Vectors}
    BY <2>3, <2>4, <2>5
  <2>7. ASSUME NEW v \in Vectors
        PROVE  /\ PagesOf(v) \cap FreePages = {}
               /\ \A w \in Vectors \ {v} : PagesOf(v) \cap PagesOf(w) = {}
    BY <2>4
  <2> QED
    BY <2>6, <2>7
<1> QED
  BY <1>1, PoolInvariant, PTL

\* What was pushed into a vector is in it, whatever was allocated, moved and
\* given back in between, and also after the disk was full.
THEOREM ContentsStay == PoolSpec => []ContentsSurvive
<1>1. Inv => ContentsSurvive
  <2> SUFFICES ASSUME Kept, NEW v \in Vectors, NEW i \in 0 .. size_[v] - 1
               PROVE  data_[page_num_[v] + i] = v
    BY DEF Inv, ContentsSurvive
  <2>1. page_num_[v] # NOT_ALLOCATED
    <3>1. SUFFICES ASSUME page_num_[v] = NOT_ALLOCATED PROVE FALSE
      OBVIOUS
    <3>2. size_[v] = 0
      BY <3>1, PoolAssumption DEF Kept, Blocks
    <3> QED
      BY <3>2
  <2>2. /\ page_num_[v] \in Nat /\ size_[v] \in Nat
        /\ \A q \in Nat : Filled(v, q) <=> page_num_[v] <= q /\ q < page_num_[v] + size_[v]
    BY <2>1, VectorFacts
  <2>3. page_num_[v] + i \in Nat /\ Filled(v, page_num_[v] + i)
    BY <2>2
  <2> QED
    BY <2>3 DEF Kept, Contents
<1> QED
  BY <1>1, PoolInvariant, PTL
=============================================================================
