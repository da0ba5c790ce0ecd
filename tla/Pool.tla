-------------------------------- MODULE Pool --------------------------------
(***************************************************************************)
(* memmap::Pool and the vectors that live in it (src/memmap/Pool.cpp,      *)
(* include/memmap/Pool.hpp, VectorImpl.hpp, Vector.hpp), built with NDEBUG *)
(* as it is shipped: assertions do nothing.                                *)
(*                                                                         *)
(* A vector starts with one page and doubles its block when it is full.    *)
(* Elements are abstracted to pages: data_[p] is the vector whose elements *)
(* page p holds, size_[v] how many pages v has filled.  A pool belongs to  *)
(* one request, so its operations do not interleave.                       *)
(***************************************************************************)
EXTENDS FreeBlocksTracker, FiniteSets

CONSTANTS Vectors,
          InitialPages,    \* bound: the code starts with 1000 pages
          DiskPages,       \* the number of pages the disk has room for
          NOT_ALLOCATED

ASSUME PoolAssumption ==
  /\ InitialPages \in Nat \ {0}
  /\ DiskPages \in Nat /\ DiskPages >= InitialPages /\ DiskPages < 2^SizeWidth
  /\ NOT_ALLOCATED \notin Nat
  /\ NOT_ALLOCATED \notin Vectors

VARIABLES
  tracker,      \* free_blocks_tracker_
  num_pages_,   \* also pool_size_ of the tracker
  pages_,       \* of each page: whether it is the head of an allocated block,
                \* and the size of that block
  data_,
  page_num_,    \* of each vector: the head of its block
  size_,
  misread       \* whether free_block ever took the slot past the end of its
                \* list for a free block (in no variable of the program)

poolVars == <<tracker, num_pages_, pages_, data_, page_num_, size_, misread>>

Page == [is_allocated_ |-> FALSE, block_size_ |-> 0]

PoolInit ==
  /\ num_pages_ = InitialPages
  /\ tracker = increase_pool_size(EmptyTracker, 0, InitialPages)
  /\ pages_ = [p \in 0..DiskPages - 1 |-> Page]
  /\ data_ = [p \in 0..DiskPages - 1 |-> NOT_ALLOCATED]
  /\ page_num_ = [v \in Vectors |-> NOT_ALLOCATED]
  /\ size_ = [v \in Vectors |-> 0]
  /\ misread = FALSE

-----------------------------------------------------------------------------
(* Pool::allocate_block *)

block_size(p) == pages_[p].block_size_

\* Mutant: only the page right behind the block is looked at.
next_page_is_free(n, p) ==
  /\ p + n < num_pages_
  /\ ~pages_[p + block_size(p)].is_allocated_

current_block_can_be_extended(n, p) ==
  /\ p + n < num_pages_
  /\ \A q \in p + block_size(p) .. p + n - 1 : ~pages_[q].is_allocated_

allocate_page(pages, n, p) ==
  [pages EXCEPT ![p] = [is_allocated_ |-> TRUE, block_size_ |-> n]]

\* The pool after it was doubled k times: data_ and pages_ are mapped onto
\* larger files, new pages are free.
Doubled(k) == num_pages_ * 2^k

ResizedTracker ==
  LET resized[k \in 0..2] ==
        IF k = 0 THEN tracker
        ELSE increase_pool_size(resized[k - 1], Doubled(k - 1), Doubled(k))
  IN  resized

\* allocate_block doubles the pool until there is a block of n pages.  Twice
\* is enough: a vector never asks for more than twice what the pool has.
Fits(k, n) == find_free_block(ResizedTracker[k], n) # 0

\* The doublings that take place: the disk may be too small for one more.
Doublings(n) ==
  CHOOSE k \in 0..2 :
    /\ Fits(k, n) \/ Doubled(k + 1) > DiskPages
    /\ \A j \in 0..k - 1 : ~Fits(j, n)
    /\ Doubled(k) <= DiskPages

\* Pool::deallocate of block [b, e) in tracker t.  Memory behind the list that
\* was never written to holds anything: e, or something else.
Free(t, b, e) == \E junk \in {e, e + 1} :
  /\ tracker' = free_block(t, b, e, junk)
  /\ misread' = (misread \/ Misreads(t, b, e, junk))

\* Mutant: the last page of the old block is not moved.
move_all_but_last(v, begin) ==
  [p \in DOMAIN data_ |->
     IF p \in begin .. begin + size_[v] - 2 THEN data_[page_num_[v] + (p - begin)]
     ELSE IF p = begin + size_[v] THEN v ELSE data_[p]]

\* The pages vector v has filled, copied to a block that begins at page begin,
\* and behind them the page that it fills next.
move_data_to_new_block(v, begin) ==
  [p \in DOMAIN data_ |->
     IF p \in begin .. begin + size_[v] - 1 THEN data_[page_num_[v] + (p - begin)]
     ELSE IF p = begin + size_[v] THEN v ELSE data_[p]]

\* A new block of n pages, which takes over the contents of the block of
\* vector v, if it has one.  Not enough disk space throws: the vector is as it
\* was, the pool keeps the doublings that succeeded.
NewBlock(v, n) ==
  LET k == Doublings(n)
      new == allocate_block(ResizedTracker[k], n)
      old == page_num_[v]
      pages == allocate_page(pages_, n, new.begin)
  IN  /\ num_pages_' = Doubled(k)
      /\ IF ~Fits(k, n)
         THEN /\ tracker' = ResizedTracker[k]
              /\ UNCHANGED <<pages_, data_, page_num_, size_, misread>>
         ELSE /\ page_num_' = [page_num_ EXCEPT ![v] = new.begin]
              /\ IF old = NOT_ALLOCATED
                 THEN /\ tracker' = new.tracker
                      /\ pages_' = pages
                      /\ UNCHANGED <<data_, size_, misread>>
                 ELSE /\ Free(new.tracker, old, old + block_size(old))
                      /\ pages_' = [pages EXCEPT ![old] = Page]
                      /\ size_' = [size_ EXCEPT ![v] = @ + 1]
                      /\ data_' = move_data_to_new_block(v, new.begin)

\* The block of v becomes n pages long where it is.
ExtendedBlock(v, n) ==
  LET p == page_num_[v]
      end == p + block_size(p)
  IN  /\ tracker' = extend_block(tracker, end, n - block_size(p))
      /\ pages_' = allocate_page(pages_, n, p)
      /\ data_' = [data_ EXCEPT ![p + size_[v]] = v]
      /\ size_' = [size_ EXCEPT ![v] = @ + 1]
      /\ UNCHANGED <<num_pages_, page_num_, misread>>

-----------------------------------------------------------------------------
(* Vector *)

\* The constructor Vector(pool) allocates one page.
Create(v) ==
  /\ page_num_[v] = NOT_ALLOCATED
  /\ NewBlock(v, 1)

\* As many calls of push_back (or insert) as fill one more page: the first of
\* them needs a larger block if the vector has filled the one it has.
PushBack(v) ==
  LET p == page_num_[v]
      n == 2 * size_[v]
  IN  /\ p # NOT_ALLOCATED
      /\ IF size_[v] < block_size(p)
         THEN /\ data_' = [data_ EXCEPT ![p + size_[v]] = v]
              /\ size_' = [size_ EXCEPT ![v] = @ + 1]
              /\ UNCHANGED <<tracker, num_pages_, pages_, page_num_, misread>>
         ELSE IF current_block_can_be_extended(n, p)
         THEN ExtendedBlock(v, n)
         ELSE NewBlock(v, n)

\* VectorImpl::deallocate, Pool::deallocate.
Destroy(v) ==
  LET p == page_num_[v]
  IN  /\ p # NOT_ALLOCATED
      /\ Free(tracker, p, p + block_size(p))
      /\ pages_' = [pages_ EXCEPT ![p] = Page]
      /\ page_num_' = [page_num_ EXCEPT ![v] = NOT_ALLOCATED]
      /\ size_' = [size_ EXCEPT ![v] = 0]
      /\ UNCHANGED <<num_pages_, data_>>

PoolNext == \E v \in Vectors : Create(v) \/ PushBack(v) \/ Destroy(v)

PoolSpec == PoolInit /\ [][PoolNext]_poolVars

-----------------------------------------------------------------------------
(* Properties *)

Pages == 0..num_pages_ - 1

PagesOf(v) ==
  IF page_num_[v] = NOT_ALLOCATED THEN {}
  ELSE page_num_[v] .. page_num_[v] + block_size(page_num_[v]) - 1

FreePages == UNION {b.begin_ .. b.end_ - 1 : b \in ToSet(tracker.free_blocks_)}

PoolTypeOK ==
  /\ num_pages_ \in InitialPages..DiskPages
  /\ pages_ \in [0..DiskPages - 1 -> [is_allocated_ : BOOLEAN, block_size_ : 0..DiskPages]]
  /\ data_ \in [0..DiskPages - 1 -> Vectors \cup {NOT_ALLOCATED}]
  /\ page_num_ \in [Vectors -> 0..DiskPages - 1 \cup {NOT_ALLOCATED}]
  /\ size_ \in [Vectors -> 0..DiskPages]
  /\ misread \in BOOLEAN

\* Free blocks are not empty, in order, and as large as they can be.
SortedAndMaximal ==
  LET blocks == tracker.free_blocks_
  IN  /\ \A i \in DOMAIN blocks : blocks[i].begin_ < blocks[i].end_
      /\ \A i \in 2..Len(blocks) : blocks[i].begin_ > blocks[i - 1].end_

\* "assert_true(free_blocks_[i].begin_ > free_blocks_[i - 1].end_)"
\* (FreeBlocksTracker.cpp:21-27, 56-62, 103-109), as long as the slot past the
\* end has not been taken for a block.
FreeBlocksAreSorted == misread \/ SortedAndMaximal

\* As long as the slot past the end has not been taken for a block, every page
\* of the pool is free or belongs to exactly one vector: none is in two
\* places, and none is lost when blocks grow, move and are given back.
PagesArePartitioned == misread \/
  /\ Pages = FreePages \cup UNION {PagesOf(v) : v \in Vectors}
  /\ \A v \in Vectors :
       /\ PagesOf(v) \cap FreePages = {}
       /\ \A w \in Vectors \ {v} : PagesOf(v) \cap PagesOf(w) = {}

\* What was pushed into a vector is in it, wherever its block has moved, and
\* also after an allocation that failed.
ContentsSurvive == misread \/
  \A v \in Vectors : \A i \in 0..size_[v] - 1 : data_[page_num_[v] + i] = v

\* "Keeps track of the blocks that are not currently occupied."
\* (FreeBlocksTracker.hpp:47-48): no page of a vector is listed as free.
FreeBlocksAreNotOccupied ==
  \A v \in Vectors : PagesOf(v) \cap FreePages = {}

\* The run that passes does not look further once the slot was misread.
NotMisread == ~misread
=============================================================================
