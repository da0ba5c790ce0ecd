-------------------------- MODULE FreeBlocksTracker --------------------------
(***************************************************************************)
(* memmap::FreeBlocksTracker (src/memmap/FreeBlocksTracker.cpp): the list  *)
(* of free blocks of a memory pool, as operators from a tracker to the     *)
(* next one.                                                               *)
(*                                                                         *)
(* free_blocks_ is a std::vector, and free_block looks one element past    *)
(* its end.  So a tracker also remembers `past': the begin_ of the slots   *)
(* behind the last element that were in use once, which is what erase      *)
(* leaves there and what the next insertions overwrite.  A slot that was   *)
(* never in use reads as `junk', which the caller leaves open.  Page       *)
(* numbers start at 0 and an end is exclusive, as in the code.             *)
(***************************************************************************)
EXTENDS Integers, Sequences, SequencesExt

EmptyTracker == [free_blocks_ |-> <<>>, past |-> <<>>]

Block(b, e) == [begin_ |-> b, end_ |-> e]

\* A size_t: a block that ends before it begins is taken for a huge one (the
\* width is a bound that no page number comes near).
SizeWidth == 16

Size(block) == (block.end_ - block.begin_) % 2^SizeWidth

-----------------------------------------------------------------------------
(* std::vector *)

Erased(tracker, i) ==
  LET blocks == tracker.free_blocks_
  IN  [free_blocks_ |-> RemoveAt(blocks, i),
       past |-> <<Last(blocks).begin_>> \o tracker.past]

Inserted(tracker, i, block) ==
  [free_blocks_ |-> InsertAt(tracker.free_blocks_, i, block),
   past |-> IF tracker.past = <<>> THEN <<>> ELSE Tail(tracker.past)]

\* The begin_ of element i, which may be the one past the end.
BeginOf(tracker, i, junk) ==
  IF i <= Len(tracker.free_blocks_) THEN tracker.free_blocks_[i].begin_
  ELSE IF tracker.past # <<>> THEN tracker.past[1] ELSE junk

\* A write past the slots that were in use once is seen by nobody.
SetBegin(tracker, i, b) ==
  IF i <= Len(tracker.free_blocks_)
  THEN [tracker EXCEPT !.free_blocks_[i].begin_ = b]
  ELSE IF tracker.past # <<>> THEN [tracker EXCEPT !.past[1] = b] ELSE tracker

\* The first element a test holds for; none if there is no such element.
First(blocks, Test(_)) ==
  SelectInSeq(blocks, Test)

-----------------------------------------------------------------------------

find_free_block(tracker, block_size) ==
  First(tracker.free_blocks_, LAMBDA block : Size(block) >= block_size)

\* Take n pages off the front of free block i.  Nothing stops extend_block from
\* taking more pages than the block has.
TakeFront(tracker, i, n) ==
  LET block == tracker.free_blocks_[i]
  IN  IF Size(block) = n THEN Erased(tracker, i)
                         ELSE SetBegin(tracker, i, block.begin_ + n)

\* Where a block that was found begins, and the tracker once it is taken.
allocate_block(tracker, block_size) ==
  LET i == find_free_block(tracker, block_size)
  IN  [begin |-> tracker.free_blocks_[i].begin_,
       tracker |-> TakeFront(tracker, i, block_size)]

\* With NDEBUG, nothing happens when no free block begins at the page.
extend_block(tracker, page_num, by) ==
  LET i == First(tracker.free_blocks_, LAMBDA block : block.begin_ = page_num)
  IN  IF i = 0 THEN tracker ELSE TakeFront(tracker, i, by)

\* The first block that decides where the freed one goes; 0: none does.
Relevant(tracker, b, e) ==
  First(tracker.free_blocks_, LAMBDA block : block.end_ = b \/ block.begin_ >= e)

\* Whether the freed block closes the gap between block i and the next one.
\* The code's test it != end() is always true: behind the last block, the
\* slot past the end is read.
ClosesGap(tracker, i, b, e, junk) ==
  tracker.free_blocks_[i].end_ = b /\ BeginOf(tracker, i + 1, junk) = e

\* Mutant: a block that closes a gap is added to the block before it only.
free_block_without_merging(tracker, b, e, junk) ==
  LET i == Relevant(tracker, b, e)
      block == tracker.free_blocks_[i]
  IN  IF i = 0
      THEN Inserted(tracker, Len(tracker.free_blocks_) + 1, Block(b, e))
      ELSE IF block.end_ = b
      THEN [tracker EXCEPT !.free_blocks_[i].end_ = e]
      ELSE IF block.begin_ = e
      THEN [tracker EXCEPT !.free_blocks_[i].begin_ = b]
      ELSE Inserted(tracker, i, Block(b, e))

free_block(tracker, b, e, junk) ==
  LET i == Relevant(tracker, b, e)
      block == tracker.free_blocks_[i]
  IN  IF i = 0
      THEN Inserted(tracker, Len(tracker.free_blocks_) + 1, Block(b, e))
      ELSE IF ClosesGap(tracker, i, b, e, junk)
      THEN Erased(SetBegin(tracker, i + 1, block.begin_), i)
      ELSE IF block.end_ = b
      THEN [tracker EXCEPT !.free_blocks_[i].end_ = e]
      ELSE IF block.begin_ = e
      THEN [tracker EXCEPT !.free_blocks_[i].begin_ = b]
      ELSE Inserted(tracker, i, Block(b, e))

\* Whether free_block takes the slot past the end for a block.
Misreads(tracker, b, e, junk) ==
  LET i == Relevant(tracker, b, e)
  IN  /\ i # 0 /\ i = Len(tracker.free_blocks_)
      /\ ClosesGap(tracker, i, b, e, junk)

increase_pool_size(tracker, old_pool_size, new_pool_size) ==
  LET n == Len(tracker.free_blocks_)
  IN  IF n # 0 /\ Last(tracker.free_blocks_).end_ = old_pool_size
      THEN [tracker EXCEPT !.free_blocks_[n].end_ = new_pool_size]
      ELSE Inserted(tracker, n + 1, Block(old_pool_size, new_pool_size))
=============================================================================
