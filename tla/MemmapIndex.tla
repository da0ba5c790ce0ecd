----------------------------- MODULE MemmapIndex -----------------------------
(***************************************************************************)
(* memmap::Index (include/memmap/Index.hpp): an index whose B-tree has     *)
(* vectors of row numbers as values.  Such a value is a page number and a  *)
(* size, too: after a push_back it has to be put into the tree again.      *)
(***************************************************************************)
EXTENDS BTree

CONSTANTS Keys,          \* join keys, which are numbers
          RowCapacity,   \* how many row numbers fit in one page
          MaxSteps,      \* bound on the number of insertions and clears
          MaxRepeated    \* bound on the rows whose key is there already

VARIABLES heap,     \* the pool's allocated blocks
          root,     \* the tree's root node
          rows,     \* per key, the rows inserted: what the index has to find
          steps     \* how many steps were taken

vars == <<heap, root, rows, steps>>

NoRows == [k \in Keys |-> <<>>]

Init == LET r == allocate_new_node(<<>>)
        IN  heap = r.heap /\ root = r.node /\ rows = NoRows /\ steps = 0

\* The row numbers of a key.
Found(key) == LET v == get_value(heap, root, key)
              IN  IF v = Nothing THEN <<>> ELSE Elements(heap, v)

\* Mutant: the vector in the tree is taken to be changed by push_back.
AddRowInPlace(key, row) ==
  \E opt \in {get_value(heap, root, key)}, new \in {Filled(heap, RowCapacity, <<row>>)} :
    \E r \in {Insert(new.heap, root, key, new.vec)} :
      IF opt = Nothing THEN heap' = r.heap /\ root' = r.node
      ELSE heap' = push_back(heap, opt, row).heap /\ UNCHANGED root

RowVector(opt, row) ==
  IF opt = Nothing THEN Filled(heap, RowCapacity, <<row>>) ELSE push_back(heap, opt, row)

AddRow(key, row) ==
  \E vec \in {RowVector(get_value(heap, root, key), row)} :
    \E r \in {Insert(vec.heap, root, key, vec.vec)} : heap' = r.heap /\ root' = r.node

\* Rows are inserted in the order of their numbers (containers/Index.hpp).
NextRow == Cardinality(UNION {Range(rows[k]) : k \in Keys})

Repeated == NextRow - Cardinality({k \in Keys : rows[k] # <<>>})

insert_row(key) ==
  /\ rows[key] # <<>> => Repeated < MaxRepeated
  /\ AddRow(key, NextRow)
  /\ rows' = [rows EXCEPT ![key] = Append(@, NextRow)]

\* The vectors of row numbers are deallocated first, then the old tree, when
\* the new one is already made.
WithoutIndex == deallocate(Free(heap, PagesOf(AllValues(heap, root))), root)

clear_index ==
  LET r == allocate_new_node(heap)
  IN  /\ heap' = [p \in DOMAIN r.heap \ (DOMAIN heap \ DOMAIN WithoutIndex)
                    |-> r.heap[p]]
      /\ root' = r.node
      /\ rows' = NoRows

Next == /\ steps < MaxSteps
        /\ steps' = steps + 1
        /\ \/ clear_index
           \/ \E key \in Keys : insert_row(key)

Spec == Init /\ [][Next]_vars

-----------------------------------------------------------------------------
(* Properties *)

\* All vectors that can be reached from the root: three per node, and the
\* row numbers.
Vectors == NodeVectors(heap, root) \o AllValues(heap, root)

TypeOK ==
  /\ steps \in 0..MaxSteps /\ DOMAIN rows = Keys
  /\ \A p \in DOMAIN heap : /\ p \in Nat \ {0}
                            /\ Len(heap[p].data) <= heap[p].capacity
  /\ LET vs == Vectors
     IN  \A i \in DOMAIN vs : is_allocated(vs[i]) =>
           vs[i].page \in DOMAIN heap /\ vs[i].size <= Len(heap[vs[i].page].data)

\* "Returns a pointer to the beginning and end of the rownums"
\* (containers/Index.hpp:38-39): what the index answers for a key are the rows
\* inserted for it, whatever nodes were split and whatever vectors have moved.
FindsItsRows == \A k \in Keys : Found(k) = rows[k]

\* Every block of the pool belongs to exactly one vector of the index: nothing
\* leaks, and no two vectors write to the same page ("RAII does not work in a
\* memory-mapped environment. Therefore, we have to take care of the
\* deallocation ourselves", BTreeNode.hpp:20-22).
BlocksHaveOneOwner ==
  LET vs == SelectSeq(Vectors, is_allocated)
      pages == [i \in DOMAIN vs |-> vs[i].page]
  IN  Range(pages) = DOMAIN heap /\ IsInjective(pages)
=============================================================================
