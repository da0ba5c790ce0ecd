-------------------------------- MODULE BTree --------------------------------
(***************************************************************************)
(* memmap::BTree (include/memmap/BTree.hpp, BTreeNode.hpp, VectorImpl.hpp). *)
(*                                                                         *)
(* Nodes live in the pool, by value: a node is three vectors, and a vector *)
(* is a page number and a size (VectorImpl; page 0 is NOT_ALLOCATED).  The *)
(* vector of a node's children holds copies of such records.  A vector that *)
(* grows can move to another page, and then every older copy of it is      *)
(* stale.  So the operators take the pool (heap, from page numbers to the  *)
(* blocks that are allocated) and a node, and return both.  What VectorImpl *)
(* asks of the pool is in module Pool; here a vector that outgrows its     *)
(* block always moves, the case in which old copies matter.                *)
(* Indices start at 0, as in the code.                                     *)
(***************************************************************************)
EXTENDS Integers, SequencesExt

\* Memory pages hold Order + 1 keys at least (make_order), and a node that is
\* split has three keys (assertion in split_node).
CONSTANTS Order,           \* the most keys of a node (order_), 2 at least
          KeyCapacity,     \* how many keys fit in one page: Order + 1 at least
          ValueCapacity,   \* how many values
          ChildCapacity    \* how many nodes

Unallocated == [page |-> 0, size |-> 0]
EmptyNode ==
  [child_nodes_ |-> Unallocated, keys_ |-> Unallocated, values_ |-> Unallocated]
Nothing == [none |-> TRUE]

-----------------------------------------------------------------------------
(* VectorImpl *)

FreshPage(heap) == CHOOSE p \in 1..(Cardinality(DOMAIN heap) + 1) :
                     p \notin DOMAIN heap /\ 1..(p - 1) \subseteq DOMAIN heap
Free(heap, pages) == [p \in DOMAIN heap \ pages |-> heap[p]]
is_allocated(vec) == vec.page # 0
Elements(heap, vec) ==
  IF is_allocated(vec) THEN SubSeq(heap[vec.page].data, 1, vec.size) ELSE <<>>

allocate(heap, capacity) ==
  LET p == FreshPage(heap)
  IN  [heap |-> heap @@ (p :> [capacity |-> capacity, data |-> <<>>]),
       vec  |-> [page |-> p, size |-> 0]]

insert(heap, vec, pos, elem) ==
  LET old   == Elements(heap, vec)
      data  == SubSeq(old, 1, pos) \o <<elem>> \o SubSeq(old, pos + 1, vec.size)
      fresh == FreshPage(heap)
  IN  IF vec.size < heap[vec.page].capacity
      THEN [heap |-> [heap EXCEPT ![vec.page].data = data],
            vec  |-> [vec EXCEPT !.size = @ + 1]]
      ELSE [heap |-> Free(heap, {vec.page})
                       @@ (fresh :> [capacity |-> 2 * vec.size, data |-> data]),
            vec  |-> [page |-> fresh, size |-> vec.size + 1]]

push_back(heap, vec, elem) == insert(heap, vec, vec.size, elem)

Assign(heap, vec, pos, elem) == [heap EXCEPT ![vec.page].data[pos + 1] = elem]

\* A Vector made of the elements of a sequence.
Filled(heap, capacity, elems) ==
  FoldLeft(LAMBDA acc, e : push_back(acc.heap, acc.vec, e),
           allocate(heap, capacity), elems)

-----------------------------------------------------------------------------
(* BTreeNode and BTree *)

is_leaf(node) == ~is_allocated(node.child_nodes_)
KeysOf(heap, node) == Elements(heap, node.keys_)
ValuesOf(heap, node) == Elements(heap, node.values_)
ChildrenOf(heap, node) == Elements(heap, node.child_nodes_)

allocate_new_node(heap) ==
  LET k == allocate(heap, KeyCapacity)
      v == allocate(k.heap, ValueCapacity)
  IN  [heap |-> v.heap,
       node |-> [EmptyNode EXCEPT !.keys_ = k.vec, !.values_ = v.vec]]

\* Mutant: equal keys count as smaller.
find_pos_behind(heap, key, node) ==
  LET larger == SelectInSeq(KeysOf(heap, node), LAMBDA k : k > key)
  IN  IF larger = 0 THEN node.keys_.size ELSE larger - 1

\* The number of keys smaller than key: keys are sorted.
find_pos(heap, key, node) ==
  LET larger == SelectInSeq(KeysOf(heap, node), LAMBDA k : k >= key)
  IN  IF larger = 0 THEN node.keys_.size ELSE larger - 1

HasKeyAt(heap, node, pos, key) ==
  pos < node.keys_.size /\ KeysOf(heap, node)[pos + 1] = key

insert_key_value(heap, node, pos, key, value) ==
  LET k == insert(heap, node.keys_, pos, key)
      v == insert(k.heap, node.values_, pos, value)
  IN  IF HasKeyAt(heap, node, pos, key)
      THEN [heap |-> Assign(heap, node.values_, pos, value), node |-> node]
      ELSE [heap |-> v.heap,
            node |-> [node EXCEPT !.keys_ = k.vec, !.values_ = v.vec]]

insert_children(heap, node, pos, smaller, larger) ==
  LET new      == Filled(heap, ChildCapacity, <<smaller, larger>>)
      widened  == insert(heap, node.child_nodes_, pos, smaller)
      replaced == Assign(widened.heap, widened.vec, pos + 1, larger)
  IN  IF is_leaf(node)
      THEN [heap |-> new.heap, node |-> [node EXCEPT !.child_nodes_ = new.vec]]
      ELSE [heap |-> replaced,
            node |-> [node EXCEPT !.child_nodes_ = widened.vec]]

split_node_make_greater(heap, node, median) ==
  LET Behind(s) == SubSeq(s, median + 2, Len(s))
      c == IF is_leaf(node) THEN [heap |-> heap, vec |-> Unallocated]
           ELSE Filled(heap, ChildCapacity, Behind(ChildrenOf(heap, node)))
      k == Filled(c.heap, KeyCapacity, Behind(KeysOf(heap, node)))
      v == Filled(k.heap, ValueCapacity, Behind(ValuesOf(heap, node)))
  IN  [heap |-> v.heap,
       node |-> [child_nodes_ |-> c.vec, keys_ |-> k.vec, values_ |-> v.vec]]

\* The vectors of the node itself, cut off.
split_node_make_smaller(node, median) ==
  [child_nodes_ |-> IF is_leaf(node) THEN Unallocated
                    ELSE [node.child_nodes_ EXCEPT !.size = median + 1],
   keys_   |-> [node.keys_ EXCEPT !.size = median],
   values_ |-> [node.values_ EXCEPT !.size = median]]

\* A node that has become too large yields its vectors to two new nodes.
\* Results of insertions: the heap, the node, and what it was split into.
split_node(heap, node) ==
  LET median  == node.keys_.size \div 2
      greater == split_node_make_greater(heap, node, median)
  IN  [heap |-> greater.heap, node |-> EmptyNode,
       split |-> [key     |-> KeysOf(heap, node)[median + 1],
                  value   |-> ValuesOf(heap, node)[median + 1],
                  smaller |-> split_node_make_smaller(node, median),
                  larger  |-> greater.node]]

SplitIfTooLarge(r) ==
  IF r.node.keys_.size > Order THEN split_node(r.heap, r.node)
  ELSE r @@ [split |-> Nothing]

InsertSplit(r, pos) ==
  LET kv == insert_key_value(r.heap, r.node, pos, r.split.key, r.split.value)
  IN  insert_children(kv.heap, kv.node, pos, r.split.smaller, r.split.larger)

SplitBy(r, pos) ==
  IF r.split = Nothing THEN r ELSE SplitIfTooLarge(InsertSplit(r, pos))

\* The child is copied, and written back after the insertion, because the pool
\* can be mapped to another address in between.
WithChild(node, pos, sub) ==
  SplitBy([sub EXCEPT !.heap = Assign(@, node.child_nodes_, pos, sub.node),
                      !.node = node], pos)

RECURSIVE insert_into_tree(_, _, _, _)
insert_into_tree(heap, node, key, value) ==
  LET pos == find_pos(heap, key, node)
      kv  == insert_key_value(heap, node, pos, key, value)
  IN  CASE HasKeyAt(heap, node, pos, key) -> kv @@ [split |-> Nothing]
        [] ~HasKeyAt(heap, node, pos, key) /\ is_leaf(node) -> SplitIfTooLarge(kv)
        [] OTHER -> WithChild(node, pos,
                      insert_into_tree(heap, ChildrenOf(heap, node)[pos + 1], key, value))

\* A root that was split gets a new root above it.
Grown(r, n) ==
  IF r.split = Nothing THEN [heap |-> r.heap, node |-> r.node]
  ELSE InsertSplit([r EXCEPT !.heap = n.heap, !.node = n.node], 0)

GrownIfSplit(r) == Grown(r, allocate_new_node(r.heap))

Insert(heap, root, key, value) == GrownIfSplit(insert_into_tree(heap, root, key, value))

\* The value of a key, or Nothing.
RECURSIVE get_value(_, _, _)
get_value(heap, node, key) ==
  LET pos == find_pos(heap, key, node)
  IN  CASE node.keys_.size = 0 -> Nothing
        [] HasKeyAt(heap, node, pos, key) -> ValuesOf(heap, node)[pos + 1]
        [] ~HasKeyAt(heap, node, pos, key) /\ is_leaf(node) -> Nothing
        [] OTHER -> get_value(heap, ChildrenOf(heap, node)[pos + 1], key)

\* The node and all nodes below it, parents first.
RECURSIVE Nodes(_, _)
Nodes(heap, node) ==
  <<node>> \o FlattenSeq([i \in 1..node.child_nodes_.size |->
                            Nodes(heap, ChildrenOf(heap, node)[i])])

AllValues(heap, node) ==
  LET ns == Nodes(heap, node)
  IN  FlattenSeq([i \in DOMAIN ns |-> ValuesOf(heap, ns[i])])

\* The pages of the vectors in a sequence.
PagesOf(vecs) == {vecs[i].page : i \in DOMAIN vecs} \ {0}
NodeVectors(heap, node) ==
  LET ns == Nodes(heap, node)
  IN  FlattenSeq([i \in DOMAIN ns |->
                    <<ns[i].child_nodes_, ns[i].keys_, ns[i].values_>>])

deallocate(heap, node) == Free(heap, PagesOf(NodeVectors(heap, node)))
=============================================================================
