------------------------------- MODULE MCPool -------------------------------
(***************************************************************************)
(* Three vectors in one pool: enough for two blocks that are in use around *)
(* a hole that is given back and taken again.                              *)
(***************************************************************************)
EXTENDS Pool

CONSTANTS v1, v2, v3

MCVectors == {v1, v2, v3}

Symmetry == Permutations(MCVectors)

\* States that differ in what pages beyond the contents of a vector hold are
\* one state: nobody reads those pages before they are written.
Filled == UNION {page_num_[v] .. page_num_[v] + size_[v] - 1 :
                   v \in {w \in Vectors : page_num_[w] # NOT_ALLOCATED}}

Contents == [p \in DOMAIN data_ |-> IF p \in Filled THEN data_[p] ELSE NOT_ALLOCATED]

Seen == <<tracker, num_pages_, pages_, Contents, page_num_, size_, misread>>
=============================================================================
