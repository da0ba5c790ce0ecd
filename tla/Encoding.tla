------------------------------- MODULE Encoding -------------------------------
(***************************************************************************)
(* containers::Encoding (src/containers/InMemoryEncoding.cpp): the mapping *)
(* between the strings of categorical columns or join keys and the         *)
(* integers the columns hold.                                              *)
(*                                                                         *)
(* The engine has one global encoding of each kind.  A request that brings *)
(* new data builds an encoding of its own on top of the global one (its    *)
(* subencoding): subsize_, where its own ids start, is fixed when it is    *)
(* made, but it looks strings and ids up in the live subencoding.  The     *)
(* global encoding is its vector_, a sequence of strings: map_ is the      *)
(* inverse of vector_.  Ids start at 0.                                    *)
(***************************************************************************)
EXTENDS Integers, SequencesExt

CONSTANT NULL   \* the null value, and what an unknown id is shown as

New(sub) == [subsize_ |-> Len(sub), vector_ |-> <<>>]

size(e) == e.subsize_ + Len(e.vector_)

\* The position of string s in a sequence, as an id; -1 if it is not there.
IdIn(strings, s) == SelectInSeq(strings, LAMBDA x : x = s) - 1

\* Mutant: the encoding's own ids do not start behind those of its subencoding.
string_to_int_from_0(e, sub, s) ==
  IF s = NULL THEN -1
  ELSE IF IdIn(sub, s) # -1 THEN IdIn(sub, s) ELSE IdIn(e.vector_, s)

\* The id of s: from the subencoding if it knows s, else its own; -1 for the
\* null value and for strings nobody has seen.
string_to_int(e, sub, s) ==
  LET own == IdIn(e.vector_, s)
  IN  IF s = NULL THEN -1
      ELSE IF IdIn(sub, s) # -1 THEN IdIn(sub, s)
      ELSE IF own # -1 THEN own + e.subsize_ ELSE -1

\* The encoding after s was looked up in a mutable one: strings that are new
\* to it, and to its subencoding, are inserted.
insert(e, sub, s) ==
  IF s = NULL \/ string_to_int(e, sub, s) # -1 THEN e
  ELSE [e EXCEPT !.vector_ = Append(@, s)]

int_to_string(e, sub, i) ==
  IF i < 0 \/ i >= size(e) THEN NULL
  ELSE IF i < e.subsize_ THEN sub[i + 1] ELSE e.vector_[i - e.subsize_ + 1]

-----------------------------------------------------------------------------
(* The global encoding has no subencoding. *)

AsEncoding(strings) == [subsize_ |-> 0, vector_ |-> strings]

append(strings, other) ==
  LET appended[n \in 0 .. Len(other.vector_)] ==
        IF n = 0 THEN strings
        ELSE insert(AsEncoding(appended[n - 1]), <<>>, other.vector_[n]).vector_
  IN  appended[Len(other.vector_)]
=============================================================================
