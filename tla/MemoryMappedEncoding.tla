------------------------ MODULE MemoryMappedEncoding ------------------------
(***************************************************************************)
(* containers::MemoryMappedEncoding (src/containers/                       *)
(* MemoryMappedEncoding.cpp) and memmap::StringVector, the encoding that   *)
(* keeps its strings in the memory-mapped pool: the hash of a string leads *)
(* through a B-tree (here a function, see MemmapIndex) to an element of    *)
(* rownums_, which holds the string's id or, when hashes collide, a vector *)
(* of ids.                                                                 *)
(*                                                                         *)
(* One global encoding is extended by requests: a request reads strings    *)
(* with an encoding of its own on top of the global one and appends it to  *)
(* the global one at the end.  The lock of the data frame manager keeps    *)
(* the global encoding from growing in between.  The strings are saved     *)
(* with the project (FileHandler) and read again at a restart.             *)
(***************************************************************************)
EXTENDS Integers, SequencesExt

CONSTANTS Texts,     \* strings, as sequences of characters
          Hash,      \* the hash function, a function on Texts
          NullText,  \* the null value
          NoRequest     \* no request is running

HASH_COLLISION == -2
NOT_FOUND == -1

Characters == UNION {Range(str) : str \in Texts}

\* What the parts of an encoding are made of.
EncodingParts ==
  [btree_         : UNION {[hashes -> Nat] : hashes \in SUBSET Range(Hash)},
   rownums_       : Seq([first : Int, second : Seq(Int)]),
   string_vector_ : [data_ : Seq(Characters), indptr_ : Seq(Nat)],
   subsize_       : Nat]

ASSUME MemoryMappedEncodingAssumption ==
  /\ Texts \subseteq Seq(Characters)
  /\ DOMAIN Hash = Texts
  /\ NullText \notin Texts
  /\ NoRequest \notin EncodingParts

VARIABLES global,    \* the global encoding
          request,   \* the encoding of the running request, or NoRequest
          file,      \* the strings saved with the project
          issued,    \* the ids the global encoding stands for: pairs of id and string
          promised   \* the ids the request's encoding has handed out

vars == <<global, request, file, issued, promised>>

-----------------------------------------------------------------------------
(* StringVector: all characters, and where each string begins and ends *)

EmptyStrings == [data_ |-> <<>>, indptr_ |-> <<0>>]

NumStrings(sv) == Len(sv.indptr_) - 1

StringAt(sv, i) == SubSeq(sv.data_, sv.indptr_[i + 1] + 1, sv.indptr_[i + 2])

push_back(sv, str) ==
  [data_   |-> sv.data_ \o str,
   indptr_ |-> Append(sv.indptr_, Last(sv.indptr_) + Len(str))]

StringsOf(sv) == [i \in 1..NumStrings(sv) |-> StringAt(sv, i - 1)]

-----------------------------------------------------------------------------
(* MemoryMappedEncoding *)

New(subsize) == [btree_ |-> <<>>, rownums_ |-> <<>>,
                 string_vector_ |-> EmptyStrings, subsize_ |-> subsize]

size(enc) == enc.subsize_ + NumStrings(enc.string_vector_)

Own(enc, id) == StringAt(enc.string_vector_, id - enc.subsize_)

\* The id of str among the encoding's own strings.
OwnId(enc, str) ==
  LET p   == enc.rownums_[enc.btree_[Hash[str]]]
      ids == IF p.first = HASH_COLLISION THEN p.second ELSE <<p.first>>
      pos == SelectInSeq(ids, LAMBDA id : Own(enc, id) = str)
  IN  IF Hash[str] \notin DOMAIN enc.btree_ \/ pos = 0 THEN NOT_FOUND ELSE ids[pos]

\* The tree keeps the element that a key leads to already.
Entered(tree, key, element) ==
  [k \in DOMAIN tree \union {key} |-> IF k \in DOMAIN tree THEN tree[k] ELSE element]

\* Mutant: a second collision is taken for a first one.
insert_first_collision(enc, str) ==
  LET ix  == size(enc)
      h   == Hash[str]
      row == enc.btree_[h]
      Collided(p) == [first  |-> HASH_COLLISION,
                      second |-> IF p.first # HASH_COLLISION THEN <<p.first, ix>> ELSE p.second]
  IN  [btree_         |-> Entered(enc.btree_, h, Len(enc.rownums_) + 1),
       rownums_       |-> IF h \notin DOMAIN enc.btree_
                          THEN Append(enc.rownums_, [first |-> ix, second |-> <<>>])
                          ELSE [enc.rownums_ EXCEPT ![row] = Collided(@)],
       string_vector_ |-> push_back(enc.string_vector_, str),
       subsize_       |-> enc.subsize_]

insert(enc, str) ==
  LET ix  == size(enc)
      h   == Hash[str]
      row == enc.btree_[h]
      Collided(p) == IF p.first # HASH_COLLISION
                     THEN [first |-> HASH_COLLISION, second |-> <<p.first, ix>>]
                     ELSE [p EXCEPT !.second = Append(@, ix)]
  IN  [btree_         |-> Entered(enc.btree_, h, Len(enc.rownums_) + 1),
       rownums_       |-> IF h \notin DOMAIN enc.btree_
                          THEN Append(enc.rownums_, [first |-> ix, second |-> <<>>])
                          ELSE [enc.rownums_ EXCEPT ![row] = Collided(@)],
       string_vector_ |-> push_back(enc.string_vector_, str),
       subsize_       |-> enc.subsize_]

LookupOwn(enc, str) == IF str = NullText THEN NOT_FOUND ELSE OwnId(enc, str)

\* The const version; sub is the subencoding, which has none itself, or NoRequest.
Lookup(enc, sub, str) ==
  IF sub # NoRequest /\ LookupOwn(sub, str) # NOT_FOUND
  THEN LookupOwn(sub, str) ELSE LookupOwn(enc, str)

\* The version that inserts what it does not find: the encoding afterwards.
string_to_int(enc, sub, str) ==
  IF str = NullText \/ Lookup(enc, sub, str) # NOT_FOUND THEN enc ELSE insert(enc, str)

int_to_string(enc, sub, id) ==
  IF id < 0 \/ id >= size(enc) THEN NullText
  ELSE IF sub # NoRequest /\ id < enc.subsize_ THEN StringAt(sub.string_vector_, id)
  ELSE Own(enc, id)

\* enc after the strings were looked up in it, one after the other.
Interned(enc, strs) ==
  LET interned[n \in 0 .. Len(strs)] ==
        IF n = 0 THEN enc ELSE string_to_int(interned[n - 1], NoRequest, strs[n])
  IN  interned[Len(strs)]

\* append without the other's subencoding, which is enc itself.
append(enc, other) == Interned(enc, StringsOf(other.string_vector_))

\* operator=: all old strings are forgotten.
Assign(strs) == Interned(New(0), strs)

-----------------------------------------------------------------------------
(* The engine's use *)

Init == global = New(0) /\ request = NoRequest /\ file = <<>> /\ issued = {} /\ promised = {}

Sub == IF request = NoRequest THEN NoRequest ELSE global

\* Under the write lock a handler encodes straight into the global encoding.
Intern(str) ==
  /\ request = NoRequest
  /\ global' = string_to_int(global, NoRequest, str)
  /\ issued' = issued \union {<<Lookup(global', NoRequest, str), str>>}
  /\ UNCHANGED <<request, file, promised>>

BeginRequest ==
  /\ request = NoRequest
  /\ request' = New(size(global))
  /\ UNCHANGED <<global, file, issued, promised>>

Encode(str) ==
  /\ request # NoRequest
  /\ request' = string_to_int(request, global, str)
  /\ promised' = promised \union {<<Lookup(request', global, str), str>>}
  /\ UNCHANGED <<global, file, issued>>

Commit ==
  /\ request # NoRequest
  /\ global' = append(global, request)
  /\ issued' = issued \union promised
  /\ request' = NoRequest /\ promised' = {}
  /\ UNCHANGED file

\* The handler has thrown: its encoding and its columns are gone.
Abandon ==
  /\ request # NoRequest
  /\ request' = NoRequest /\ promised' = {}
  /\ UNCHANGED <<global, file, issued>>

save_encodings ==
  /\ size(global) > 0
  /\ file' = StringsOf(global.string_vector_)
  /\ UNCHANGED <<global, request, issued, promised>>

\* Columns that were saved have ids that were saved with them.
load_encodings ==
  /\ global' = Assign(file)
  /\ request' = NoRequest /\ promised' = {}
  /\ issued' = {p \in issued : p[1] < Len(file)}
  /\ UNCHANGED file

Next == \/ \E str \in Texts \union {NullText} : Intern(str) \/ Encode(str)
        \/ BeginRequest \/ Commit \/ Abandon
        \/ save_encodings \/ load_encodings

Spec == Init /\ [][Next]_vars

-----------------------------------------------------------------------------
(* Properties *)

Encodings == {global, request} \ {NoRequest}

TypeOK ==
  /\ \A enc \in Encodings :
       /\ Range(enc.btree_) = DOMAIN enc.rownums_
       /\ Len(enc.string_vector_.data_) = Last(enc.string_vector_.indptr_)
       /\ enc.subsize_ \in Nat
  /\ Range(file) \subseteq Texts
  /\ issued \union promised \subseteq (Nat \X Texts) \union {<<NOT_FOUND, NullText>>}

\* "Returns the integer mapped to a string" (MemoryMappedEncoding.hpp): an id
\* that a column holds keeps its string while hashes collide and vectors grow,
\* when the request's encoding is appended to the global one, and after the
\* strings were saved and loaded.
IdsKeepTheirMeaning ==
  /\ \A p \in issued : int_to_string(global, NoRequest, p[1]) = p[2]
  /\ request # NoRequest =>
       \A p \in promised : int_to_string(request, global, p[1]) = p[2]

\* The engine compares categories and join keys by their ids: a string that had
\* two ids would not match itself.
StringsHaveOneId ==
  \A p, q \in issued \union promised : p[2] = q[2] => p[1] = q[1]

V(enc) == [subsize_ |-> enc.subsize_, vector_ |-> StringsOf(enc.string_vector_)]
InMemory == INSTANCE Encoding WITH NULL <- NullText

\* The two implementations behind containers::Encoding answer alike: this one
\* finds by hashes and vectors of ids what the in-memory one finds in its map.
AnswersAsInMemory ==
  \A enc \in Encodings, str \in Texts \union {NullText} :
    LET sub == IF enc = global THEN NoRequest ELSE global
    IN  Lookup(enc, sub, str) =
          InMemory!string_to_int(V(enc), IF sub = NoRequest THEN <<>> ELSE V(sub).vector_, str)

\* The memory-mapped encoding keeps what an id means and gives a string one id,
\* while hashes collide, vectors grow and requests are committed or abandoned, and
\* answers as the encoding in memory does (containers::Encoding has either).
EncodingAnswersAsInMemory ==
  IdsKeepTheirMeaning /\ StringsHaveOneId /\ AnswersAsInMemory
=============================================================================
