--------------------------- MODULE Containers_proofs ---------------------------
(***************************************************************************)
(* Proofs about the containers: the memory-mapped encoding and the data    *)
(* frames.                                                                 *)
(*                                                                         *)
(* MemoryMappedEncoding: an id keeps its string, a string has one id, and  *)
(* the hashes lead to the answers that the encoding in memory gives by     *)
(* searching.  Good says what a single encoding is: its vector of          *)
(* characters has its strings in order, and the ids below a hash are       *)
(* exactly those of the strings with that hash.  Insert shows that it      *)
(* stays good, for a new hash, a first and a later collision, and          *)
(* LookupFinds that it then finds what it holds, with an encoding below it *)
(* or without.  Inv adds what holds between the global encoding, the one   *)
(* of the running request on top of it, the file, which is a beginning of  *)
(* the global one, and the ids that were handed out.                       *)
(*                                                                         *)
(* DataFrame: a fingerprint stands for one content, an index finds exactly *)
(* the rows of its column, and a data frame is a table.  GoodFrame says    *)
(* what a data frame is on its heap: columns of one length with data of    *)
(* their own and different names, and for every join key an index whose    *)
(* map holds the rows that come before begin_.  Each operation takes a     *)
(* good data frame to a good one or to an exception, and is followed       *)
(* through what it leaves of the heap: it only adds to it (Grown,          *)
(* OfItsOwn, OnTopOf, LoadedAs) or, when it appends, changes what its own  *)
(* columns and indices point to (ChangedOwn).  FrameInv adds that data     *)
(* frames share nothing, so that no request changes what it did not name,  *)
(* and AnswerKeeps draws the conclusion for all requests.                  *)
(***************************************************************************)
EXTENDS MemoryMappedEncoding, DataFrame, RecursionTheorems, SequenceTheorems, FiniteSetTheorems

\* No string has two ids.
NoDuplicates(s) == \A i, j \in 1 .. Len(s) : s[i] = s[j] => i = j

Holds(s, x) == \E i \in 1 .. Len(s) : s[i] = x

-----------------------------------------------------------------------------
(* StringVector *)

GoodStrings(sv) ==
  /\ sv \in [data_ : Seq(Characters), indptr_ : Seq(Nat)]
  /\ Len(sv.indptr_) >= 1
  /\ sv.indptr_[Len(sv.indptr_)] = Len(sv.data_)
  /\ \A i, j \in 1 .. Len(sv.indptr_) : i <= j => sv.indptr_[i] <= sv.indptr_[j]

\* A function on 1 .. n is a vector of length n.
LEMMA IsSequence ==
  ASSUME NEW S, NEW n \in Nat, NEW s \in [1 .. n -> S]
  PROVE  s \in Seq(S) /\ Len(s) = n
OBVIOUS

\* push_back keeps the elements of a vector and puts the new one behind them.
LEMMA AppendElements ==
  ASSUME NEW S, NEW s \in Seq(S), NEW x \in S
  PROVE  /\ Append(s, x) \in Seq(S) /\ Len(Append(s, x)) = Len(s) + 1 /\ Len(s) \in Nat
         /\ Append(s, x) = [i \in 1 .. Len(s) + 1 |-> IF i = Len(s) + 1 THEN x ELSE s[i]]
         /\ \A i \in 1 .. Len(s) : Append(s, x)[i] = s[i]
         /\ Append(s, x)[Len(s) + 1] = x
<1> DEFINE a == Append(s, x)
<1>1. /\ a \in Seq(S) /\ Len(a) = Len(s) + 1 /\ Len(s) \in Nat
      /\ \A i \in 1 .. Len(s) : a[i] = s[i]
      /\ a[Len(s) + 1] = x
  OBVIOUS
<1> HIDE DEF a
<1>2. a = [i \in 1 .. Len(s) + 1 |-> IF i = Len(s) + 1 THEN x ELSE s[i]]
  <2>1. a = [i \in 1 .. Len(s) + 1 |-> a[i]]
    BY <1>1
  <2>2. \A i \in 1 .. Len(s) + 1 : a[i] = IF i = Len(s) + 1 THEN x ELSE s[i]
    BY <1>1
  <2> QED
    BY <2>1, <2>2
<1> QED
  BY <1>1, <1>2 DEF a

\* A part of a vector stays what it is when others are inserted behind the vector.
LEMMA WithinTheFirst ==
  ASSUME NEW S, NEW s \in Seq(S), NEW u \in Seq(S),
         NEW a \in Nat, NEW b \in Nat, a <= b, b <= Len(s)
  PROVE  /\ SubSeq(s \o u, a + 1, b) = SubSeq(s, a + 1, b)
         /\ SubSeq(s, a + 1, b) \in Seq(S)
<1>1. /\ Len(s) \in Nat /\ Len(s \o u) = Len(s) + Len(u) /\ Len(u) \in Nat
      /\ \A i \in 1 .. Len(s) : (s \o u)[i] = s[i]
  OBVIOUS
<1> DEFINE w == s \o u
<1>2. w \in Seq(S)
  OBVIOUS
<1> HIDE DEF w
<1>3. /\ SubSeq(w, a + 1, b) = [i \in 1 .. b - a |-> w[a + i]]
      /\ SubSeq(s, a + 1, b) = [i \in 1 .. b - a |-> s[a + i]]
  BY <1>2, Z3
<1>4. \A i \in 1 .. b - a : a + i \in 1 .. Len(s) /\ w[a + i] = s[a + i] /\ s[a + i] \in S
  BY <1>1 DEF w
<1>5. SubSeq(s, a + 1, b) \in Seq(S)
  <2>1. b - a \in Nat
    OBVIOUS
  <2> QED
    BY <1>3, <1>4, <2>1
<1> QED
  BY <1>3, <1>4, <1>5 DEF w

\* What is inserted behind a vector is read between its old and its new end.
LEMMA TheSecond ==
  ASSUME NEW S, NEW s \in Seq(S), NEW u \in Seq(S)
  PROVE  SubSeq(s \o u, Len(s) + 1, Len(s) + Len(u)) = u
<1>1. /\ Len(s) \in Nat /\ Len(s \o u) = Len(s) + Len(u) /\ Len(u) \in Nat
      /\ \A i \in 1 .. Len(u) : (s \o u)[Len(s) + i] = u[i]
  OBVIOUS
<1> DEFINE w == s \o u
           a == Len(s)
           b == Len(s) + Len(u)
<1>2. w \in Seq(S)
  OBVIOUS
<1> HIDE DEF w
<1>3. SubSeq(w, a + 1, b) = [i \in 1 .. b - a |-> w[a + i]]
  BY <1>1, <1>2, Z3
<1>4. b - a = Len(u) /\ u = [i \in 1 .. Len(u) |-> u[i]]
  BY <1>1
<1> QED
  BY <1>1, <1>3, <1>4 DEF w

\* No string is lost or changed when another one comes after it.
LEMMA PushBack ==
  ASSUME NEW sv, GoodStrings(sv), NEW str \in Seq(Characters)
  PROVE  /\ GoodStrings(push_back(sv, str))
         /\ StringsOf(push_back(sv, str)) = Append(StringsOf(sv), str)
<1> DEFINE data == sv.data_
           ptr == sv.indptr_
           n == Len(ptr)
           nv == push_back(sv, str)
           last == Len(data) + Len(str)
<1>1. data \in Seq(Characters) /\ ptr \in Seq(Nat) /\ n \in Nat /\ n >= 1 /\ ptr[n] = Len(data)
  BY DEF GoodStrings
<1>2. \A i, j \in 1 .. n : i <= j => ptr[i] <= ptr[j]
  BY DEF GoodStrings
<1>3. nv.data_ = data \o str /\ nv.indptr_ = Append(ptr, last) /\ DOMAIN nv = {"data_", "indptr_"}
      /\ nv = [data_ |-> nv.data_, indptr_ |-> nv.indptr_]
  BY <1>1 DEF push_back, Last
<1>4. StringsOf(sv) = [i \in 1 .. n - 1 |-> SubSeq(data, ptr[i] + 1, ptr[i + 1])]
  BY <1>1 DEF StringsOf, NumStrings, StringAt
<1>5. /\ Len(Append(ptr, last)) = n + 1 /\ Append(ptr, last)[n + 1] = last
      /\ \A i \in 1 .. n : Append(ptr, last)[i] = ptr[i]
      /\ Append(ptr, last) \in Seq(Nat)
  BY <1>1
<1>6. StringsOf(nv) = [i \in 1 .. n |-> SubSeq(data \o str, Append(ptr, last)[i] + 1, Append(ptr, last)[i + 1])]
  <2>1. NumStrings(nv) = n
    BY <1>1, <1>3, <1>5 DEF NumStrings
  <2>2. ASSUME NEW i \in 1 .. n
        PROVE  StringAt(nv, i - 1) =
                 SubSeq(data \o str, Append(ptr, last)[i] + 1, Append(ptr, last)[i + 1])
    <3>1. (i - 1) + 1 = i /\ (i - 1) + 2 = i + 1
      BY <1>1
    <3> QED
      BY <1>3, <3>1 DEF StringAt
  <2> QED
    BY <2>1, <2>2 DEF StringsOf
<1> HIDE DEF data, ptr, nv
<1>7. data \o str \in Seq(Characters) /\ Len(data \o str) = last
  BY <1>1
<1>8. GoodStrings(nv)
  <2> DEFINE q == Append(ptr, last)
  <2>1. \A i \in 1 .. n : ptr[i] \in Nat /\ ptr[i] <= Len(data)
    BY <1>1, <1>2
  <2>2. ASSUME NEW i \in 1 .. n + 1, NEW j \in 1 .. n + 1, i <= j PROVE q[i] <= q[j]
    <3>1. CASE j = n + 1
      BY <1>1, <1>5, <2>1, <3>1
    <3>2. CASE j # n + 1
      <4>1. i \in 1 .. n /\ j \in 1 .. n
        BY <1>1, <2>2, <3>2
      <4> QED
        BY <1>2, <1>5, <2>2, <4>1
    <3> QED
      BY <3>1, <3>2
  <2> HIDE DEF q
  <2>3. q \in Seq(Nat) /\ Len(q) = n + 1 /\ q[n + 1] = last /\ nv.indptr_ = q
    BY <1>3, <1>5 DEF q
  <2>4. nv \in [data_ : Seq(Characters), indptr_ : Seq(Nat)]
    BY <1>3, <1>7, <2>3
  <2> QED
    <3>1. Len(nv.indptr_) >= 1 /\ nv.indptr_[Len(nv.indptr_)] = Len(nv.data_)
      BY <1>1, <1>3, <1>7, <2>3
    <3>2. \A i, j \in 1 .. Len(nv.indptr_) : i <= j => nv.indptr_[i] <= nv.indptr_[j]
      BY <2>2, <2>3
    <3> QED
      BY <2>4, <3>1, <3>2 DEF GoodStrings
<1>9. ASSUME NEW i \in 1 .. n - 1
      PROVE  /\ SubSeq(data \o str, ptr[i] + 1, ptr[i + 1]) = SubSeq(data, ptr[i] + 1, ptr[i + 1])
             /\ SubSeq(data, ptr[i] + 1, ptr[i + 1]) \in Seq(Characters)
  <2>1. i \in 1 .. n /\ i + 1 \in 1 .. n /\ n \in 1 .. n /\ i <= i + 1 /\ i + 1 <= n
    BY <1>1
  <2>2. ptr[i] \in Nat /\ ptr[i + 1] \in Nat
    BY <1>1, <2>1
  <2>3. ptr[i] <= ptr[i + 1] /\ ptr[i + 1] <= Len(data)
    BY <1>1, <1>2, <2>1
  <2> HIDE DEF n
  <2> QED
    BY <1>1, <2>2, <2>3, WithinTheFirst
<1>10. SubSeq(data \o str, Len(data) + 1, last) = str
  BY <1>1, TheSecond
<1>11. StringsOf(nv) = Append(StringsOf(sv), str)
  <2> DEFINE a == StringsOf(sv)
  <2>1. a \in Seq(Seq(Characters)) /\ Len(a) = n - 1
    <3>1. n - 1 \in Nat
      BY <1>1
    <3> QED
      BY <1>4, <1>9, <3>1, IsSequence
  <2>2. \A i \in 1 .. n - 1 : a[i] = SubSeq(data, ptr[i] + 1, ptr[i + 1])
    BY <1>4
  <2> HIDE DEF a
  <2>3. Append(a, str) = [i \in 1 .. n |-> IF i = n THEN str ELSE a[i]]
    <3>1. Len(a) + 1 = n
      BY <1>1, <2>1
    <3> QED
      BY <2>1, <3>1, AppendElements
  <2>4. ASSUME NEW i \in 1 .. n
        PROVE  SubSeq(data \o str, Append(ptr, last)[i] + 1, Append(ptr, last)[i + 1]) =
                 IF i = n THEN str ELSE a[i]
    <3>1. CASE i = n
      BY <1>1, <1>5, <1>10, <3>1
    <3>2. CASE i # n
      <4>1. i \in 1 .. n - 1 /\ i + 1 \in 1 .. n
        BY <1>1, <3>2
      <4> QED
        BY <1>5, <1>9, <2>2, <3>2, <4>1
    <3> QED
      BY <3>1, <3>2
  <2> QED
    BY <1>6, <2>3, <2>4 DEF a
<1> QED
  BY <1>8, <1>11 DEF nv

-----------------------------------------------------------------------------
(* The hashes *)

StringsIn(enc) == StringsOf(enc.string_vector_)

\* The ids below a hash.
Ids(enc, h) ==
  LET p == enc.rownums_[enc.btree_[h]]
  IN  IF p.first = HASH_COLLISION THEN p.second ELSE <<p.first>>

\* The ids below a hash are those of the strings with that hash.
GoodIndex(enc) ==
  /\ Range(enc.btree_) = DOMAIN enc.rownums_
  /\ \A h, k \in DOMAIN enc.btree_ : enc.btree_[h] = enc.btree_[k] => h = k
  /\ \A i \in 1 .. Len(StringsIn(enc)) : Hash[StringsIn(enc)[i]] \in DOMAIN enc.btree_
  /\ \A h \in DOMAIN enc.btree_ :
       /\ Ids(enc, h) \in Seq(Nat)
       /\ \A id \in Nat :
            Holds(Ids(enc, h), id) <=>
              \E i \in 1 .. Len(StringsIn(enc)) :
                id = enc.subsize_ + i - 1 /\ Hash[StringsIn(enc)[i]] = h

Good(enc) ==
  /\ enc \in EncodingParts
  /\ GoodStrings(enc.string_vector_)
  /\ StringsIn(enc) \in Seq(Texts) /\ NoDuplicates(StringsIn(enc))
  /\ GoodIndex(enc)

\* The members of an encoding: the tree, the row numbers of the hashes, the strings
\* with their offsets, and the number of ids below it.
LEMMA Parts ==
  ASSUME NEW enc, Good(enc)
  PROVE  /\ enc = [btree_ |-> enc.btree_, rownums_ |-> enc.rownums_,
                   string_vector_ |-> enc.string_vector_, subsize_ |-> enc.subsize_]
         /\ \E hashes \in SUBSET Range(Hash) : enc.btree_ \in [hashes -> Nat]
         /\ enc.rownums_ \in Seq([first : Int, second : Seq(Int)])
         /\ enc.string_vector_ \in [data_ : Seq(Characters), indptr_ : Seq(Nat)]
         /\ enc.subsize_ \in Nat
BY DEF Good, EncodingParts

\* The size of an encoding counts the ids below it and its own strings, and each of
\* its own ids has its string.
LEMMA Sizes ==
  ASSUME NEW enc, Good(enc)
  PROVE  /\ Len(StringsIn(enc)) \in Nat
         /\ size(enc) = enc.subsize_ + Len(StringsIn(enc)) /\ size(enc) \in Nat
         /\ \A i \in 1 .. Len(StringsIn(enc)) :
              Own(enc, enc.subsize_ + i - 1) = StringsIn(enc)[i]
<1> DEFINE sv == enc.string_vector_
<1>1. /\ sv.indptr_ \in Seq(Nat) /\ Len(sv.indptr_) >= 1 /\ enc.subsize_ \in Nat
  BY Parts DEF Good, GoodStrings
<1>2. NumStrings(sv) \in Nat
  BY <1>1 DEF NumStrings
<1>3. Len(StringsIn(enc)) = NumStrings(sv)
  BY <1>2 DEF StringsIn, StringsOf
<1>4. ASSUME NEW i \in 1 .. NumStrings(sv)
      PROVE  Own(enc, enc.subsize_ + i - 1) = StringsIn(enc)[i]
  <2>1. (enc.subsize_ + i - 1) - enc.subsize_ = i - 1
    BY <1>1, <1>2
  <2> QED
    BY <2>1 DEF Own, StringsIn, StringsOf
<1> QED
  BY <1>1, <1>2, <1>3, <1>4 DEF size

\* A string is found if and only if the encoding holds it, and under its own id.
LEMMA OwnIdFinds ==
  ASSUME NEW enc, Good(enc), NEW str \in Texts
  PROVE  /\ \A i \in 1 .. Len(StringsIn(enc)) :
              StringsIn(enc)[i] = str => OwnId(enc, str) = enc.subsize_ + i - 1
         /\ ~ Holds(StringsIn(enc), str) => OwnId(enc, str) = NOT_FOUND
<1> DEFINE h == Hash[str]
           strs == StringsIn(enc)
           ids == Ids(enc, h)
           I == {k \in 1 .. Len(ids) : Own(enc, ids[k]) = str}
           pos == IF I # {} THEN Min(I) ELSE 0
<1>1. OwnId(enc, str) = IF h \notin DOMAIN enc.btree_ \/ pos = 0 THEN NOT_FOUND ELSE ids[pos]
  BY DEF OwnId, SelectInSeq, Ids
<1>2. I \subseteq Nat /\ 0 \notin I
  OBVIOUS
<1>3. I # {} => pos \in I /\ pos # 0
  BY <1>2, LeastNumber DEF Min
<1> HIDE DEF pos, I
<1>4. ASSUME NEW i \in 1 .. Len(strs), strs[i] = str
      PROVE  OwnId(enc, str) = enc.subsize_ + i - 1
  <2> DEFINE id == enc.subsize_ + i - 1
  <2>1. h \in DOMAIN enc.btree_
    BY <1>4 DEF Good, GoodIndex
  <2>2. id \in Nat /\ Own(enc, id) = str
    BY <1>4, Parts, Sizes
  <2> HIDE DEF id
  <2>3. Holds(ids, id)
    BY <1>4, <2>1, <2>2 DEF Good, GoodIndex, id
  <2>4. I # {}
    BY <2>2, <2>3 DEF Holds, I
  <2>5. pos \in 1 .. Len(ids) /\ Own(enc, ids[pos]) = str
    BY <1>3, <2>4 DEF I
  <2>6. ids \in Seq(Nat)
    BY <2>1 DEF Good, GoodIndex
  <2>7. ids[pos] \in Nat /\ Holds(ids, ids[pos])
    BY <2>5, <2>6 DEF Holds
  <2>8. PICK j \in 1 .. Len(strs) : ids[pos] = enc.subsize_ + j - 1
    BY <2>1, <2>7 DEF Good, GoodIndex
  <2>9. strs[j] = str
    BY <2>5, <2>8, Sizes
  <2>10. j = i
    BY <1>4, <2>9 DEF Good, NoDuplicates
  <2> QED
    BY <1>1, <1>3, <2>1, <2>4, <2>8, <2>10
<1>5. ASSUME ~ Holds(strs, str) PROVE OwnId(enc, str) = NOT_FOUND
  <2>1. SUFFICES ASSUME h \in DOMAIN enc.btree_, I # {} PROVE FALSE
    BY <1>1 DEF pos
  <2>2. pos \in 1 .. Len(ids) /\ Own(enc, ids[pos]) = str
    BY <1>3, <2>1 DEF I
  <2>3. ids \in Seq(Nat)
    BY <2>1 DEF Good, GoodIndex
  <2>4. ids[pos] \in Nat /\ Holds(ids, ids[pos])
    BY <2>2, <2>3 DEF Holds
  <2>5. PICK j \in 1 .. Len(strs) : ids[pos] = enc.subsize_ + j - 1
    BY <2>1, <2>4 DEF Good, GoodIndex
  <2>6. strs[j] = str
    BY <2>2, <2>5, Sizes
  <2> QED
    BY <1>5, <2>6 DEF Holds
<1> QED
  BY <1>4, <1>5

\* An appended vector holds what it held and the new element.
LEMMA HoldsAppended ==
  ASSUME NEW S, NEW s \in Seq(S), NEW x \in S
  PROVE  \A y : Holds(Append(s, x), y) <=> Holds(s, y) \/ y = x
<1> DEFINE a == Append(s, x)
<1>1. /\ Len(a) = Len(s) + 1 /\ Len(s) \in Nat /\ a[Len(s) + 1] = x
      /\ \A i \in 1 .. Len(s) : a[i] = s[i]
  BY AppendElements
<1> HIDE DEF a
<1>2. \A i \in 1 .. Len(a) : i \in 1 .. Len(s) \/ i = Len(s) + 1
  BY <1>1
<1>3. \A i \in 1 .. Len(s) : i \in 1 .. Len(a)
  BY <1>1
<1>4. Len(s) + 1 \in 1 .. Len(a)
  BY <1>1
<1> QED
  BY <1>1, <1>2, <1>3, <1>4 DEF Holds, a

\* A string that was not there is no duplicate.
LEMMA NewWithoutDuplicate ==
  ASSUME NEW S, NEW s \in Seq(S), NEW x \in S, NoDuplicates(s), ~ Holds(s, x)
  PROVE  NoDuplicates(Append(s, x))
<1> DEFINE a == Append(s, x)
<1>1. /\ Len(a) = Len(s) + 1 /\ Len(s) \in Nat /\ a[Len(s) + 1] = x
      /\ \A i \in 1 .. Len(s) : a[i] = s[i]
  BY AppendElements
<1> HIDE DEF a
<1>2. \A i \in 1 .. Len(a) : i \in 1 .. Len(s) \/ i = Len(s) + 1
  BY <1>1
<1> QED
  BY <1>1, <1>2 DEF NoDuplicates, Holds, a

\* The first string with its hash.
LEMMA InsertNewHash ==
  ASSUME NEW enc, Good(enc), NEW str \in Texts, Hash[str] \notin DOMAIN enc.btree_
  PROVE  LET new == insert(enc, str)
         IN  /\ new \in EncodingParts
             /\ Range(new.btree_) = DOMAIN new.rownums_
             /\ DOMAIN new.btree_ = DOMAIN enc.btree_ \union {Hash[str]}
             /\ \A h, k \in DOMAIN new.btree_ : new.btree_[h] = new.btree_[k] => h = k
             /\ \A h \in DOMAIN enc.btree_ : Ids(new, h) = Ids(enc, h)
             /\ Ids(new, Hash[str]) = <<size(enc)>>
             /\ new.subsize_ = enc.subsize_
             /\ new.string_vector_ = push_back(enc.string_vector_, str)
<1> DEFINE h0 == Hash[str]
           ix == size(enc)
           n == Len(enc.rownums_)
           P == [first : Int, second : Seq(Int)]
           tree == enc.btree_
           rows == enc.rownums_
           rows2 == Append(rows, [first |-> ix, second |-> <<>>])
           tree2 == Entered(tree, h0, n + 1)
           new == insert(enc, str)
<1>1. /\ new.rownums_ = rows2 /\ new.btree_ = tree2
      /\ new.string_vector_ = push_back(enc.string_vector_, str)
      /\ new.subsize_ = enc.subsize_
      /\ new = [btree_ |-> new.btree_, rownums_ |-> new.rownums_,
                string_vector_ |-> new.string_vector_, subsize_ |-> new.subsize_]
  <2> DEFINE sv == push_back(enc.string_vector_, str)
             tree3 == tree2
  <2>1. new = [btree_ |-> tree3, rownums_ |-> rows2, string_vector_ |-> sv,
               subsize_ |-> enc.subsize_]
    BY DEF insert
  <2> HIDE DEF sv, new, rows2, tree3
  <2>2. /\ new.rownums_ = rows2 /\ new.btree_ = tree3 /\ new.string_vector_ = sv
        /\ new.subsize_ = enc.subsize_
    BY <2>1
  <2> QED
    BY <2>1, <2>2, Zenon DEF sv, tree3
<1>2. PICK H \in SUBSET Range(Hash) : tree \in [H -> Nat]
  BY Parts
<1>3. rows \in Seq(P) /\ n \in Nat
  BY Parts
<1>4. ix \in Nat /\ [first |-> ix, second |-> <<>>] \in P
  BY Sizes
<1>5. h0 \in Range(Hash)
  BY MemoryMappedEncodingAssumption DEF Range
<1>6. /\ rows2 \in Seq(P) /\ Len(rows2) = n + 1 /\ rows2[n + 1] = [first |-> ix, second |-> <<>>]
      /\ \A i \in 1 .. n : rows2[i] = rows[i]
  <2> HIDE DEF P
  <2> QED
    BY <1>3, <1>4, AppendElements
<1>7. /\ DOMAIN tree2 = DOMAIN tree \union {h0} /\ tree2[h0] = n + 1
      /\ \A h \in DOMAIN tree : tree2[h] = tree[h]
      /\ tree2 = [k \in DOMAIN tree2 |-> tree2[k]]
  BY DEF Entered
<1>8. \A h \in DOMAIN tree : tree[h] \in 1 .. n /\ tree[h] # n + 1
  <2>1. Range(tree) = 1 .. n
    BY <1>3 DEF Good, GoodIndex
  <2> QED
    BY <1>3, <2>1 DEF Range
<1> HIDE DEF new, rows2, tree2, P, h0, ix
<1>9. tree2 \in [H \union {h0} -> Nat] /\ H \union {h0} \in SUBSET Range(Hash)
  BY <1>2, <1>3, <1>5, <1>7
<1>10. new \in EncodingParts
  <2>1. push_back(enc.string_vector_, str) \in [data_ : Seq(Characters), indptr_ : Seq(Nat)]
    BY PushBack, MemoryMappedEncodingAssumption DEF Good, GoodStrings
  <2>2. enc.subsize_ \in Nat
    BY Parts
  <2>3. tree2 \in UNION {[hashes -> Nat] : hashes \in SUBSET Range(Hash)}
    BY <1>9
  <2> QED
    BY <1>1, <1>6, <2>1, <2>2, <2>3 DEF EncodingParts, P
<1>11. Range(tree2) = DOMAIN rows2
  <2>1. DOMAIN rows2 = 1 .. n + 1 /\ Range(tree) = 1 .. n
    BY <1>3, <1>6 DEF Good, GoodIndex
  <2>2. Range(tree2) = Range(tree) \union {n + 1}
    BY <1>7 DEF Range
  <2> QED
    BY <1>3, <2>1, <2>2
<1>12. ASSUME NEW h \in DOMAIN tree2, NEW k \in DOMAIN tree2, tree2[h] = tree2[k] PROVE h = k
  <2>1. \A i, j \in DOMAIN tree : tree[i] = tree[j] => i = j
    BY DEF Good, GoodIndex
  <2> QED
    BY <1>7, <1>8, <1>12, <2>1
<1>13. \A h \in DOMAIN tree : Ids(new, h) = Ids(enc, h)
  BY <1>1, <1>6, <1>7, <1>8 DEF Ids
<1>14. Ids(new, h0) = <<ix>>
  <2>1. new.rownums_[new.btree_[h0]] = [first |-> ix, second |-> <<>>]
    BY <1>1, <1>6, <1>7
  <2>2. ix # HASH_COLLISION
    BY <1>4 DEF HASH_COLLISION
  <2> QED
    BY <2>1, <2>2 DEF Ids
<1> QED
  BY <1>1, <1>7, <1>10, <1>11, <1>12, <1>13, <1>14 DEF new, h0, ix

\* A string whose hash another one has: the element becomes a vector of ids, or
\* the vector grows.
LEMMA InsertCollision ==
  ASSUME NEW enc, Good(enc), NEW str \in Texts, Hash[str] \in DOMAIN enc.btree_
  PROVE  LET new == insert(enc, str)
         IN  /\ new \in EncodingParts
             /\ Range(new.btree_) = DOMAIN new.rownums_
             /\ new.btree_ = enc.btree_
             /\ \A h \in DOMAIN enc.btree_ \ {Hash[str]} : Ids(new, h) = Ids(enc, h)
             /\ Ids(new, Hash[str]) = Append(Ids(enc, Hash[str]), size(enc))
             /\ new.subsize_ = enc.subsize_
             /\ new.string_vector_ = push_back(enc.string_vector_, str)
<1> DEFINE h0 == Hash[str]
           ix == size(enc)
           n == Len(enc.rownums_)
           P == [first : Int, second : Seq(Int)]
           tree == enc.btree_
           rows == enc.rownums_
           b == tree[h0]
           p == rows[b]
           q == IF p.first # HASH_COLLISION
                THEN [first |-> HASH_COLLISION, second |-> <<p.first, ix>>]
                ELSE [p EXCEPT !.second = Append(@, ix)]
           rows2 == [rows EXCEPT ![b] = q]
           new == insert(enc, str)
<1>1. /\ new.rownums_ = rows2 /\ new.btree_ = Entered(tree, h0, n + 1)
      /\ new.string_vector_ = push_back(enc.string_vector_, str)
      /\ new.subsize_ = enc.subsize_
      /\ new = [btree_ |-> new.btree_, rownums_ |-> new.rownums_,
                string_vector_ |-> new.string_vector_, subsize_ |-> new.subsize_]
  <2> DEFINE sv == push_back(enc.string_vector_, str)
             tree3 == Entered(tree, h0, n + 1)
  <2>1. new = [btree_ |-> tree3, rownums_ |-> rows2, string_vector_ |-> sv,
               subsize_ |-> enc.subsize_]
    BY DEF insert
  <2> HIDE DEF sv, new, rows2, tree3
  <2>2. /\ new.rownums_ = rows2 /\ new.btree_ = tree3 /\ new.string_vector_ = sv
        /\ new.subsize_ = enc.subsize_
    BY <2>1
  <2> QED
    BY <2>1, <2>2, Zenon DEF sv, tree3
<1>2. PICK H \in SUBSET Range(Hash) : tree \in [H -> Nat]
  BY Parts
<1>3. Entered(tree, h0, n + 1) = tree
  <2>1. DOMAIN tree \union {h0} = DOMAIN tree /\ tree = [k \in DOMAIN tree |-> tree[k]]
    BY <1>2
  <2> QED
    BY <2>1 DEF Entered
<1>4. rows \in Seq(P) /\ n \in Nat
  BY Parts
<1>5. ix \in Nat
  BY Sizes
<1>6. Range(tree) = 1 .. n /\ DOMAIN rows = 1 .. n
  BY <1>4 DEF Good, GoodIndex
<1>7. \A h \in DOMAIN tree : tree[h] \in 1 .. n /\ (h # h0 => tree[h] # b)
  <2>1. \A i, j \in DOMAIN tree : tree[i] = tree[j] => i = j
    BY DEF Good, GoodIndex
  <2> QED
    BY <1>6, <2>1 DEF Range
<1>8. p \in P
  <2>1. b \in 1 .. n
    BY <1>7
  <2> HIDE DEF P, b
  <2> QED
    BY <1>4, <2>1
<1>9. /\ q \in P /\ q.first = HASH_COLLISION
      /\ q.second = Append(Ids(enc, h0), ix)
  <2>1. Ids(enc, h0) = IF p.first = HASH_COLLISION THEN p.second ELSE <<p.first>>
    BY DEF Ids
  <2>2. HASH_COLLISION \in Int /\ ix \in Int /\ p.first \in Int /\ p.second \in Seq(Int)
    BY <1>5, <1>8 DEF HASH_COLLISION
  <2> HIDE DEF ix, p
  <2>3. CASE p.first # HASH_COLLISION
    <3>1. <<p.first, ix>> = Append(<<p.first>>, ix) /\ <<p.first, ix>> \in Seq(Int)
      BY <2>2
    <3>2. q = [first |-> HASH_COLLISION, second |-> <<p.first, ix>>]
      BY <2>3
    <3> QED
      BY <2>1, <2>2, <2>3, <3>1, <3>2
  <2>4. CASE p.first = HASH_COLLISION
    <3>1. Append(p.second, ix) \in Seq(Int)
      BY <2>2
    <3>2. q = [first |-> HASH_COLLISION, second |-> Append(p.second, ix)]
      BY <1>8, <2>4
    <3> QED
      BY <2>1, <2>2, <2>4, <3>1, <3>2
  <2> QED
    BY <2>3, <2>4
<1> HIDE DEF new, h0, ix, P, q, p
<1>10. /\ rows2 \in Seq(P) /\ DOMAIN rows2 = 1 .. n /\ rows2[b] = q
       /\ \A i \in 1 .. n : i # b => rows2[i] = rows[i]
  BY <1>4, <1>6, <1>7, <1>9 DEF h0
<1> HIDE DEF rows2
<1>11. new \in EncodingParts
  <2>1. push_back(enc.string_vector_, str) \in [data_ : Seq(Characters), indptr_ : Seq(Nat)]
    BY PushBack, MemoryMappedEncodingAssumption DEF Good, GoodStrings
  <2>2. enc.subsize_ \in Nat
    BY Parts
  <2>3. tree \in UNION {[hashes -> Nat] : hashes \in SUBSET Range(Hash)}
    BY <1>2
  <2> QED
    BY <1>1, <1>3, <1>10, <2>1, <2>2, <2>3 DEF EncodingParts, P
<1>12. \A h \in DOMAIN tree \ {h0} : Ids(new, h) = Ids(enc, h)
  BY <1>1, <1>3, <1>7, <1>10 DEF Ids
<1>13. Ids(new, h0) = Append(Ids(enc, h0), ix)
  <2>1. new.rownums_[new.btree_[h0]] = q
    BY <1>1, <1>3, <1>10
  <2> QED
    BY <1>9, <2>1 DEF Ids
<1> QED
  BY <1>1, <1>3, <1>6, <1>10, <1>11, <1>12, <1>13 DEF new, h0, ix

\* Inserting a string gives it the next id, and leaves the other strings theirs.
LEMMA Insert ==
  ASSUME NEW enc, Good(enc), NEW str \in Texts, ~ Holds(StringsIn(enc), str)
  PROVE  /\ Good(insert(enc, str))
         /\ StringsIn(insert(enc, str)) = Append(StringsIn(enc), str)
         /\ insert(enc, str).subsize_ = enc.subsize_
<1> DEFINE new == insert(enc, str)
           h0 == Hash[str]
           s == StringsIn(enc)
           t == StringsIn(new)
           N == Len(s)
           tree == enc.btree_
           sub == enc.subsize_
<1>1. /\ new \in EncodingParts /\ new.subsize_ = sub
      /\ new.string_vector_ = push_back(enc.string_vector_, str)
      /\ Range(new.btree_) = DOMAIN new.rownums_
      /\ DOMAIN new.btree_ = DOMAIN tree \union {h0}
      /\ \A h, k \in DOMAIN new.btree_ : new.btree_[h] = new.btree_[k] => h = k
      /\ \A h \in DOMAIN tree : h # h0 => Ids(new, h) = Ids(enc, h)
      /\ \/ h0 \notin DOMAIN tree /\ Ids(new, h0) = <<size(enc)>>
         \/ h0 \in DOMAIN tree /\ Ids(new, h0) = Append(Ids(enc, h0), size(enc))
  <2>1. CASE h0 \notin DOMAIN tree
    BY <2>1, InsertNewHash
  <2>2. CASE h0 \in DOMAIN tree
    <3>1. DOMAIN tree \union {h0} = DOMAIN tree
      BY <2>2
    <3>2. \A h, k \in DOMAIN tree : tree[h] = tree[k] => h = k
      BY DEF Good, GoodIndex
    <3> QED
      BY <2>2, <3>1, <3>2, InsertCollision
  <2> QED
    BY <2>1, <2>2
<1>2. GoodStrings(new.string_vector_) /\ t = Append(s, str)
  BY <1>1, PushBack, MemoryMappedEncodingAssumption DEF Good, StringsIn
<1>3. /\ N \in Nat /\ size(enc) = sub + N /\ sub \in Nat /\ size(enc) \in Nat
  BY Sizes, Parts
<1>4. s \in Seq(Texts) /\ NoDuplicates(s)
  BY DEF Good
<1> HIDE DEF new, h0, s, t, N, tree, sub
<1>5. t \in Seq(Texts) /\ NoDuplicates(t)
  BY <1>2, <1>4, NewWithoutDuplicate, AppendElements DEF s
<1>6. /\ Len(t) = N + 1 /\ t[N + 1] = str
      /\ \A i \in 1 .. N : t[i] = s[i]
  BY <1>2, <1>4, AppendElements DEF N
<1>7. /\ \A i \in 1 .. N : Hash[s[i]] \in DOMAIN tree
      /\ \A h \in DOMAIN tree :
           /\ Ids(enc, h) \in Seq(Nat)
           /\ \A id \in Nat : Holds(Ids(enc, h), id) <=>
                              \E i \in 1 .. N : id = sub + i - 1 /\ Hash[s[i]] = h
  BY DEF Good, GoodIndex, s, N, tree, sub
<1>8. \A i \in 1 .. N + 1 : i \in 1 .. N \/ i = N + 1
  BY <1>3
<1>9. N + 1 \in 1 .. N + 1 /\ \A i \in 1 .. N : i \in 1 .. N + 1
  BY <1>3
<1>10. size(enc) = sub + (N + 1) - 1
  BY <1>3
<1>11. \A i \in 1 .. Len(t) : Hash[t[i]] \in DOMAIN new.btree_
  BY <1>1, <1>6, <1>7, <1>8 DEF h0
<1>12. ASSUME NEW h \in DOMAIN new.btree_
       PROVE  /\ Ids(new, h) \in Seq(Nat)
              /\ \A id \in Nat : Holds(Ids(new, h), id) <=>
                   \E i \in 1 .. Len(t) : id = sub + i - 1 /\ Hash[t[i]] = h
  <2>1. CASE h # h0
    <3>1. h \in DOMAIN tree /\ Ids(new, h) = Ids(enc, h)
      BY <1>1, <2>1
    <3>2. \A i \in 1 .. N + 1 : Hash[t[i]] = h => i \in 1 .. N /\ Hash[s[i]] = h
      BY <1>6, <1>8, <2>1 DEF h0
    <3>3. \A i \in 1 .. N : Hash[s[i]] = h => Hash[t[i]] = h
      BY <1>6
    <3>4. \A id \in Nat :
            (\E i \in 1 .. N : id = sub + i - 1 /\ Hash[s[i]] = h) <=>
              \E i \in 1 .. N + 1 : id = sub + i - 1 /\ Hash[t[i]] = h
      BY <1>9, <3>2, <3>3
    <3>5. /\ Ids(enc, h) \in Seq(Nat)
          /\ \A id \in Nat : Holds(Ids(enc, h), id) <=>
                             \E i \in 1 .. N : id = sub + i - 1 /\ Hash[s[i]] = h
      BY <1>7, <3>1
    <3> QED
      BY <1>6, <3>1, <3>4, <3>5
  <2>2. CASE h = h0
    <3>1. \A id \in Nat :
            (\E i \in 1 .. N + 1 : id = sub + i - 1 /\ Hash[t[i]] = h0) <=>
              (\E i \in 1 .. N : id = sub + i - 1 /\ Hash[s[i]] = h0) \/ id = size(enc)
      BY <1>6, <1>8, <1>9, <1>10 DEF h0
    <3>2. CASE h0 \notin DOMAIN tree
      <4>1. Ids(new, h0) = <<size(enc)>> /\ <<size(enc)>> \in Seq(Nat)
        BY <1>1, <1>3, <3>2
      <4>2. \A id : Holds(<<size(enc)>>, id) <=> id = size(enc)
        BY <1>3 DEF Holds
      <4>3. \A i \in 1 .. N : Hash[s[i]] # h0
        BY <1>7, <3>2
      <4> QED
        BY <1>6, <2>2, <3>1, <4>1, <4>2, <4>3
    <3>3. CASE h0 \in DOMAIN tree
      <4>1. Ids(new, h0) = Append(Ids(enc, h0), size(enc)) /\ Ids(enc, h0) \in Seq(Nat)
        BY <1>1, <1>7, <3>3
      <4>2. \A id : Holds(Ids(new, h0), id) <=> Holds(Ids(enc, h0), id) \/ id = size(enc)
        BY <1>3, <4>1, HoldsAppended
      <4>3. Ids(new, h0) \in Seq(Nat)
        BY <1>3, <4>1, AppendElements
      <4>4. \A id \in Nat : Holds(Ids(enc, h0), id) <=>
              \E i \in 1 .. N : id = sub + i - 1 /\ Hash[s[i]] = h0
        BY <1>7, <3>3
      <4> QED
        BY <1>6, <2>2, <3>1, <4>2, <4>3, <4>4
    <3> QED
      BY <3>2, <3>3
  <2> QED
    BY <2>1, <2>2
<1>13. GoodIndex(new)
  BY <1>1, <1>11, <1>12 DEF GoodIndex, t
<1> QED
  BY <1>1, <1>2, <1>5, <1>13 DEF Good, new, t, s, sub

\* A new encoding has no strings of its own.
LEMMA Empty ==
  ASSUME NEW n \in Nat
  PROVE  Good(New(n)) /\ StringsIn(New(n)) = <<>> /\ New(n).subsize_ = n
<1> DEFINE e == New(n)
<1>1. /\ e = [btree_ |-> <<>>, rownums_ |-> <<>>, string_vector_ |-> EmptyStrings, subsize_ |-> n]
      /\ e.btree_ = <<>> /\ e.rownums_ = <<>> /\ e.subsize_ = n
      /\ e.string_vector_ = [data_ |-> <<>>, indptr_ |-> <<0>>]
  BY DEF New, EmptyStrings
<1> HIDE DEF e
<1>2. GoodStrings(e.string_vector_)
  <2>1. /\ <<>> \in Seq(Characters) /\ <<0>> \in Seq(Nat) /\ Len(<<>>) = 0 /\ Len(<<0>>) = 1
        /\ <<0>>[1] = 0
    OBVIOUS
  <2>2. \A i, j \in 1 .. 1 : <<0>>[i] <= <<0>>[j]
    BY <2>1
  <2> QED
    <3>1. /\ e.string_vector_.data_ = <<>> /\ e.string_vector_.indptr_ = <<0>>
          /\ e.string_vector_ \in [data_ : Seq(Characters), indptr_ : Seq(Nat)]
      <4> DEFINE d == <<>>
                 p == <<0>>
      <4>1. e.string_vector_ = [data_ |-> d, indptr_ |-> p] /\ d \in Seq(Characters) /\ p \in Seq(Nat)
        BY <1>1, <2>1
      <4> HIDE DEF d, p
      <4> QED
        BY <4>1 DEF d, p
    <3> QED
      BY <2>1, <2>2, <3>1 DEF GoodStrings
<1>3. StringsIn(e) = <<>>
  <2>1. NumStrings(e.string_vector_) = 0
    BY <1>1 DEF NumStrings
  <2> QED
    BY <2>1 DEF StringsIn, StringsOf
<1>4. <<>> \in [{} -> Nat] /\ {} \in SUBSET Range(Hash) /\ DOMAIN <<>> = {}
  OBVIOUS
<1>5. e \in EncodingParts
  <2>1. <<>> \in UNION {[hashes -> Nat] : hashes \in SUBSET Range(Hash)}
    BY <1>4
  <2>2. EmptyStrings \in [data_ : Seq(Characters), indptr_ : Seq(Nat)]
    BY DEF EmptyStrings
  <2> QED
    BY <1>1, <2>1, <2>2 DEF EncodingParts
<1>6. GoodIndex(e)
  BY <1>1, <1>3, <1>4 DEF GoodIndex, Range
<1>7. <<>> \in Seq(Texts) /\ NoDuplicates(<<>>)
  BY DEF NoDuplicates
<1> QED
  BY <1>1, <1>2, <1>3, <1>5, <1>6, <1>7 DEF Good, e

-----------------------------------------------------------------------------
(* Looking up, with a subencoding or without *)

Below(sub) == IF sub = NoRequest THEN <<>> ELSE StringsIn(sub)

All(enc, sub) == Below(sub) \o StringsIn(enc)

GoodSub(sub) == sub # NoRequest => Good(sub) /\ sub.subsize_ = 0

\* An encoding can be told from none.
LEMMA GoodIsSomebody == \A enc : Good(enc) => enc # NoRequest
BY MemoryMappedEncodingAssumption DEF Good

\* Of two vectors, one inserted behind the other, the elements keep their order.
LEMMA JoinedElements ==
  ASSUME NEW S, NEW s \in Seq(S), NEW u \in Seq(S)
  PROVE  /\ s \o u \in Seq(S)
         /\ Len(s) \in Nat /\ Len(u) \in Nat /\ Len(s \o u) = Len(s) + Len(u)
         /\ \A i \in 1 .. Len(s) : (s \o u)[i] = s[i]
         /\ \A i \in 1 .. Len(u) : (s \o u)[Len(s) + i] = u[i]
OBVIOUS

\* Joined vectors hold what one of them held.
LEMMA HoldsJoined ==
  ASSUME NEW S, NEW s \in Seq(S), NEW u \in Seq(S), NEW x
  PROVE  Holds(s \o u, x) <=> Holds(s, x) \/ Holds(u, x)
<1> DEFINE w == s \o u
<1>1. /\ Len(s) \in Nat /\ Len(u) \in Nat /\ Len(w) = Len(s) + Len(u)
      /\ \A i \in 1 .. Len(s) : w[i] = s[i]
      /\ \A i \in 1 .. Len(u) : w[Len(s) + i] = u[i]
  BY JoinedElements
<1> HIDE DEF w
<1>2. ASSUME NEW i \in 1 .. Len(w), w[i] = x PROVE Holds(s, x) \/ Holds(u, x)
  <2>1. CASE i \in 1 .. Len(s)
    BY <1>1, <1>2, <2>1 DEF Holds
  <2>2. CASE i \notin 1 .. Len(s)
    <3>1. i - Len(s) \in 1 .. Len(u) /\ Len(s) + (i - Len(s)) = i
      BY <1>1, <2>2
    <3>2. w[Len(s) + (i - Len(s))] = u[i - Len(s)]
      BY <1>1, <3>1
    <3> QED
      BY <1>2, <3>1, <3>2 DEF Holds
  <2> QED
    BY <2>1, <2>2
<1>3. \A i \in 1 .. Len(s) : i \in 1 .. Len(w)
  BY <1>1
<1>4. \A i \in 1 .. Len(u) : Len(s) + i \in 1 .. Len(w)
  BY <1>1
<1> QED
  BY <1>1, <1>2, <1>3, <1>4 DEF Holds, w

\* The strings of an encoding are those of its subencoding and, behind them, its
\* own.
LEMMA AllStrings ==
  ASSUME NEW enc, Good(enc), NEW sub, GoodSub(sub)
  PROVE  /\ All(enc, sub) \in Seq(Texts)
         /\ Below(sub) \in Seq(Texts) /\ StringsIn(enc) \in Seq(Texts)
         /\ Len(All(enc, sub)) = Len(Below(sub)) + Len(StringsIn(enc))
         /\ Len(Below(sub)) \in Nat /\ Len(StringsIn(enc)) \in Nat
         /\ \A i \in 1 .. Len(Below(sub)) : All(enc, sub)[i] = Below(sub)[i]
         /\ \A i \in 1 .. Len(StringsIn(enc)) :
              All(enc, sub)[Len(Below(sub)) + i] = StringsIn(enc)[i]
<1>1. Below(sub) \in Seq(Texts) /\ StringsIn(enc) \in Seq(Texts)
  BY DEF Good, GoodSub, Below
<1> QED
  BY <1>1, JoinedElements DEF All

\* The null string is none of the strings that are stored.
LEMMA NullIsNoString == NullText \notin Texts
BY MemoryMappedEncodingAssumption

\* The look-up by hash among the strings of an encoding finds a string if and only
\* if it is one of them, and then one of its places, also when hashes collide.
LEMMA LookupOwnFinds ==
  ASSUME NEW enc, Good(enc), NEW str \in Texts
  PROVE  /\ LookupOwn(enc, str) = NOT_FOUND <=> ~ Holds(StringsIn(enc), str)
         /\ LookupOwn(enc, str) # NOT_FOUND =>
              \E i \in 1 .. Len(StringsIn(enc)) :
                StringsIn(enc)[i] = str /\ LookupOwn(enc, str) = enc.subsize_ + i - 1
<1>1. LookupOwn(enc, str) = OwnId(enc, str)
  BY NullIsNoString DEF LookupOwn
<1>2. \A i \in 1 .. Len(StringsIn(enc)) : enc.subsize_ + i - 1 # NOT_FOUND
  BY Parts, Sizes DEF NOT_FOUND
<1> QED
  BY <1>1, <1>2, OwnIdFinds DEF Holds

\* A string is found if and only if the encoding or the one below holds it, and
\* its id is its place among the strings of both.
LEMMA LookupFinds ==
  ASSUME NEW enc, Good(enc), NEW sub, GoodSub(sub), enc.subsize_ = Len(Below(sub)),
         NEW str \in Texts
  PROVE  LET id == Lookup(enc, sub, str)
         IN  /\ id = NOT_FOUND <=> ~ Holds(All(enc, sub), str)
             /\ id # NOT_FOUND =>
                  id \in Nat /\ id < Len(All(enc, sub)) /\ All(enc, sub)[id + 1] = str
<1> DEFINE all == All(enc, sub)
           g == Below(sub)
           s == StringsIn(enc)
           id == Lookup(enc, sub, str)
<1>1. /\ Len(all) = Len(g) + Len(s) /\ Len(g) \in Nat /\ Len(s) \in Nat
      /\ \A i \in 1 .. Len(g) : all[i] = g[i]
      /\ \A i \in 1 .. Len(s) : all[Len(g) + i] = s[i]
  <2>1. /\ Len(All(enc, sub)) = Len(Below(sub)) + Len(StringsIn(enc))
        /\ Len(Below(sub)) \in Nat /\ Len(StringsIn(enc)) \in Nat
    BY AllStrings
  <2>2. \A i \in 1 .. Len(Below(sub)) : All(enc, sub)[i] = Below(sub)[i]
    BY AllStrings
  <2>3. \A i \in 1 .. Len(StringsIn(enc)) :
          All(enc, sub)[Len(Below(sub)) + i] = StringsIn(enc)[i]
    BY AllStrings
  <2> QED
    BY <2>1, <2>2, <2>3, Zenon
<1>2. Holds(all, str) <=> Holds(g, str) \/ Holds(s, str)
  <2>1. g \in Seq(Texts) /\ s \in Seq(Texts)
    BY AllStrings
  <2> HIDE DEF g, s
  <2>2. Holds(g \o s, str) <=> Holds(g, str) \/ Holds(s, str)
    BY <2>1, HoldsJoined
  <2> QED
    BY <2>2 DEF All, g, s
<1>3. Holds(g, str) <=> sub # NoRequest /\ LookupOwn(sub, str) # NOT_FOUND
  <2>1. CASE sub = NoRequest
    <3>1. g = <<>>
      BY <2>1 DEF Below
    <3>2. ~ Holds(<<>>, str)
      BY DEF Holds
    <3> QED
      BY <2>1, <3>1, <3>2
  <2>2. CASE sub # NoRequest
    BY <2>2, LookupOwnFinds DEF Below, GoodSub
  <2> QED
    BY <2>1, <2>2
<1>4. CASE Holds(g, str)
  <2>1. sub # NoRequest /\ Good(sub) /\ sub.subsize_ = 0 /\ g = StringsIn(sub)
    BY <1>3, <1>4 DEF GoodSub, Below
  <2>2. id = LookupOwn(sub, str) /\ id # NOT_FOUND
    BY <1>3, <1>4 DEF Lookup
  <2>3. PICK i \in 1 .. Len(g) : g[i] = str /\ id = 0 + i - 1
    BY <2>1, <2>2, LookupOwnFinds
  <2> HIDE DEF id, all, g, s
  <2>4. id \in Nat /\ id < Len(all) /\ id + 1 = i
    BY <1>1, <2>3
  <2> QED
    BY <1>1, <1>2, <1>4, <2>2, <2>3, <2>4 DEF id, all, g, s
<1>5. CASE ~ Holds(g, str)
  <2>1. id = LookupOwn(enc, str)
    BY <1>3, <1>5 DEF Lookup
  <2>2. id = NOT_FOUND <=> ~ Holds(s, str)
    BY <2>1, LookupOwnFinds
  <2>3. ASSUME id # NOT_FOUND
        PROVE  id \in Nat /\ id < Len(all) /\ all[id + 1] = str
    <3>1. PICK i \in 1 .. Len(s) : s[i] = str /\ id = Len(g) + i - 1
      BY <2>1, <2>3, LookupOwnFinds
    <3> HIDE DEF id, all, g, s
    <3>2. id \in Nat /\ id < Len(all) /\ id + 1 = Len(g) + i
      BY <1>1, <3>1
    <3> QED
      BY <1>1, <3>1, <3>2
  <2> QED
    BY <1>2, <1>5, <2>2, <2>3
<1> QED
  BY <1>4, <1>5

\* An encoding that has looked a string up knows it, and has no string twice.
LEMMA StringToInt ==
  ASSUME NEW enc, Good(enc), NEW sub, GoodSub(sub), enc.subsize_ = Len(Below(sub)),
         NoDuplicates(All(enc, sub)), NEW str \in Texts
  PROVE  LET new == string_to_int(enc, sub, str)
         IN  /\ Good(new) /\ new.subsize_ = enc.subsize_
             /\ NoDuplicates(All(new, sub)) /\ Holds(All(new, sub), str)
             /\ \/ new = enc /\ Holds(All(enc, sub), str)
                \/ /\ ~ Holds(All(enc, sub), str)
                   /\ StringsIn(new) = Append(StringsIn(enc), str)
                   /\ All(new, sub) = Append(All(enc, sub), str)
<1> DEFINE new == string_to_int(enc, sub, str)
<1>1. CASE Holds(All(enc, sub), str)
  <2>1. new = enc
    BY <1>1, LookupFinds DEF string_to_int
  <2> QED
    BY <1>1, <2>1
<1>2. CASE ~ Holds(All(enc, sub), str)
  <2>1. new = insert(enc, str)
    BY <1>2, LookupFinds, NullIsNoString DEF string_to_int
  <2>2. ~ Holds(StringsIn(enc), str)
    BY <1>2, AllStrings, HoldsJoined DEF All
  <2>3. /\ Good(new) /\ new.subsize_ = enc.subsize_
        /\ StringsIn(new) = Append(StringsIn(enc), str)
    BY <2>1, <2>2, Insert
  <2>4. All(new, sub) = Append(All(enc, sub), str)
    <3>1. Below(sub) \in Seq(Texts) /\ StringsIn(enc) \in Seq(Texts)
      BY AllStrings
    <3> HIDE DEF new
    <3> QED
      BY <2>3, <3>1 DEF All
  <2>5. NoDuplicates(All(new, sub)) /\ Holds(All(new, sub), str)
    <3>1. All(enc, sub) \in Seq(Texts)
      BY AllStrings
    <3> QED
      BY <1>2, <2>4, <3>1, NewWithoutDuplicate, HoldsAppended
  <2> HIDE DEF new
  <2> QED
    BY <1>2, <2>3, <2>4, <2>5 DEF new
<1> QED
  BY <1>1, <1>2

\* An id that is handed out stands for its string.
LEMMA IntToString ==
  ASSUME NEW enc, Good(enc), NEW sub, GoodSub(sub), enc.subsize_ = Len(Below(sub)),
         NEW id \in Nat, id < Len(All(enc, sub))
  PROVE  int_to_string(enc, sub, id) = All(enc, sub)[id + 1]
<1> DEFINE all == All(enc, sub)
           g == Below(sub)
           s == StringsIn(enc)
<1>1. /\ Len(all) = Len(g) + Len(s) /\ Len(g) \in Nat /\ Len(s) \in Nat
      /\ \A i \in 1 .. Len(g) : all[i] = g[i]
      /\ \A i \in 1 .. Len(s) : all[Len(g) + i] = s[i]
  BY AllStrings
<1>2. size(enc) = Len(all) /\ ~ (id < 0) /\ ~ (id >= size(enc))
  <2>1. size(enc) = Len(g) + Len(s)
    BY Sizes
  <2> HIDE DEF all, g, s
  <2> QED
    BY <1>1, <2>1 DEF all
<1>3. CASE sub # NoRequest /\ id < enc.subsize_
  <2>1. int_to_string(enc, sub, id) = StringAt(sub.string_vector_, id)
    BY <1>2, <1>3 DEF int_to_string
  <2>2. g = StringsIn(sub) /\ Good(sub) /\ sub.subsize_ = 0
    BY <1>3 DEF Below, GoodSub
  <2>3. id + 1 \in 1 .. Len(g) /\ id = 0 + (id + 1) - 1 /\ id - 0 = id
    BY <1>1, <1>3
  <2>4. Own(sub, id) = g[id + 1]
    BY <2>2, <2>3, Sizes
  <2> QED
    BY <1>1, <2>1, <2>2, <2>3, <2>4 DEF Own
<1>4. CASE ~ (sub # NoRequest /\ id < enc.subsize_)
  <2>1. int_to_string(enc, sub, id) = Own(enc, id)
    BY <1>2, <1>4 DEF int_to_string
  <2>2. id >= Len(g)
    <3>1. CASE sub = NoRequest
      BY <3>1 DEF Below
    <3>2. CASE sub # NoRequest
      BY <1>1, <1>4, <3>2
    <3> QED
      BY <3>1, <3>2
  <2> DEFINE i == id + 1 - Len(g)
  <2>3. /\ i \in 1 .. Len(s) /\ id = Len(g) + i - 1 /\ id + 1 = Len(g) + i
    BY <1>1, <2>2
  <2> HIDE DEF i
  <2>4. Own(enc, id) = s[i]
    BY <2>3, Sizes
  <2> QED
    BY <1>1, <2>1, <2>3, <2>4
<1> QED
  BY <1>3, <1>4

\* An encoding without subencoding has only its own strings.
LEMMA NobodyBelow ==
  ASSUME NEW enc, Good(enc)
  PROVE  /\ GoodSub(NoRequest) /\ Below(NoRequest) = <<>> /\ Len(<<>>) = 0
         /\ All(enc, NoRequest) = StringsIn(enc)
         /\ StringsIn(enc) \in Seq(Texts) /\ NoDuplicates(StringsIn(enc))
<1>1. GoodSub(NoRequest) /\ Below(NoRequest) = <<>> /\ Len(<<>>) = 0
  BY DEF GoodSub, Below
<1>2. StringsIn(enc) \in Seq(Texts) /\ NoDuplicates(StringsIn(enc))
  BY DEF Good
<1> DEFINE s == StringsIn(enc)
<1>3. <<>> \o s = s
  <2> HIDE DEF s
  <2> QED
    BY <1>2 DEF s
<1> QED
  BY <1>1, <1>2, <1>3 DEF All

\* Texts that are looked up one after the other in an encoding that does not hold
\* them get the next ids, in their order.
LEMMA InternedStrings ==
  ASSUME NEW enc, Good(enc), enc.subsize_ = 0, NEW strs \in Seq(Texts),
         NoDuplicates(StringsIn(enc) \o strs)
  PROVE  /\ Good(Interned(enc, strs)) /\ Interned(enc, strs).subsize_ = 0
         /\ StringsIn(Interned(enc, strs)) = StringsIn(enc) \o strs
<1> DEFINE N == Len(strs)
           S == {e \in EncodingParts : Good(e) /\ e.subsize_ = 0}
           next(e, n) == string_to_int(e, NoRequest, strs[n])
           step == [n \in 1 .. N |-> [e \in S |-> next(e, n)]]
           f == CHOOSE g : g = [n \in 0 .. N |-> IF n = 0 THEN enc ELSE next(g[n - 1], n)]
           s == StringsIn(enc)
<1>1. N \in Nat /\ N = Len(strs) /\ \A n \in 1 .. N : strs[n] \in Texts
  OBVIOUS
<1>2. Interned(enc, strs) = f[N]
  BY DEF Interned
<1>3. ASSUME NEW e \in S, NEW n \in 1 .. N
      PROVE  /\ next(e, n) \in S
             /\ \/ next(e, n) = e /\ Holds(StringsIn(e), strs[n])
                \/ StringsIn(next(e, n)) = Append(StringsIn(e), strs[n])
  <2>1. Good(e) /\ e.subsize_ = 0 /\ strs[n] \in Texts
    BY <1>1
  <2> DEFINE new == next(e, n)
             x == strs[n]
  <2> HIDE DEF x
  <2>2. /\ Good(new) /\ new.subsize_ = 0
        /\ \/ new = e /\ Holds(StringsIn(e), x)
           \/ StringsIn(new) = Append(StringsIn(e), x)
    <3>1. /\ GoodSub(NoRequest) /\ e.subsize_ = Len(Below(NoRequest))
          /\ All(e, NoRequest) = StringsIn(e) /\ NoDuplicates(All(e, NoRequest)) /\ x \in Texts
      BY <2>1, NobodyBelow DEF x
    <3>2. new = string_to_int(e, NoRequest, x)
      BY DEF x
    <3> HIDE DEF new
    <3>3. /\ Good(new) /\ new.subsize_ = e.subsize_
          /\ \/ new = e /\ Holds(All(e, NoRequest), x)
             \/ StringsIn(new) = Append(StringsIn(e), x)
      BY <2>1, <3>1, <3>2, StringToInt
    <3> QED
      BY <2>1, <3>1, <3>3
  <2> HIDE DEF next
  <2>3. new \in EncodingParts
    BY <2>2 DEF Good
  <2> QED
    BY <2>2, <2>3 DEF x
<1>4. enc \in S
  BY DEF Good
<1> HIDE DEF S, next, N
<1>5. f = [n \in 0 .. N |-> IF n = 0 THEN enc ELSE next(f[n - 1], n)]
  <2>1. step \in [1 .. N -> [S -> S]]
    BY <1>3
  <2>2. ASSUME NEW e \in S, NEW n \in 1 .. N PROVE step[n][e] = next(e, n)
    OBVIOUS
  <2> HIDE DEF step
  <2>3. PICK g : Repeats(g, N, S, enc, step)
    BY <1>1, <1>4, <2>1, RecursiveFunctionExists
  <2>4. g = [n \in 0 .. N |-> IF n = 0 THEN enc ELSE next(g[n - 1], n)]
    <3>1. ASSUME NEW n \in 0 .. N PROVE g[n] = IF n = 0 THEN enc ELSE next(g[n - 1], n)
      <4>1. CASE n = 0
        BY <2>3, <4>1 DEF Repeats
      <4>2. CASE n # 0
        <5>1. n \in 1 .. N /\ n - 1 \in 0 .. N
          BY <1>1, <4>2
        <5>2. g[n - 1] \in S
          BY <2>3, <5>1 DEF Repeats
        <5>3. g[n] = next(g[n - 1], n)
          BY <2>2, <2>3, <5>1, <5>2 DEF Repeats
        <5> QED
          BY <4>2, <5>3
      <4> QED
        BY <4>1, <4>2
    <3> QED
      BY <2>3, <3>1 DEF Repeats
  <2> QED
    BY <2>4
<1> HIDE DEF f
<1>6. s \in Seq(Texts) /\ Len(s) \in Nat
  BY DEF Good
<1> DEFINE all == s \o strs
<1>7. /\ Len(all) = Len(s) + N
      /\ \A i \in 1 .. Len(s) : all[i] = s[i]
      /\ \A i \in 1 .. N : all[Len(s) + i] = strs[i]
  BY <1>6, JoinedElements DEF N
<1>8. NoDuplicates(all)
  OBVIOUS
<1> HIDE DEF s, all
<1> DEFINE P(n) == /\ f[n] \in S
                   /\ StringsIn(f[n]) = s \o SubSeq(strs, 1, n)
           T == {n \in 0 .. N : P(n)}
<1>9. 0 \in T
  <2>1. f[0] = enc
    BY <1>1, <1>5
  <2>2. SubSeq(strs, 1, 0) = <<>> /\ s \o <<>> = s
    BY <1>6
  <2>3. StringsIn(enc) = s
    BY DEF s
  <2> QED
    <3>1. StringsIn(f[0]) = s \o SubSeq(strs, 1, 0)
      BY <2>1, <2>2, <2>3
    <3> QED
      BY <1>1, <1>4, <2>1, <3>1
<1>10. ASSUME NEW n \in 0 .. N - 1, n \in T PROVE n + 1 \in T
  <2> DEFINE x == strs[n + 1]
             begin == SubSeq(strs, 1, n)
  <2>1. f[n] \in S /\ StringsIn(f[n]) = s \o begin /\ n + 1 \in 1 .. N /\ n \in Nat
    BY <1>1, <1>10
  <2>2. f[n + 1] = next(f[n], n + 1)
    <3>1. (n + 1) - 1 = n /\ n + 1 # 0 /\ n + 1 \in 0 .. N
      BY <1>1
    <3> QED
      BY <1>5, <3>1
  <2>3. begin \in Seq(Texts) /\ Len(begin) = n /\ \A i \in 1 .. n : begin[i] = strs[i]
    BY <1>1, <2>1 DEF N
  <2>4. SubSeq(strs, 1, n + 1) = Append(begin, x)
    BY <1>1, <2>1 DEF N
  <2>5. s \o Append(begin, x) = Append(s \o begin, x)
    <3> HIDE DEF begin, x
    <3> QED
      BY <1>6, <2>3
  <2> HIDE DEF begin
  <2>6. ~ Holds(s \o begin, x)
    <3>1. /\ Len(s \o begin) = Len(s) + n
          /\ \A i \in 1 .. Len(s) : (s \o begin)[i] = s[i]
          /\ \A i \in 1 .. n : (s \o begin)[Len(s) + i] = strs[i]
      <4>1. /\ Len(s \o begin) = Len(s) + Len(begin)
            /\ \A i \in 1 .. Len(s) : (s \o begin)[i] = s[i]
            /\ \A i \in 1 .. Len(begin) : (s \o begin)[Len(s) + i] = begin[i]
        <5>1. s \in Seq(Texts) /\ begin \in Seq(Texts)
          BY <1>6, <2>3
        <5> QED
          BY <5>1
      <4> QED
        BY <2>3, <4>1
    <3>2. x = all[Len(s) + (n + 1)] /\ Len(s) + (n + 1) \in 1 .. Len(all)
      BY <1>1, <1>6, <1>7, <2>1
    <3> HIDE DEF x
    <3>3. ASSUME NEW i \in 1 .. Len(s) + n PROVE (s \o begin)[i] # x
      <4>1. i \in 1 .. Len(all) /\ i # Len(s) + (n + 1)
        BY <1>1, <1>6, <1>7, <2>1
      <4>2. all[i] = (s \o begin)[i]
        <5>1. CASE i \in 1 .. Len(s)
          BY <1>7, <3>1, <5>1
        <5>2. CASE i \notin 1 .. Len(s)
          <6>1. i - Len(s) \in 1 .. n /\ i - Len(s) \in 1 .. N /\ Len(s) + (i - Len(s)) = i
            BY <1>1, <1>6, <2>1, <5>2
          <6> QED
            BY <1>7, <3>1, <6>1
        <5> QED
          BY <5>1, <5>2
      <4> QED
        BY <1>8, <3>2, <4>1, <4>2 DEF NoDuplicates
    <3> QED
      BY <3>1, <3>3 DEF Holds
  <2>7. /\ next(f[n], n + 1) \in S
        /\ StringsIn(next(f[n], n + 1)) = Append(s \o begin, x)
    BY <1>3, <2>1, <2>6
  <2> HIDE DEF x
  <2> QED
    <3>1. StringsIn(f[n + 1]) = s \o SubSeq(strs, 1, n + 1)
      BY <2>2, <2>4, <2>5, <2>7
    <3>2. f[n + 1] \in S
      BY <2>2, <2>7
    <3>3. n + 1 \in 0 .. N
      BY <1>1, <2>1
    <3> QED
      BY <3>1, <3>2, <3>3
<1>11. N \in T
  <2> HIDE DEF T
  <2>1. 0 .. N \subseteq T
    BY <1>1, <1>9, <1>10, BoundedInduction
  <2> QED
    BY <1>1, <2>1
<1>12. SubSeq(strs, 1, N) = strs
  BY <1>1
<1> QED
  BY <1>2, <1>11, <1>12 DEF S, s

-----------------------------------------------------------------------------
(* The invariant *)

\* A pair of an id and a string that it stands for among strs.
Means(p, strs) ==
  \/ p = <<NOT_FOUND, NullText>>
  \/ p \in Nat \X Texts /\ p[1] < Len(strs) /\ strs[p[1] + 1] = p[2]

Begins(s, strs) == Len(s) <= Len(strs) /\ \A i \in 1 .. Len(s) : s[i] = strs[i]

GlobalStrings == StringsIn(global)

\* The strings that the running request finds.
KnownStrings == IF request = NoRequest THEN GlobalStrings ELSE All(request, global)

Inv ==
  /\ Good(global) /\ global.subsize_ = 0
  /\ request # NoRequest => /\ Good(request) /\ request.subsize_ = Len(GlobalStrings)
                         /\ NoDuplicates(KnownStrings)
  /\ file \in Seq(Texts) /\ Begins(file, GlobalStrings)
  /\ \A p \in issued : Means(p, GlobalStrings)
  /\ \A p \in promised : Means(p, KnownStrings)
  /\ request = NoRequest => promised = {}

\* An id keeps its string when strings are added behind.
LEMMA MeansLonger ==
  ASSUME NEW s \in Seq(Texts), NEW u \in Seq(Texts), Begins(s, u), NEW p, Means(p, s)
  PROVE  Means(p, u)
<1>1. CASE p = <<NOT_FOUND, NullText>>
  BY <1>1 DEF Means
<1>2. CASE p \in Nat \X Texts /\ p[1] < Len(s) /\ s[p[1] + 1] = p[2]
  <2>1. p[1] + 1 \in 1 .. Len(s) /\ p[1] < Len(u)
    BY <1>2 DEF Begins
  <2>2. u[p[1] + 1] = s[p[1] + 1]
    BY <2>1 DEF Begins
  <2> QED
    BY <1>2, <2>1, <2>2 DEF Means
<1> QED
  BY <1>1, <1>2 DEF Means

\* What is added behind leaves the beginning as it was.
LEMMA Lengthened ==
  /\ \A s \in Seq(Texts), u \in Seq(Texts) : Begins(s, s \o u)
  /\ \A s \in Seq(Texts), x \in Texts : Begins(s, Append(s, x))
  /\ \A s \in Seq(Texts) : Begins(s, s)
<1>1. ASSUME NEW s \in Seq(Texts), NEW u \in Seq(Texts) PROVE Begins(s, s \o u)
  BY JoinedElements DEF Begins
<1>2. ASSUME NEW s \in Seq(Texts), NEW x \in Texts PROVE Begins(s, Append(s, x))
  BY AppendElements DEF Begins
<1>3. ASSUME NEW s \in Seq(Texts) PROVE Begins(s, s)
  BY DEF Begins
<1> QED
  BY <1>1, <1>2, <1>3

\* The beginning of a beginning is a beginning.
LEMMA BeginsLonger ==
  ASSUME NEW r \in Seq(Texts), NEW s \in Seq(Texts), NEW u \in Seq(Texts),
         Begins(r, s), Begins(s, u)
  PROVE  Begins(r, u)
<1>1. Len(r) \in Nat /\ Len(s) \in Nat /\ Len(u) \in Nat
  OBVIOUS
<1> QED
  BY <1>1 DEF Begins

\* The global encoding has no encoding below it, and holds each string once.
LEMMA GlobalIsSequence ==
  ASSUME Inv
  PROVE  /\ GlobalStrings \in Seq(Texts) /\ NoDuplicates(GlobalStrings)
         /\ size(global) = Len(GlobalStrings) /\ Len(GlobalStrings) \in Nat
         /\ GoodSub(global) /\ global # NoRequest
         /\ Below(global) = GlobalStrings
         /\ All(global, NoRequest) = GlobalStrings
<1>1. Good(global) /\ global.subsize_ = 0 /\ global # NoRequest
  BY GoodIsSomebody DEF Inv
<1> QED
  BY <1>1, Sizes, NobodyBelow DEF GlobalStrings, GoodSub, Below

\* What a lookup that inserts returns stands for the string that was looked up.
LEMMA IssuedIdStands ==
  ASSUME NEW enc, Good(enc), NEW sub, GoodSub(sub), enc.subsize_ = Len(Below(sub)),
         NoDuplicates(All(enc, sub)), NEW str \in Texts \union {NullText}
  PROVE  LET new == string_to_int(enc, sub, str)
         IN  /\ Good(new) /\ new.subsize_ = enc.subsize_ /\ NoDuplicates(All(new, sub))
             /\ Begins(All(enc, sub), All(new, sub))
             /\ Means(<<Lookup(new, sub, str), str>>, All(new, sub))
<1> DEFINE new == string_to_int(enc, sub, str)
<1>1. CASE str = NullText
  <2>1. new = enc
    BY <1>1 DEF string_to_int
  <2>2. Lookup(enc, sub, str) = NOT_FOUND
    BY <1>1 DEF Lookup, LookupOwn
  <2>3. Begins(All(enc, sub), All(enc, sub))
    BY AllStrings, Lengthened
  <2> QED
    BY <1>1, <2>1, <2>2, <2>3 DEF Means
<1>2. CASE str \in Texts
  <2>1. /\ Good(new) /\ new.subsize_ = enc.subsize_
        /\ NoDuplicates(All(new, sub)) /\ Holds(All(new, sub), str)
        /\ new = enc \/ All(new, sub) = Append(All(enc, sub), str)
    BY <1>2, StringToInt
  <2>2. Begins(All(enc, sub), All(new, sub))
    <3>1. All(enc, sub) \in Seq(Texts)
      BY AllStrings
    <3> HIDE DEF new
    <3> QED
      BY <1>2, <2>1, <3>1, Lengthened
  <2> HIDE DEF new
  <2> DEFINE id == Lookup(new, sub, str)
  <2>3. id \in Nat /\ id < Len(All(new, sub)) /\ All(new, sub)[id + 1] = str
    BY <1>2, <2>1, LookupFinds
  <2> HIDE DEF id
  <2>4. Means(<<id, str>>, All(new, sub))
    BY <1>2, <2>3 DEF Means
  <2> QED
    BY <2>1, <2>2, <2>4 DEF new, id
<1> QED
  BY <1>1, <1>2

-----------------------------------------------------------------------------
(* Steps *)

\* The empty encodings at the start satisfy the invariant.
LEMMA InitInv == Init => Inv
<1> SUFFICES ASSUME Init PROVE Inv
  OBVIOUS
<1>1. Good(global) /\ GlobalStrings = <<>> /\ global.subsize_ = 0
  BY Empty DEF Init, GlobalStrings
<1>2. Begins(<<>>, <<>>) /\ <<>> \in Seq(Texts)
  BY DEF Begins
<1> QED
  BY <1>1, <1>2 DEF Init, Inv

\* Adding a string to the global encoding keeps the invariant.
LEMMA InternStep ==
  ASSUME Inv, NEW str \in Texts \union {NullText}, Intern(str)
  PROVE  Inv'
<1>1. /\ request = NoRequest /\ request' = NoRequest /\ file' = file /\ promised' = promised
      /\ global' = string_to_int(global, NoRequest, str)
      /\ issued' = issued \union {<<Lookup(global', NoRequest, str), str>>}
  BY DEF Intern
<1>2. Good(global) /\ global.subsize_ = 0
  BY DEF Inv
<1>3. /\ Good(global') /\ global'.subsize_ = 0
      /\ Begins(GlobalStrings, All(global', NoRequest))
      /\ Means(<<Lookup(global', NoRequest, str), str>>, All(global', NoRequest))
  <2>1. GoodSub(NoRequest) /\ Len(Below(NoRequest)) = 0
    BY <1>2, NobodyBelow
  <2> QED
    BY <1>1, <1>2, <2>1, IssuedIdStands, GlobalIsSequence
<1>4. All(global', NoRequest) = GlobalStrings' /\ GlobalStrings' \in Seq(Texts)
  BY <1>3, NobodyBelow DEF GlobalStrings
<1>5. Begins(file, GlobalStrings')
  BY <1>3, <1>4, GlobalIsSequence, BeginsLonger DEF Inv
<1>6. \A p \in issued' : Means(p, GlobalStrings')
  BY <1>1, <1>3, <1>4, GlobalIsSequence, MeansLonger DEF Inv
<1> QED
  BY <1>1, <1>3, <1>5, <1>6 DEF Inv

\* A new encoding over the global one keeps the invariant.
LEMMA BeginRequestStep ==
  ASSUME Inv, BeginRequest
  PROVE  Inv'
<1>1. /\ request = NoRequest /\ request' = New(size(global)) /\ promised = {}
      /\ global' = global /\ file' = file /\ issued' = issued /\ promised' = promised
  BY DEF BeginRequest, Inv
<1>2. /\ Good(request') /\ StringsIn(request') = <<>> /\ request'.subsize_ = Len(GlobalStrings)
  BY <1>1, GlobalIsSequence, Empty
<1>3. All(request', global) = GlobalStrings
  <2>1. GlobalStrings \o <<>> = GlobalStrings
    BY GlobalIsSequence
  <2> QED
    BY <1>2, <2>1, GlobalIsSequence DEF All
<1>4. request' # NoRequest /\ GlobalStrings' = GlobalStrings /\ KnownStrings' = GlobalStrings
  BY <1>1, <1>2, <1>3, GoodIsSomebody DEF KnownStrings, GlobalStrings
<1> QED
  BY <1>1, <1>2, <1>4, GlobalIsSequence DEF Inv

\* Adding a string to the encoding of a request keeps the invariant.
LEMMA EncodeStep ==
  ASSUME Inv, NEW str \in Texts \union {NullText}, Encode(str)
  PROVE  Inv'
<1>1. /\ request # NoRequest /\ request' = string_to_int(request, global, str)
      /\ promised' = promised \union {<<Lookup(request', global, str), str>>}
      /\ global' = global /\ file' = file /\ issued' = issued
  BY DEF Encode
<1>2. /\ Good(request) /\ request.subsize_ = Len(Below(global)) /\ GoodSub(global)
      /\ NoDuplicates(All(request, global)) /\ KnownStrings = All(request, global)
  BY <1>1, GlobalIsSequence DEF Inv, KnownStrings
<1>3. /\ Good(request') /\ request'.subsize_ = Len(GlobalStrings)
      /\ NoDuplicates(All(request', global))
      /\ Begins(KnownStrings, All(request', global))
      /\ Means(<<Lookup(request', global, str), str>>, All(request', global))
  BY <1>1, <1>2, IssuedIdStands, GlobalIsSequence
<1>4. /\ request' # NoRequest /\ GlobalStrings' = GlobalStrings
      /\ KnownStrings' = All(request', global)
  BY <1>1, <1>3, GoodIsSomebody DEF KnownStrings, GlobalStrings
<1>5. KnownStrings \in Seq(Texts) /\ All(request', global) \in Seq(Texts)
  BY <1>2, <1>3, AllStrings
<1>6. \A p \in promised' : Means(p, KnownStrings')
  BY <1>1, <1>3, <1>4, <1>5, MeansLonger DEF Inv
<1> QED
  BY <1>1, <1>3, <1>4, <1>6 DEF Inv

\* Appending the encoding of a request to the global one keeps the invariant: the
\* ids it gave away are those its strings get.
LEMMA CommitStep ==
  ASSUME Inv, Commit
  PROVE  Inv'
<1>1. /\ request # NoRequest /\ request' = NoRequest /\ promised' = {} /\ file' = file
      /\ global' = append(global, request) /\ issued' = issued \union promised
  BY DEF Commit
<1> DEFINE own == StringsIn(request)
<1>2. /\ Good(global) /\ global.subsize_ = 0 /\ Good(request)
      /\ KnownStrings = GlobalStrings \o own /\ NoDuplicates(GlobalStrings \o own)
      /\ own \in Seq(Texts)
  BY <1>1, GlobalIsSequence DEF Inv, KnownStrings, All, Good
<1>3. global' = Interned(global, own)
  BY <1>1 DEF append, StringsIn
<1>4. Good(global') /\ global'.subsize_ = 0 /\ GlobalStrings' = KnownStrings
  <2> HIDE DEF own
  <2> QED
    BY <1>2, <1>3, InternedStrings DEF GlobalStrings
<1>5. Begins(GlobalStrings, GlobalStrings') /\ GlobalStrings' \in Seq(Texts)
  <2>1. GlobalStrings \o own \in Seq(Texts)
    BY <1>2, GlobalIsSequence, JoinedElements
  <2> QED
    BY <1>2, <1>4, <2>1, GlobalIsSequence, Lengthened
<1>6. Begins(file, GlobalStrings')
  BY <1>5, GlobalIsSequence, BeginsLonger DEF Inv
<1>7. ASSUME NEW p \in issued' PROVE Means(p, GlobalStrings')
  <2>1. CASE p \in issued
    BY <1>5, <2>1, GlobalIsSequence, MeansLonger DEF Inv
  <2>2. CASE p \in promised
    BY <1>4, <2>2 DEF Inv
  <2> QED
    BY <1>1, <2>1, <2>2
<1> QED
  BY <1>1, <1>4, <1>6, <1>7 DEF Inv

\* A request that fails takes its encoding with it, and the invariant holds.
LEMMA AbandonStep ==
  ASSUME Inv, Abandon
  PROVE  Inv'
<1>1. /\ request' = NoRequest /\ promised' = {}
      /\ global' = global /\ file' = file /\ issued' = issued
  BY DEF Abandon
<1>2. GlobalStrings' = GlobalStrings
  BY <1>1 DEF GlobalStrings
<1> QED
  BY <1>1, <1>2 DEF Inv

\* Saving the strings keeps the invariant.
LEMMA SaveStep ==
  ASSUME Inv, save_encodings
  PROVE  Inv'
<1>1. /\ file' = GlobalStrings /\ global' = global /\ request' = request
      /\ issued' = issued /\ promised' = promised
  BY DEF save_encodings, GlobalStrings, StringsIn
<1>2. GlobalStrings' = GlobalStrings /\ KnownStrings' = KnownStrings
  BY <1>1 DEF GlobalStrings, KnownStrings
<1>3. file' \in Seq(Texts) /\ Begins(file', GlobalStrings')
  BY <1>1, <1>2, GlobalIsSequence, Lengthened
<1> QED
  BY <1>1, <1>2, <1>3 DEF Inv

\* Loading saved strings after a restart keeps the invariant.
LEMMA LoadStep ==
  ASSUME Inv, load_encodings
  PROVE  Inv'
<1>1. /\ global' = Interned(New(0), file) /\ request' = NoRequest /\ promised' = {}
      /\ issued' = {p \in issued : p[1] < Len(file)} /\ file' = file
  BY DEF load_encodings, Assign
<1>2. /\ file \in Seq(Texts) /\ Len(file) \in Nat /\ Len(file) <= Len(GlobalStrings)
      /\ \A i \in 1 .. Len(file) : file[i] = GlobalStrings[i]
  BY DEF Inv, Begins
<1>3. NoDuplicates(file) /\ <<>> \o file = file
  <2>1. \A i \in 1 .. Len(file) : i \in 1 .. Len(GlobalStrings)
    BY <1>2, GlobalIsSequence
  <2> QED
    BY <1>2, <2>1, GlobalIsSequence DEF NoDuplicates
<1>4. /\ Good(New(0)) /\ New(0).subsize_ = 0 /\ StringsIn(New(0)) = <<>>
  BY Empty
<1>5. Good(global') /\ global'.subsize_ = 0 /\ GlobalStrings' = file
  BY <1>1, <1>2, <1>3, <1>4, InternedStrings DEF GlobalStrings
<1>6. ASSUME NEW p \in issued' PROVE Means(p, file)
  <2>1. Means(p, GlobalStrings) /\ p[1] < Len(file)
    BY <1>1, <1>6 DEF Inv
  <2>2. CASE p = <<NOT_FOUND, NullText>>
    BY <2>2 DEF Means
  <2>3. CASE p \in Nat \X Texts /\ GlobalStrings[p[1] + 1] = p[2]
    <3>1. p[1] + 1 \in 1 .. Len(file)
      BY <1>2, <2>1, <2>3
    <3> QED
      BY <1>2, <2>1, <2>3, <3>1 DEF Means
  <2> QED
    BY <2>1, <2>2, <2>3 DEF Means
<1>7. Begins(file, file)
  BY <1>2, Lengthened
<1> QED
  BY <1>1, <1>2, <1>5, <1>6, <1>7 DEF Inv

\* No step breaks the invariant.
LEMMA NextInv == Inv /\ [Next]_vars => Inv'
<1> SUFFICES ASSUME Inv, [Next]_vars PROVE Inv'
  OBVIOUS
<1>1. CASE \E str \in Texts \union {NullText} : Intern(str) \/ Encode(str)
  BY <1>1, InternStep, EncodeStep
<1>2. CASE BeginRequest
  BY <1>2, BeginRequestStep
<1>3. CASE Commit
  BY <1>3, CommitStep
<1>4. CASE Abandon
  BY <1>4, AbandonStep
<1>5. CASE save_encodings
  BY <1>5, SaveStep
<1>6. CASE load_encodings
  BY <1>6, LoadStep
<1>7. CASE UNCHANGED vars
  BY <1>7 DEF vars, Inv, GlobalStrings, KnownStrings
<1> QED
  BY <1>1, <1>2, <1>3, <1>4, <1>5, <1>6, <1>7 DEF Next

\* The ids below a hash are exactly those of the strings with it, the request's
\* encoding continues the global one, the file is a beginning of it, and every id
\* that was handed out stands for its string.
THEOREM EncodingInvariant == Spec => []Inv
BY InitInv, NextInv, PTL DEF Spec

-----------------------------------------------------------------------------
(* What the invariant implies *)

\* An id that was given away is turned into its string again.
LEMMA StandsForItsString ==
  ASSUME NEW enc, Good(enc), NEW sub, GoodSub(sub), enc.subsize_ = Len(Below(sub)),
         NEW p, Means(p, All(enc, sub))
  PROVE  int_to_string(enc, sub, p[1]) = p[2]
<1>1. CASE p = <<NOT_FOUND, NullText>>
  <2>1. p[1] < 0 /\ p[2] = NullText
    BY <1>1 DEF NOT_FOUND
  <2> QED
    BY <2>1 DEF int_to_string
<1>2. CASE p \in Nat \X Texts /\ p[1] < Len(All(enc, sub)) /\ All(enc, sub)[p[1] + 1] = p[2]
  <2>1. p[1] \in Nat
    BY <1>2
  <2> QED
    BY <1>2, <2>1, IntToString
<1> QED
  BY <1>1, <1>2 DEF Means

\* By the invariant, ids keep their strings.
LEMMA InvImpliesIds == Inv => IdsKeepTheirMeaning
<1> SUFFICES ASSUME Inv PROVE IdsKeepTheirMeaning
  OBVIOUS
<1>1. ASSUME NEW p \in issued PROVE int_to_string(global, NoRequest, p[1]) = p[2]
  <2>1. /\ Good(global) /\ global.subsize_ = Len(Below(NoRequest)) /\ GoodSub(NoRequest)
        /\ Means(p, All(global, NoRequest))
    BY NobodyBelow DEF Inv, GlobalStrings
  <2> QED
    BY <2>1, StandsForItsString
<1>2. ASSUME request # NoRequest, NEW p \in promised
      PROVE  int_to_string(request, global, p[1]) = p[2]
  <2>1. /\ Good(request) /\ request.subsize_ = Len(Below(global)) /\ GoodSub(global)
        /\ Means(p, All(request, global))
    BY <1>2, GlobalIsSequence DEF Inv, KnownStrings
  <2> QED
    BY <2>1, StandsForItsString
<1> QED
  BY <1>1, <1>2 DEF IdsKeepTheirMeaning

\* By the invariant, no string has two ids.
LEMMA InvImpliesOneId == Inv => StringsHaveOneId
<1> SUFFICES ASSUME Inv, NEW p \in issued \union promised, NEW q \in issued \union promised,
                    p[2] = q[2]
             PROVE  p[1] = q[1]
  BY DEF StringsHaveOneId
<1>1. /\ KnownStrings \in Seq(Texts) /\ NoDuplicates(KnownStrings)
      /\ Begins(GlobalStrings, KnownStrings)
  <2>1. CASE request = NoRequest
    BY <2>1, GlobalIsSequence, Lengthened DEF KnownStrings
  <2>2. CASE request # NoRequest
    <3>1. KnownStrings = All(request, global) /\ Good(request) /\ NoDuplicates(KnownStrings)
      BY <2>2 DEF Inv, KnownStrings
    <3>2. All(request, global) = GlobalStrings \o StringsIn(request)
      BY GlobalIsSequence DEF All
    <3>3. StringsIn(request) \in Seq(Texts)
      BY <3>1 DEF Good
    <3> QED
      BY <3>1, <3>2, <3>3, GlobalIsSequence, AllStrings, Lengthened
  <2> QED
    BY <2>1, <2>2
<1>2. Means(p, KnownStrings) /\ Means(q, KnownStrings)
  BY <1>1, GlobalIsSequence, MeansLonger DEF Inv
<1>3. CASE p[2] = NullText
  <2>1. p = <<NOT_FOUND, NullText>> /\ q = <<NOT_FOUND, NullText>>
    BY <1>2, <1>3, NullIsNoString DEF Means
  <2> QED
    BY <2>1
<1>4. CASE p[2] # NullText
  <2>1. /\ p[1] \in Nat /\ p[1] < Len(KnownStrings) /\ KnownStrings[p[1] + 1] = p[2]
        /\ q[1] \in Nat /\ q[1] < Len(KnownStrings) /\ KnownStrings[q[1] + 1] = q[2]
    BY <1>2, <1>4 DEF Means
  <2>2. p[1] + 1 \in 1 .. Len(KnownStrings) /\ q[1] + 1 \in 1 .. Len(KnownStrings)
    BY <1>1, <2>1
  <2>3. p[1] + 1 = q[1] + 1
    BY <1>1, <2>1, <2>2 DEF NoDuplicates
  <2> QED
    BY <2>1, <2>3
<1> QED
  BY <1>3, <1>4

\* The in-memory look-up finds a place of the string in the vector if and only if
\* there is one.
LEMMA IdInFinds ==
  ASSUME NEW S, NEW s \in Seq(S), NEW x
  PROVE  /\ InMemory!IdIn(s, x) \in -1 .. Len(s) - 1
         /\ InMemory!IdIn(s, x) = -1 <=> ~ Holds(s, x)
         /\ InMemory!IdIn(s, x) # -1 =>
              /\ InMemory!IdIn(s, x) + 1 \in 1 .. Len(s)
              /\ s[InMemory!IdIn(s, x) + 1] = x
<1> DEFINE I == {i \in 1 .. Len(s) : s[i] = x}
<1>1. InMemory!IdIn(s, x) = IF I # {} THEN InMemory!Min(I) - 1 ELSE -1
  BY DEF InMemory!IdIn, InMemory!SelectInSeq
<1>2. CASE I = {}
  BY <1>1, <1>2 DEF Holds
<1>3. CASE I # {}
  <2>1. I \subseteq Nat
    OBVIOUS
  <2>2. InMemory!Min(I) \in I
    BY <1>3, <2>1, LeastNumber DEF InMemory!Min
  <2> QED
    BY <1>1, <1>3, <2>2 DEF Holds
<1> QED
  BY <1>2, <1>3

\* Hashes and vectors of ids find what a search among the strings finds.
LEMMA LookupOwnAsInMemory ==
  ASSUME NEW enc, Good(enc), NEW str \in Texts
  PROVE  LET id == InMemory!IdIn(StringsIn(enc), str)
         IN  LookupOwn(enc, str) = IF id = -1 THEN -1 ELSE id + enc.subsize_
<1> DEFINE s == StringsIn(enc)
           id == InMemory!IdIn(s, str)
<1>1. s \in Seq(Texts) /\ NoDuplicates(s) /\ enc.subsize_ \in Nat
  BY Parts DEF Good
<1>2. /\ id = -1 <=> ~ Holds(s, str)
      /\ id # -1 => id + 1 \in 1 .. Len(s) /\ s[id + 1] = str
  BY <1>1, IdInFinds
<1>3. CASE id = -1
  BY <1>2, <1>3, LookupOwnFinds DEF NOT_FOUND
<1>4. CASE id # -1
  <2>1. PICK i \in 1 .. Len(s) : s[i] = str /\ LookupOwn(enc, str) = enc.subsize_ + i - 1
    BY <1>2, <1>4, LookupOwnFinds
  <2>2. i = id + 1
    BY <1>1, <1>2, <1>4, <2>1 DEF NoDuplicates
  <2> HIDE DEF id, s
  <2>3. id \in Int
    <3>1. id + 1 \in 1 .. Len(s)
      BY <1>2, <1>4
    <3>2. Len(s) \in Nat
      BY <1>1
    <3> QED
      BY <1>1, <2>1, IdInFinds DEF id
  <2> QED
    BY <1>1, <1>4, <2>1, <2>2, <2>3 DEF id, s
<1> QED
  BY <1>3, <1>4

\* The look-up by hash, in the subencoding and then in the encoding, returns what
\* the in-memory encoding would.
LEMMA LookupAsInMemory ==
  ASSUME NEW enc, Good(enc), NEW sub, GoodSub(sub), NEW str \in Texts \union {NullText}
  PROVE  Lookup(enc, sub, str) =
           InMemory!string_to_int(V(enc), IF sub = NoRequest THEN <<>> ELSE V(sub).vector_, str)
<1>1. V(enc).vector_ = StringsIn(enc) /\ V(enc).subsize_ = enc.subsize_ /\ V(sub).vector_ = StringsIn(sub)
  BY DEF V, StringsIn
<1> DEFINE g == IF sub = NoRequest THEN <<>> ELSE V(sub).vector_
<1>2. CASE str = NullText
  BY <1>2 DEF InMemory!string_to_int, Lookup, LookupOwn, NOT_FOUND
<1>3. CASE str \in Texts
  <2>1. str # NullText
    BY <1>3, NullIsNoString
  <2>2. IF sub # NoRequest /\ LookupOwn(sub, str) # NOT_FOUND
        THEN InMemory!IdIn(g, str) # -1 /\ LookupOwn(sub, str) = InMemory!IdIn(g, str)
        ELSE InMemory!IdIn(g, str) = -1
    <3>1. CASE sub = NoRequest
      <4>1. <<>> \in Seq(Texts) /\ ~ Holds(<<>>, str)
        BY DEF Holds
      <4>2. InMemory!IdIn(<<>>, str) = -1
        BY <4>1, IdInFinds
      <4> QED
        BY <3>1, <4>2
    <3>2. CASE sub # NoRequest
      <4>1. Good(sub) /\ sub.subsize_ = 0 /\ g = StringsIn(sub) /\ g \in Seq(Texts)
        BY <1>1, <3>2 DEF GoodSub, Good
      <4>2. LookupOwn(sub, str) =
              IF InMemory!IdIn(g, str) = -1 THEN -1 ELSE InMemory!IdIn(g, str) + 0
        BY <1>3, <4>1, LookupOwnAsInMemory
      <4>3. InMemory!IdIn(g, str) \in Int
        <5>1. InMemory!IdIn(StringsIn(sub), str) \in -1 .. Len(StringsIn(sub)) - 1
          BY <4>1, IdInFinds
        <5>2. Len(StringsIn(sub)) \in Nat
          BY <4>1, Sizes
        <5> HIDE DEF g
        <5> QED
          BY <4>1, <5>1, <5>2
      <4> QED
        BY <3>2, <4>2, <4>3 DEF NOT_FOUND
    <3> QED
      BY <3>1, <3>2
  <2> DEFINE own == InMemory!IdIn(StringsIn(enc), str)
  <2>3. LookupOwn(enc, str) = IF own = -1 THEN -1 ELSE own + enc.subsize_
    BY <1>3, LookupOwnAsInMemory
  <2>4. InMemory!string_to_int(V(enc), g, str) =
          IF InMemory!IdIn(g, str) # -1 THEN InMemory!IdIn(g, str)
          ELSE IF own # -1 THEN own + enc.subsize_ ELSE -1
    BY <1>1, <2>1 DEF InMemory!string_to_int
  <2>5. Lookup(enc, sub, str) =
          IF sub # NoRequest /\ LookupOwn(sub, str) # NOT_FOUND
          THEN LookupOwn(sub, str) ELSE LookupOwn(enc, str)
    BY DEF Lookup
  <2> HIDE DEF own, g
  <2>6. CASE sub # NoRequest /\ LookupOwn(sub, str) # NOT_FOUND
    BY <2>2, <2>4, <2>5, <2>6 DEF g
  <2>7. CASE ~ (sub # NoRequest /\ LookupOwn(sub, str) # NOT_FOUND)
    BY <2>2, <2>3, <2>4, <2>5, <2>7 DEF g
  <2> QED
    BY <2>6, <2>7
<1> QED
  BY <1>2, <1>3

\* By the invariant, every answer is that of the in-memory encoding.
LEMMA InvImpliesAnswers == Inv => AnswersAsInMemory
<1> SUFFICES ASSUME Inv, NEW enc \in Encodings, NEW str \in Texts \union {NullText}
             PROVE  LET sub == IF enc = global THEN NoRequest ELSE global
                    IN  Lookup(enc, sub, str) =
                          InMemory!string_to_int(V(enc),
                            IF sub = NoRequest THEN <<>> ELSE V(sub).vector_, str)
  BY Zenon DEF AnswersAsInMemory
<1>1. Good(enc)
  BY DEF Inv, Encodings
<1>2. GoodSub(NoRequest) /\ GoodSub(global)
  BY <1>1, NobodyBelow, GlobalIsSequence
<1> QED
  BY <1>1, <1>2, LookupAsInMemory

\* By the invariant, the variables have their types.
LEMMA InvImpliesTypes == Inv => TypeOK
<1> SUFFICES ASSUME Inv PROVE TypeOK
  OBVIOUS
<1>1. ASSUME NEW enc \in Encodings
      PROVE  /\ Range(enc.btree_) = DOMAIN enc.rownums_
             /\ Len(enc.string_vector_.data_) = Last(enc.string_vector_.indptr_)
             /\ enc.subsize_ \in Nat
  <2>1. Good(enc)
    BY DEF Inv, Encodings
  <2> QED
    BY <2>1, Parts DEF Good, GoodIndex, GoodStrings, Last
<1>2. Range(file) \subseteq Texts
  BY DEF Inv, Range
<1>3. issued \union promised \subseteq (Nat \X Texts) \union {<<NOT_FOUND, NullText>>}
  BY DEF Inv, Means
<1> QED
  BY <1>1, <1>2, <1>3 DEF TypeOK

\* Every variable holds what it is meant to hold.
THEOREM TypeCorrect == Spec => []TypeOK
<1>1. Inv => TypeOK
  BY InvImpliesTypes
<1> QED
  BY <1>1, EncodingInvariant, PTL

\* An id that was handed out keeps its string, a string has one id, and the encoding
\* answers as the one in memory does.
THEOREM AnswersAlike == Spec => []EncodingAnswersAsInMemory
<1>1. Inv => EncodingAnswersAsInMemory
  BY InvImpliesIds, InvImpliesOneId, InvImpliesAnswers DEF EncodingAnswersAsInMemory
<1> QED
  BY <1>1, EncodingInvariant, PTL

-----------------------------------------------------------------------------
(* DataFrame: what holds of a data frame d on its heap *)

\* Finitely many columns and maps, under their ids.
GoodHeap(h) ==
  /\ h = [data |-> h.data, maps |-> h.maps]
  /\ h.data = [i \in DOMAIN h.data |-> h.data[i]] /\ IsFiniteSet(DOMAIN h.data)
  /\ DOMAIN h.data \subseteq Nat
  /\ \A i \in DOMAIN h.data : h.data[i] \in Seq(Int)
  /\ h.maps = [i \in DOMAIN h.maps |-> h.maps[i]] /\ IsFiniteSet(DOMAIN h.maps)
  /\ DOMAIN h.maps \subseteq Nat

\* The parts of a data frame.
Typed(d) ==
  /\ d = [name_ |-> d.name_, cols |-> d.cols, indices_ |-> d.indices_, frozen_ |-> d.frozen_,
          last_change_ |-> d.last_change_, h |-> d.h, failure |-> d.failure]
  /\ d.name_ \in Names /\ d.cols \in [RoleSet -> Seq(ColumnRecords)]
  /\ d.indices_ \in Seq(IndexRecords) /\ d.frozen_ \in BOOLEAN /\ d.last_change_ \in Nat
  /\ GoodHeap(d.h)

\* The columns have data of their own and different names, and are of one length.
GoodColumns(d) ==
  \A r, s \in RoleSet : \A i \in 1..Len(d.cols[r]), j \in 1..Len(d.cols[s]) :
    /\ d.cols[r][i].data \in DOMAIN d.h.data
    /\ d.cols[r][i].data = d.cols[s][j].data => r = s /\ i = j
    /\ d.cols[r][i].name = d.cols[s][j].name => r = s /\ i = j
    /\ Len(ValuesOf(d, d.cols[r][i])) = Len(ValuesOf(d, d.cols[s][j]))

\* The values of a join key.
KeyValues(d, i) == ValuesOf(d, d.cols["join_key"][i])

\* The map holds the rows of every key among the first n values.
Exact(map, values, n) ==
  /\ map = [key \in DOMAIN map |-> map[key]]
  /\ \A key \in DOMAIN map : /\ map[key] \in Seq(Nat)
                             /\ ~ is_null(key)
                             /\ \A a, b \in 1..Len(map[key]) : a < b => map[key][a] < map[key][b]
                             /\ \A a \in 1..Len(map[key]) : /\ map[key][a] + 1 \in 1..n
                                                            /\ values[map[key][a] + 1] = key
  /\ \A j \in 1..n : ~ is_null(values[j]) => /\ values[j] \in DOMAIN map
                                             /\ \E a \in 1..Len(map[values[j]]) : map[values[j]][a] = j - 1

\* Every join key has an index, which got to begin_; one with a map of its own holds
\* the rows up to there.
GoodIndices(d) ==
  /\ Len(d.indices_) = Len(d.cols["join_key"])
  /\ \A i \in 1..Len(d.indices_) :
       /\ d.indices_[i].map \in DOMAIN d.h.maps
       /\ d.indices_[i].begin_ <= Len(KeyValues(d, i))
       /\ d.indices_[i].own =>
            /\ \A j \in 1..Len(d.indices_) : d.indices_[i].map = d.indices_[j].map => i = j
            /\ Exact(d.h.maps[d.indices_[i].map], KeyValues(d, i), d.indices_[i].begin_)

\* The indices got to the end of their columns.
Complete(d) ==
  \A i \in 1..Len(d.indices_) : d.indices_[i].begin_ = Len(KeyValues(d, i))

\* A data frame as every request leaves it.
GoodFrame(d) == Typed(d) /\ GoodColumns(d) /\ GoodIndices(d) /\ Complete(d)

\* What the columns point to.
DataIds(d) == {d.cols[p[1]][p[2]].data : p \in Places(d.cols)}

\* What the indices point to.
MapIds(d) == {d.indices_[i].map : i \in 1..Len(d.indices_)}

\* What a heap has been extended to.
Extends(h, g) ==
  /\ DOMAIN h.data \subseteq DOMAIN g.data /\ \A i \in DOMAIN h.data : g.data[i] = h.data[i]
  /\ DOMAIN h.maps \subseteq DOMAIN g.maps
  /\ \A i \in DOMAIN h.maps : g.maps[i] = h.maps[i]

\* The names and values in the files.
SavedContent(saved) ==
  [r \in RoleSet |-> [i \in 1..Len(saved.cols[r]) |->
     [name |-> saved.cols[r][i].name, values |-> saved.cols[r][i].values]]]

\* The columns in the files have different names.
DifferentNames(saved) ==
  \A r, s \in RoleSet : \A i \in 1..Len(saved.cols[r]), j \in 1..Len(saved.cols[s]) :
    saved.cols[r][i].name = saved.cols[s][j].name => r = s /\ i = j

\* What is saved under n is not newer than now, and has been seen.
GoodSaved(n, saved) ==
  /\ saved.last_change_ <= time
  /\ DifferentNames(saved)
  /\ <<<<n, saved.last_change_>>, SavedContent(saved)>> \in known

\* Every data frame is good, shares nothing with the others and has been seen as it is;
\* so have the saved ones; and no fingerprint has been seen twice.
FrameInv ==
  /\ time \in 0..MaxSteps
  /\ data_frames \in [Names -> FrameRecords \cup {NoFrame}]
  /\ disk \in [Names -> SavedRecords \cup {NoFrame}]
  /\ GoodHeap(heap)
  /\ \A n \in Live : /\ GoodFrame(Get(n)) /\ data_frames[n].name_ = n
                     /\ data_frames[n].last_change_ <= time
                     /\ SeenAs(Get(n)) \in known
  /\ \A m, n \in Live : m # n => /\ DataIds(Get(m)) \cap DataIds(Get(n)) = {}
                                 /\ MapIds(Get(m)) \cap MapIds(Get(n)) = {}
  /\ \A n \in Names : disk[n] # NoFrame => GoodSaved(n, disk[n])
  /\ \A s \in known : s[1][2] \in 0..time
  /\ \A s, t \in known : s[1] = t[1] => s = t

-----------------------------------------------------------------------------
(* DataFrame: the heap *)

\* The roles are eight.
LEMMA RolesAre ==
  RoleSet = {"categorical", "join_key", "numerical", "target", "text",
             "time_stamp", "unused_float", "unused_string"}
<1>1. /\ DOMAIN Roles = 1..8
      /\ Roles[1] = "categorical" /\ Roles[2] = "join_key" /\ Roles[3] = "numerical"
      /\ Roles[4] = "target" /\ Roles[5] = "text" /\ Roles[6] = "time_stamp"
      /\ Roles[7] = "unused_float" /\ Roles[8] = "unused_string"
  BY DEF Roles
<1>2. RoleSet = {Roles[i] : i \in 1..8}
  BY <1>1 DEF RoleSet, Range
<1>3. \A i \in 1..8 : i = 1 \/ i = 2 \/ i = 3 \/ i = 4 \/ i = 5 \/ i = 6 \/ i = 7 \/ i = 8
  OBVIOUS
<1> QED
  BY <1>1, <1>2, <1>3

\* A new id is one that is not in use.
LEMMA FreshIsNew ==
  ASSUME NEW f, IsFiniteSet(DOMAIN f)
  PROVE  Fresh(f) \in Nat /\ Fresh(f) \notin DOMAIN f
<1> DEFINE n == Cardinality(DOMAIN f)
           Free == (1..(n + 1)) \ DOMAIN f
<1>1. n \in Nat
  BY FS_CardinalityType
<1>2. Free # {}
  <2>1. SUFFICES ASSUME 1..(n + 1) \subseteq DOMAIN f PROVE FALSE
    OBVIOUS
  <2>2. Cardinality(1..(n + 1)) <= n
    BY <2>1, FS_Subset
  <2>3. Cardinality(1..(n + 1)) = n + 1
    BY <1>1, FS_Interval
  <2> QED
    BY <1>1, <2>2, <2>3
<1>3. Free \subseteq Nat
  OBVIOUS
<1> HIDE DEF Free
<1>4. PICK m \in Free : \A k \in Free : m <= k
  BY <1>2, <1>3, LeastNumber
<1>5. Fresh(f) \in Free
  BY <1>4 DEF Fresh, Min, Free
<1> QED
  BY <1>3, <1>5 DEF Free

\* There are enough ids for the columns of a data frame.
LEMMA FreshIdsAreNew ==
  ASSUME NEW f, IsFiniteSet(DOMAIN f), NEW P, IsFiniteSet(P)
  PROVE  /\ FreshIds(f, P) \in [P -> Nat]
         /\ \A p \in P : FreshIds(f, P)[p] \notin DOMAIN f
         /\ \A p, q \in P : FreshIds(f, P)[p] = FreshIds(f, P)[q] => p = q
<1> DEFINE n == Cardinality(DOMAIN f) + Cardinality(P)
           Free == (1..n) \ DOMAIN f
<1>1. Cardinality(DOMAIN f) \in Nat /\ Cardinality(P) \in Nat /\ n \in Nat
  BY FS_CardinalityType
<1>2. IsFiniteSet(1..n) /\ Cardinality(1..n) = n
  BY <1>1, FS_Interval
<1>3. IsFiniteSet(Free) /\ Cardinality(Free) >= Cardinality(P)
  <2>1. /\ IsFiniteSet(Free)
        /\ Cardinality(Free) = Cardinality(1..n) - Cardinality((1..n) \cap DOMAIN f)
    BY <1>2, FS_Difference
  <2>2. /\ Cardinality((1..n) \cap DOMAIN f) <= Cardinality(DOMAIN f)
        /\ Cardinality((1..n) \cap DOMAIN f) \in Nat
    BY FS_Subset, FS_CardinalityType
  <2> QED
    BY <1>1, <1>2, <2>1, <2>2
<1> HIDE DEF Free
<1> DEFINE k == Cardinality(P)
           m == Cardinality(Free)
<1>4. k \in Nat /\ m \in Nat /\ k <= m
  BY <1>1, <1>3, FS_CardinalityType
<1>5. PICK a : /\ a \in [1..k -> P]
               /\ \A p \in P : \E i \in 1..k : a[i] = p
  <2>1. PICK a : a \in Bijection(1..k, P)
    BY FS_CardinalityType DEF ExistsBijection
  <2> HIDE DEF k
  <2>2. a \in Surjection(1..k, P)
    BY <2>1 DEF Bijection
  <2> QED
    BY <2>2 DEF Surjection, Range
<1>6. PICK b : /\ b \in [1..m -> Free]
               /\ \A i, j \in 1..m : b[i] = b[j] => i = j
  <2>1. PICK b : b \in Bijection(1..m, Free)
    BY <1>3, FS_CardinalityType DEF ExistsBijection
  <2> HIDE DEF m
  <2>2. b \in Injection(1..m, Free)
    BY <2>1 DEF Bijection
  <2> QED
    BY <2>2 DEF Injection, IsInjective
<1> HIDE DEF k, m
<1> DEFINE at == [p \in P |-> CHOOSE i \in 1..k : a[i] = p]
           g == [p \in P |-> b[at[p]]]
<1>7. \A p \in P : at[p] \in 1..k /\ at[p] \in 1..m /\ a[at[p]] = p
  BY <1>4, <1>5
<1> HIDE DEF at
<1>8. g \in [P -> Free] /\ \A p, q \in P : g[p] = g[q] => p = q
  <2>1. g \in [P -> Free]
    BY <1>6, <1>7
  <2>2. ASSUME NEW p \in P, NEW q \in P, g[p] = g[q] PROVE p = q
    <3>1. at[p] = at[q]
      BY <1>6, <1>7, <2>2
    <3> QED
      BY <1>7, <3>1
  <2> QED
    BY <2>1, <2>2
<1> HIDE DEF g
<1> DEFINE Ok(id) == IsInjective(id) /\ Range(id) \cap DOMAIN f = {}
<1>9. g \in [P -> 1..n] /\ Ok(g)
  <2>1. \A p \in P : g[p] \in 1..n /\ g[p] \notin DOMAIN f
    BY <1>8 DEF Free
  <2>2. DOMAIN g = P /\ g \in [P -> 1..n]
    BY <1>8, <2>1
  <2>3. Range(g) \cap DOMAIN f = {}
    BY <2>1, <2>2 DEF Range
  <2> QED
    BY <1>8, <2>2, <2>3 DEF IsInjective
<1>10. FreshIds(f, P) = CHOOSE id \in [P -> 1..n] : Ok(id)
  BY DEF FreshIds
<1>11. FreshIds(f, P) \in [P -> 1..n] /\ Ok(FreshIds(f, P))
  <2> HIDE DEF Ok, n
  <2> QED
    BY <1>9, <1>10
<1> DEFINE id == FreshIds(f, P)
<1>12. id \in [P -> 1..n] /\ DOMAIN id = P
  BY <1>11
<1>13. \A p \in P : id[p] \notin DOMAIN f
  BY <1>11, <1>12 DEF Range
<1>14. \A p, q \in P : id[p] = id[q] => p = q
  BY <1>11, <1>12 DEF IsInjective
<1>15. \A p \in P : id[p] \in Nat
  BY <1>1, <1>12
<1> HIDE DEF id, n, Ok
<1>16. id \in [P -> Nat]
  BY <1>12, <1>15
<1> QED
  BY <1>13, <1>14, <1>16 DEF id

\* What is left when an element of a vector is erased.
LEMMA RemoveAtElements ==
  ASSUME NEW S, NEW s \in Seq(S), NEW i \in 1..Len(s)
  PROVE  /\ RemoveAt(s, i) \in Seq(S) /\ Len(RemoveAt(s, i)) = Len(s) - 1
         /\ \A j \in 1..(Len(s) - 1) :
              RemoveAt(s, i)[j] = IF j < i THEN s[j] ELSE s[j + 1]
<1> DEFINE a == SubSeq(s, 1, i - 1)
           b == SubSeq(s, i + 1, Len(s))
<1>1. a \in Seq(S) /\ Len(a) = i - 1 /\ \A j \in 1..(i - 1) : a[j] = s[j]
  OBVIOUS
<1>2. b \in Seq(S) /\ Len(b) = Len(s) - i /\ \A j \in 1..(Len(s) - i) : b[j] = s[i + j]
  OBVIOUS
<1> HIDE DEF a, b
<1>3. Len(s) \in Nat /\ i \in Nat /\ i <= Len(s)
  OBVIOUS
<1>4. RemoveAt(s, i) = a \o b
  BY DEF RemoveAt, a, b
<1>5. a \o b \in Seq(S) /\ Len(a \o b) = Len(s) - 1
  BY <1>1, <1>2, <1>3
<1>6. ASSUME NEW j \in 1..(Len(s) - 1)
      PROVE  (a \o b)[j] = IF j < i THEN s[j] ELSE s[j + 1]
  <2>1. CASE j < i
    BY <1>1, <1>2, <1>3, <2>1
  <2>2. CASE ~ (j < i)
    <3>1. (a \o b)[j] = b[j - (i - 1)]
      BY <1>1, <1>2, <1>3, <2>2
    <3>2. j - (i - 1) \in 1..(Len(s) - i)
      BY <1>3, <2>2
    <3>3. i + (j - (i - 1)) = j + 1
      BY <1>3
    <3>4. b[j - (i - 1)] = s[i + (j - (i - 1))]
      BY <1>2, <3>2
    <3> QED
      BY <2>2, <3>1, <3>3, <3>4
  <2> QED
    BY <2>1, <2>2
<1> QED
  BY <1>4, <1>5, <1>6

-----------------------------------------------------------------------------
(* Index *)

\* A value is inserted under its key, behind the rows of the same key.
LEMMA InsertedRow ==
  ASSUME NEW values \in Seq(Int), NEW n \in Nat, n + 1 <= Len(values),
         NEW map, Exact(map, values, n), ~ is_null(values[n + 1])
  PROVE  Exact(insert_row(map, values[n + 1], n), values, n + 1)
<1> DEFINE key == values[n + 1]
           old == IF key \in DOMAIN map THEN map[key] ELSE <<>>
           rows == Append(old, n)
           new == insert_row(map, key, n)
<1>1. key \in Int
  OBVIOUS
<1>2. old \in Seq(Nat) /\ Len(old) \in Nat
  BY DEF Exact
<1>3. /\ \A a, b \in 1..Len(old) : a < b => old[a] < old[b]
      /\ \A a \in 1..Len(old) : old[a] + 1 \in 1..n /\ values[old[a] + 1] = key
  <2>1. CASE key \in DOMAIN map
    <3>1. old = map[key]
      BY <2>1
    <3> HIDE DEF old, key
    <3> QED
      BY <2>1, <3>1 DEF Exact
  <2>2. CASE key \notin DOMAIN map
    <3>1. Len(old) = 0
      BY <2>2
    <3> HIDE DEF old, key
    <3> QED
      BY <3>1
  <2> QED
    BY <2>1, <2>2
<1>4. ASSUME NEW j \in 1..n, values[j] = key PROVE \E a \in 1..Len(old) : old[a] = j - 1
  <2>1. ~ is_null(values[j])
    BY <1>4
  <2>2. values[j] \in DOMAIN map /\ \E a \in 1..Len(map[values[j]]) : map[values[j]][a] = j - 1
    BY <2>1 DEF Exact
  <2> QED
    BY <1>4, <2>2
<1>5. new = [x \in DOMAIN map \cup {key} |-> IF x = key THEN rows ELSE map[x]]
  <2>1. (IF key \in DOMAIN map THEN Append(map[key], n) ELSE <<n>>) = rows
    <3>1. Append(<<>>, n) = <<n>>
      OBVIOUS
    <3> QED
      BY <3>1
  <2> HIDE DEF rows, old
  <2> QED
    BY <2>1 DEF insert_row, With
<1> HIDE DEF old
<1>6. /\ rows \in Seq(Nat) /\ Len(rows) = Len(old) + 1
      /\ \A a \in 1..Len(old) : rows[a] = old[a]
      /\ rows[Len(old) + 1] = n
  BY <1>2
<1> HIDE DEF rows, new, key
<1>7. DOMAIN new = DOMAIN map \cup {key} /\ new = [x \in DOMAIN new |-> new[x]]
  BY <1>5
<1>8. new[key] = rows /\ \A x \in DOMAIN map : x # key => new[x] = map[x]
  BY <1>5
<1>9. /\ \A a, b \in 1..Len(rows) : a < b => rows[a] < rows[b]
      /\ \A a \in 1..Len(rows) : rows[a] + 1 \in 1..n + 1 /\ values[rows[a] + 1] = key
  <2>1. \A a \in 1..Len(rows) : a \in 1..Len(old) \/ a = Len(old) + 1
    BY <1>2, <1>6
  <2>2. \A a \in 1..Len(old) : old[a] \in Nat /\ old[a] + 1 <= n
    BY <1>2, <1>3
  <2>3. ASSUME NEW a \in 1..Len(rows), NEW b \in 1..Len(rows), a < b PROVE rows[a] < rows[b]
    <3>1. a \in 1..Len(old)
      BY <1>2, <1>6, <2>1, <2>3
    <3>2. rows[a] = old[a] /\ old[a] < n
      <4>1. rows[a] = old[a]
        BY <1>6, <3>1
      <4>2. old[a] \in Nat /\ old[a] + 1 <= n
        BY <2>2, <3>1
      <4> QED
        BY <4>1, <4>2
    <3>3. CASE b = Len(old) + 1
      BY <1>6, <3>2, <3>3
    <3>4. CASE b \in 1..Len(old)
      BY <1>3, <1>6, <2>3, <3>1, <3>2, <3>4
    <3> QED
      BY <2>1, <3>3, <3>4
  <2>4. ASSUME NEW a \in 1..Len(rows)
        PROVE  rows[a] + 1 \in 1..n + 1 /\ values[rows[a] + 1] = key
    <3>1. CASE a = Len(old) + 1
      BY <1>6, <3>1 DEF key
    <3>2. CASE a \in 1..Len(old)
      <4>1. rows[a] = old[a]
        BY <1>6, <3>2
      <4>2. old[a] \in Nat /\ old[a] + 1 <= n /\ values[old[a] + 1] = key
        BY <1>3, <2>2, <3>2
      <4>3. old[a] + 1 \in 1..n + 1
        BY <4>2
      <4> HIDE DEF rows, old, key
      <4> QED
        BY <4>1, <4>2, <4>3
    <3> QED
      BY <2>1, <3>1, <3>2
  <2> QED
    BY <2>3, <2>4
<1>10. ASSUME NEW x \in DOMAIN new
       PROVE  /\ new[x] \in Seq(Nat) /\ ~ is_null(x)
              /\ \A a, b \in 1..Len(new[x]) : a < b => new[x][a] < new[x][b]
              /\ \A a \in 1..Len(new[x]) : new[x][a] + 1 \in 1..n + 1 /\ values[new[x][a] + 1] = x
  <2>1. CASE x = key
    BY <1>6, <1>8, <1>9, <2>1 DEF key
  <2>2. CASE x # key
    <3>1. x \in DOMAIN map /\ new[x] = map[x]
      BY <1>7, <1>8, <2>2
    <3>2. /\ map[x] \in Seq(Nat) /\ ~ is_null(x)
          /\ \A a, b \in 1..Len(map[x]) : a < b => map[x][a] < map[x][b]
          /\ \A a \in 1..Len(map[x]) : map[x][a] + 1 \in 1..n /\ values[map[x][a] + 1] = x
      BY <3>1 DEF Exact
    <3>3. \A k : k \in 1..n => k \in 1..n + 1
      OBVIOUS
    <3> QED
      BY <3>1, <3>2, <3>3
  <2> QED
    BY <2>1, <2>2
<1>11. ASSUME NEW j \in 1..n + 1, ~ is_null(values[j])
       PROVE  /\ values[j] \in DOMAIN new
              /\ \E a \in 1..Len(new[values[j]]) : new[values[j]][a] = j - 1
  <2>1. CASE values[j] = key
    <3>1. \E a \in 1..Len(rows) : rows[a] = j - 1
      <4>1. CASE j = n + 1
        <5>1. Len(old) + 1 \in 1..Len(rows) /\ rows[Len(old) + 1] = n
          BY <1>2, <1>6
        <5>2. n = j - 1
          BY <4>1
        <5> HIDE DEF rows, old, key
        <5> QED
          BY <5>1, <5>2
      <4>2. CASE j # n + 1
        <5>1. PICK a \in 1..Len(old) : old[a] = j - 1
          BY <1>4, <2>1, <4>2
        <5> QED
          BY <1>2, <1>6, <5>1
      <4> QED
        BY <4>1, <4>2
    <3> QED
      BY <1>7, <1>8, <2>1, <3>1
  <2>2. CASE values[j] # key
    <3>1. j \in 1..n
      BY <2>2 DEF key
    <3>2. values[j] \in DOMAIN map /\ \E a \in 1..Len(map[values[j]]) : map[values[j]][a] = j - 1
      BY <1>11, <3>1 DEF Exact
    <3> QED
      BY <1>7, <1>8, <2>2, <3>2
  <2> QED
    BY <2>1, <2>2
<1> HIDE DEF is_null
<1>12. Exact(new, values, n + 1)
  BY <1>7, <1>10, <1>11 DEF Exact
<1> QED
  BY <1>12 DEF new, key

\* A null value has no place in an index.
LEMMA NullRow ==
  ASSUME NEW values \in Seq(Int), NEW n \in Nat, n + 1 <= Len(values),
         NEW map, Exact(map, values, n), is_null(values[n + 1])
  PROVE  Exact(map, values, n + 1)
<1>1. \A j \in 1..n + 1 : j \in 1..n \/ j = n + 1
  OBVIOUS
<1>2. \A j \in 1..n : j \in 1..n + 1
  OBVIOUS
<1> QED
  BY <1>1, <1>2 DEF Exact

\* The loop of Indexed.
IndexLoop(f, map, values, begin) ==
  /\ f[0] = map
  /\ \A n \in 1..Len(values) :
       f[n] = IF n <= begin \/ is_null(values[n]) THEN f[n - 1]
              ELSE insert_row(f[n - 1], values[n], n - 1)
  /\ Indexed(map, values, begin) = f[Len(values)]

\* Indexed is the last step of the loop over the values.
LEMMA IndexedLoop ==
  ASSUME NEW map, NEW values \in Seq(Int), NEW begin \in Nat
  PROVE  \E f : IndexLoop(f, map, values, begin)
<1> DEFINE N == Len(values)
           next(x, n) == IF n <= begin \/ is_null(values[n]) THEN x
                         ELSE insert_row(x, values[n], n - 1)
           Loop(n, g) == g = [i \in 0..n |-> IF i = 0 THEN map ELSE next(g[i - 1], i)]
           T == {n \in 0..N : \E g : Loop(n, g)}
           f == CHOOSE g : g = [n \in 0..N |-> IF n = 0 THEN map
                                               ELSE IF n <= begin \/ is_null(values[n]) THEN g[n - 1]
                                               ELSE insert_row(g[n - 1], values[n], n - 1)]
<1>1. Indexed(map, values, begin) = f[N]
  BY DEF Indexed
<1>2. f = CHOOSE g : Loop(N, g)
  OBVIOUS
<1> HIDE DEF f
<1>3. N \in Nat
  OBVIOUS
<1>4. 0 \in T
  <2> DEFINE g0 == [i \in 0..0 |-> map]
  <2>1. Loop(0, g0)
    OBVIOUS
  <2> HIDE DEF g0, Loop
  <2> QED
    BY <1>3, <2>1
<1> HIDE DEF next
<1>5. ASSUME NEW n \in 0..N - 1, n \in T PROVE n + 1 \in T
  <2>1. PICK g : Loop(n, g)
    BY <1>5
  <2> DEFINE h == [i \in 0..n + 1 |-> IF i = n + 1 THEN next(g[n], n + 1) ELSE g[i]]
  <2>2. \A i \in 0..n + 1 : h[i] = IF i = 0 THEN map ELSE next(h[i - 1], i)
    <3> TAKE i \in 0..n + 1
    <3>1. CASE i = 0
      BY <2>1, <3>1
    <3>2. CASE i = n + 1
      BY <3>2
    <3>3. CASE i \in 1..n
      <4>1. h[i] = g[i] /\ h[i - 1] = g[i - 1]
        BY <3>3
      <4>2. g[i] = next(g[i - 1], i)
        BY <2>1, <3>3
      <4> QED
        BY <3>3, <4>1, <4>2
    <3> QED
      BY <3>1, <3>2, <3>3
  <2>3. DOMAIN h = 0..n + 1 /\ h = [i \in 0..n + 1 |-> h[i]]
    OBVIOUS
  <2> HIDE DEF h
  <2>4. Loop(n + 1, h)
    BY <2>2, <2>3
  <2> HIDE DEF Loop
  <2> QED
    BY <1>3, <2>4
<1>6. N \in T
  <2> HIDE DEF T, N
  <2>1. 0..N \subseteq T
    BY <1>3, <1>4, <1>5, BoundedInduction
  <2> QED
    BY <1>3, <2>1
<1>7. Loop(N, f)
  <2> HIDE DEF Loop
  <2> QED
    BY <1>2, <1>6
<1>8. f[0] = map /\ \A n \in 1..N : f[n] = next(f[n - 1], n)
  BY <1>3, <1>7
<1> HIDE DEF Loop
<1> QED
  BY <1>1, <1>8 DEF next, IndexLoop

\* Where an index got to the end, its map stays what it is.
LEMMA IndexedStays ==
  ASSUME NEW values \in Seq(Int), NEW map
  PROVE  Indexed(map, values, Len(values)) = map
<1> DEFINE N == Len(values)
<1>1. N \in Nat
  OBVIOUS
<1>2. PICK f : IndexLoop(f, map, values, N)
  BY <1>1, IndexedLoop
<1> DEFINE T == {n \in 0..N : f[n] = map}
<1>3. 0 \in T
  BY <1>1, <1>2 DEF IndexLoop
<1>4. ASSUME NEW n \in 0..N - 1, n \in T PROVE n + 1 \in T
  <2>1. n + 1 \in 1..N /\ n + 1 \in 0..N /\ (n + 1) - 1 = n /\ n + 1 <= N
    BY <1>1
  <2> QED
    BY <1>2, <1>4, <2>1 DEF IndexLoop
<1>5. N \in T
  <2> HIDE DEF T, N
  <2>1. 0..N \subseteq T
    BY <1>1, <1>3, <1>4, BoundedInduction
  <2> QED
    BY <1>1, <2>1
<1> QED
  BY <1>2, <1>5 DEF IndexLoop

\* Going on from where an index got to makes it hold the rows of all values.
LEMMA IndexedIsExact ==
  ASSUME NEW values \in Seq(Int), NEW begin \in Nat, begin <= Len(values),
         NEW map, Exact(map, values, begin)
  PROVE  Exact(Indexed(map, values, begin), values, Len(values))
<1>1. PICK f : IndexLoop(f, map, values, begin)
  BY IndexedLoop
<1> DEFINE N == Len(values)
<1>2. N \in Nat
  OBVIOUS
<1> DEFINE T == {n \in 0..N : IF n <= begin THEN f[n] = map ELSE Exact(f[n], values, n)}
<1>3. 0 \in T
  BY <1>1, <1>2 DEF IndexLoop
<1>4. ASSUME NEW n \in 0..N - 1, n \in T PROVE n + 1 \in T
  <2> DEFINE k == n + 1
  <2>1. k \in 1..N /\ k - 1 = n /\ n \in Nat /\ k \in 0..N
    BY <1>2
  <2>2. CASE k <= begin
    BY <1>1, <1>4, <2>1, <2>2 DEF IndexLoop
  <2>3. CASE ~ (k <= begin)
    <3>1. Exact(f[n], values, n)
      <4>1. n = begin \/ ~ (n <= begin)
        BY <2>1, <2>3
      <4> QED
        BY <1>4, <4>1
    <3>2. f[k] = IF is_null(values[k]) THEN f[n] ELSE insert_row(f[n], values[k], n)
      BY <1>1, <2>1, <2>3 DEF IndexLoop
    <3>3. Exact(f[k], values, k)
      <4> HIDE DEF is_null
      <4> QED
        BY <1>2, <2>1, <3>1, <3>2, InsertedRow, NullRow
    <3> QED
      BY <2>1, <2>3, <3>3
  <2> QED
    BY <2>2, <2>3
<1>5. N \in T
  <2> HIDE DEF T, N
  <2>1. 0..N \subseteq T
    BY <1>2, <1>3, <1>4, BoundedInduction
  <2> QED
    BY <1>2, <2>1
<1>6. CASE N <= begin
  <2>1. N = begin /\ f[N] = map
    BY <1>2, <1>5, <1>6
  <2> QED
    BY <1>1, <2>1 DEF IndexLoop
<1>7. CASE ~ (N <= begin)
  BY <1>1, <1>2, <1>5, <1>7 DEF IndexLoop
<1> QED
  BY <1>6, <1>7

\* e is d with other indices: what create_indices may change.
Reindexed(d, e) ==
  /\ e.cols = d.cols /\ e.name_ = d.name_ /\ e.frozen_ = d.frozen_
  /\ e.last_change_ = d.last_change_ /\ e.failure = d.failure
  /\ e.h.data = d.h.data /\ DOMAIN e.h.maps = DOMAIN d.h.maps
  /\ Len(e.indices_) = Len(d.indices_)
  /\ \A i \in 1..Len(d.indices_) :
       /\ e.indices_[i].map = d.indices_[i].map
       /\ \/ e.indices_[i].begin_ = d.indices_[i].begin_
          \/ e.indices_[i].begin_ = Len(KeyValues(d, i))
  /\ \A m \in DOMAIN d.h.maps :
       (\A i \in 1..Len(d.indices_) :
          d.indices_[i].map = m => d.indices_[i].begin_ = Len(KeyValues(d, i)))
       => e.h.maps[m] = d.h.maps[m]

\* The columns and their values.
LEMMA ColumnFacts ==
  ASSUME NEW d, Typed(d), GoodColumns(d), NEW r \in RoleSet, NEW i \in 1..Len(d.cols[r])
  PROVE  /\ d.cols[r] \in Seq(ColumnRecords) /\ d.cols[r][i] \in ColumnRecords
         /\ d.cols[r][i].data \in DOMAIN d.h.data /\ d.cols[r][i].data \in Nat
         /\ ValuesOf(d, d.cols[r][i]) \in Seq(Int) /\ Len(ValuesOf(d, d.cols[r][i])) \in Nat
<1>1. d.cols[r] \in Seq(ColumnRecords) /\ d.cols[r][i] \in ColumnRecords
  BY DEF Typed
<1>2. d.cols[r][i].data \in DOMAIN d.h.data
  BY DEF GoodColumns
<1>3. ValuesOf(d, d.cols[r][i]) \in Seq(Int)
  BY <1>2 DEF Typed, GoodHeap, ValuesOf
<1>4. d.cols[r][i].data \in Nat
  BY <1>1 DEF ColumnRecords
<1> QED
  BY <1>1, <1>2, <1>3, <1>4

\* Join keys are one of the roles.
LEMMA JoinKeyIsRole == "join_key" \in RoleSet
BY RolesAre

\* Index::calculate on one of the indices of a data frame.
LEMMA Calculated ==
  ASSUME NEW d, Typed(d), GoodColumns(d), GoodIndices(d), NEW i \in 1..Len(d.indices_)
  PROVE  LET e == calculate(d, i)
         IN /\ Typed(e) /\ GoodColumns(e) /\ GoodIndices(e) /\ Reindexed(d, e)
            /\ e.indices_[i].begin_ = Len(KeyValues(d, i))
            /\ \A j \in 1..Len(d.indices_) : j # i => e.indices_[j] = d.indices_[j]
<1> DEFINE e == calculate(d, i)
           idx == d.indices_[i]
           values == KeyValues(d, i)
           begin == IF Len(values) < idx.begin_ THEN 0 ELSE idx.begin_
           map == IF Len(values) < idx.begin_ THEN << >> ELSE d.h.maps[idx.map]
           new == Indexed(map, values, begin)
           I == [d.indices_ EXCEPT ![i].begin_ = Len(values)]
           M == With(d.h.maps, idx.map, new)
           H == [data |-> d.h.data, maps |-> M]
<1>1. /\ d = [name_ |-> d.name_, cols |-> d.cols, indices_ |-> d.indices_, frozen_ |-> d.frozen_,
              last_change_ |-> d.last_change_, h |-> d.h, failure |-> d.failure]
      /\ d.h = [data |-> d.h.data, maps |-> d.h.maps]
      /\ GoodHeap(d.h)
  BY DEF Typed, GoodHeap
<1>2. e = [d EXCEPT !.h.maps = M, !.indices_[i].begin_ = Len(values)]
  BY DEF calculate, KeyValues
<1>3. i \in 1..Len(d.cols["join_key"]) /\ Len(d.indices_) = Len(d.cols["join_key"])
      /\ idx.map \in DOMAIN d.h.maps
  BY DEF GoodIndices
<1>4. values \in Seq(Int) /\ Len(values) \in Nat
  BY <1>3, ColumnFacts, JoinKeyIsRole DEF KeyValues
<1>5. d.indices_ \in Seq(IndexRecords) /\ idx \in IndexRecords /\ Len(d.indices_) \in Nat
  BY DEF Typed
<1> HIDE DEF e, new, values
<1>6. /\ I \in Seq(IndexRecords) /\ Len(I) = Len(d.indices_)
      /\ I[i] = [begin_ |-> Len(values), map |-> idx.map, own |-> idx.own]
      /\ \A j \in 1..Len(d.indices_) : j # i => I[j] = d.indices_[j]
  <2>1. idx = [begin_ |-> idx.begin_, map |-> idx.map, own |-> idx.own] /\ idx.map \in Nat
        /\ idx.own \in BOOLEAN
    BY <1>5 DEF IndexRecords
  <2> DEFINE x == [begin_ |-> Len(values), map |-> idx.map, own |-> idx.own]
  <2>2. x \in IndexRecords
    BY <1>4, <2>1 DEF IndexRecords
  <2>3. [idx EXCEPT !.begin_ = Len(values)] = x
    BY <2>1
  <2>4. I = [d.indices_ EXCEPT ![i] = x]
    BY <2>3
  <2> HIDE DEF x, I, idx
  <2>5. I \in Seq(IndexRecords) /\ Len(I) = Len(d.indices_) /\ I[i] = x
        /\ \A j \in 1..Len(d.indices_) : j # i => I[j] = d.indices_[j]
    BY <1>5, <2>2, <2>4
  <2> QED
    BY <2>5 DEF x
<1>7. /\ DOMAIN M = DOMAIN d.h.maps /\ M = [m \in DOMAIN M |-> M[m]]
      /\ M[idx.map] = new /\ \A m \in DOMAIN d.h.maps : m # idx.map => M[m] = d.h.maps[m]
  BY <1>3 DEF With
<1> HIDE DEF I, M
<1>8. e = [name_ |-> d.name_, cols |-> d.cols, indices_ |-> I, frozen_ |-> d.frozen_,
           last_change_ |-> d.last_change_, h |-> H, failure |-> d.failure]
  <2>1. e = [[d EXCEPT !.h = [d.h EXCEPT !.maps = M]] EXCEPT !.indices_ = I]
    BY <1>1, <1>2 DEF I
  <2>2. [d.h EXCEPT !.maps = M] = H
    BY <1>1
  <2> HIDE DEF H
  <2>3. e = [[d EXCEPT !.h = H] EXCEPT !.indices_ = I]
    BY <2>1, <2>2
  <2> QED
    BY <1>1, <2>3
<1>9. /\ e.cols = d.cols /\ e.name_ = d.name_ /\ e.frozen_ = d.frozen_
      /\ e.last_change_ = d.last_change_ /\ e.failure = d.failure /\ e.h = H /\ e.indices_ = I
      /\ e.h.data = d.h.data /\ e.h.maps = M
  BY <1>8
<1>10. \A c : ValuesOf(e, c) = ValuesOf(d, c)
  BY <1>9 DEF ValuesOf
<1>11. \A j : KeyValues(e, j) = KeyValues(d, j)
  BY <1>9, <1>10 DEF KeyValues
<1>12. Typed(e)
  <2>1. GoodHeap(e.h)
    <3>1. e.h = [data |-> e.h.data, maps |-> e.h.maps] /\ DOMAIN e.h.maps = DOMAIN d.h.maps
          /\ e.h.maps = [m \in DOMAIN e.h.maps |-> e.h.maps[m]]
      BY <1>7, <1>9
    <3> QED
      BY <1>1, <1>9, <3>1 DEF GoodHeap
  <2>2. e = [name_ |-> e.name_, cols |-> e.cols, indices_ |-> e.indices_, frozen_ |-> e.frozen_,
             last_change_ |-> e.last_change_, h |-> e.h, failure |-> e.failure]
    BY <1>8, <1>9
  <2> QED
    BY <1>6, <1>9, <2>1, <2>2 DEF Typed
<1>13. GoodColumns(e)
  BY <1>9, <1>10 DEF GoodColumns
<1>14. /\ idx.own => Exact(new, values, Len(values))
       /\ idx.begin_ = Len(values) => new = d.h.maps[idx.map]
  <2>1. /\ idx.begin_ <= Len(values)
        /\ idx.own => Exact(d.h.maps[idx.map], values, idx.begin_)
    BY DEF GoodIndices, values
  <2>2. idx.begin_ \in Nat
    BY <1>5 DEF IndexRecords
  <2>3. begin = idx.begin_ /\ map = d.h.maps[idx.map]
    BY <1>4, <2>1, <2>2
  <2> HIDE DEF begin, map, idx
  <2>4. idx.own => Exact(new, values, Len(values))
    BY <1>4, <2>1, <2>2, <2>3, IndexedIsExact DEF new
  <2>5. idx.begin_ = Len(values) => new = d.h.maps[idx.map]
    BY <1>4, <2>3, IndexedStays DEF new
  <2> QED
    BY <2>4, <2>5
<1>15. GoodIndices(e)
  <2>1. Len(e.indices_) = Len(e.cols["join_key"])
    BY <1>3, <1>6, <1>9
  <2>2. ASSUME NEW j \in 1..Len(e.indices_)
        PROVE  /\ e.indices_[j].map = d.indices_[j].map /\ e.indices_[j].own = d.indices_[j].own
               /\ j \in 1..Len(d.indices_)
    BY <1>6, <1>9
  <2>3. ASSUME NEW j \in 1..Len(e.indices_)
        PROVE  /\ e.indices_[j].map \in DOMAIN e.h.maps
               /\ e.indices_[j].begin_ <= Len(KeyValues(e, j))
    <3>1. e.indices_[j].map \in DOMAIN e.h.maps
      BY <1>7, <1>9, <2>2 DEF GoodIndices
    <3>2. CASE j = i
      BY <1>4, <1>6, <1>9, <1>11, <3>1, <3>2 DEF values
    <3>3. CASE j # i
      <4>1. e.indices_[j] = d.indices_[j] /\ d.indices_[j].begin_ <= Len(KeyValues(d, j))
        BY <1>6, <1>9, <2>2, <3>3 DEF GoodIndices
      <4> QED
        BY <1>11, <3>1, <4>1
    <3> QED
      BY <3>2, <3>3
  <2>4. ASSUME NEW j \in 1..Len(e.indices_), e.indices_[j].own
        PROVE  /\ \A k \in 1..Len(e.indices_) : e.indices_[j].map = e.indices_[k].map => j = k
               /\ Exact(e.h.maps[e.indices_[j].map], KeyValues(e, j), e.indices_[j].begin_)
    <3>1. \A k \in 1..Len(e.indices_) : e.indices_[j].map = e.indices_[k].map => j = k
      BY <2>2, <2>4 DEF GoodIndices
    <3>2. CASE j = i
      BY <1>6, <1>7, <1>9, <1>11, <1>14, <2>2, <2>4, <3>1, <3>2 DEF values
    <3>3. CASE j # i
      <4>1. e.indices_[j] = d.indices_[j]
        BY <1>6, <1>9, <2>2, <3>3
      <4>2. d.indices_[j].map # idx.map /\ d.indices_[j].map \in DOMAIN d.h.maps
        BY <2>2, <2>4, <3>3 DEF GoodIndices
      <4>3. e.h.maps[e.indices_[j].map] = d.h.maps[d.indices_[j].map]
        BY <1>7, <1>9, <4>1, <4>2
      <4>4. Exact(d.h.maps[d.indices_[j].map], KeyValues(d, j), d.indices_[j].begin_)
        BY <2>2, <2>4 DEF GoodIndices
      <4> QED
        BY <1>11, <3>1, <4>1, <4>3, <4>4
    <3> QED
      BY <3>2, <3>3
  <2> QED
    BY <2>1, <2>3, <2>4 DEF GoodIndices
<1>16. Reindexed(d, e)
  <2>1. ASSUME NEW j \in 1..Len(d.indices_)
        PROVE  /\ e.indices_[j].map = d.indices_[j].map
               /\ \/ e.indices_[j].begin_ = d.indices_[j].begin_
                  \/ e.indices_[j].begin_ = Len(KeyValues(d, j))
    BY <1>6, <1>9 DEF values
  <2>2. ASSUME NEW m \in DOMAIN d.h.maps,
               \A j \in 1..Len(d.indices_) :
                 d.indices_[j].map = m => d.indices_[j].begin_ = Len(KeyValues(d, j))
        PROVE  e.h.maps[m] = d.h.maps[m]
    <3>1. CASE m = idx.map
      <4>1. idx.begin_ = Len(values)
        BY <2>2, <3>1 DEF values
      <4> QED
        BY <1>7, <1>9, <1>14, <3>1, <4>1
    <3>2. CASE m # idx.map
      BY <1>7, <1>9, <3>2
    <3> QED
      BY <3>1, <3>2
  <2>3. DOMAIN e.h.maps = DOMAIN d.h.maps /\ Len(e.indices_) = Len(d.indices_)
    BY <1>6, <1>7, <1>9
  <2> QED
    BY <1>9, <2>1, <2>2, <2>3 DEF Reindexed
<1>17. /\ e.indices_[i].begin_ = Len(values)
       /\ \A j \in 1..Len(d.indices_) : j # i => e.indices_[j] = d.indices_[j]
  BY <1>6, <1>9
<1> QED
  BY <1>12, <1>13, <1>15, <1>16, <1>17 DEF e, values

\* Completing two indices one after the other comes to completing both.
LEMMA ReindexedTwice ==
  ASSUME NEW c, NEW d, NEW e, Reindexed(c, d), Reindexed(d, e)
  PROVE  Reindexed(c, e)
<1>1. \A i : KeyValues(d, i) = KeyValues(c, i)
  BY DEF Reindexed, KeyValues, ValuesOf
<1>2. ASSUME NEW i \in 1..Len(c.indices_)
      PROVE  /\ e.indices_[i].map = c.indices_[i].map
             /\ \/ e.indices_[i].begin_ = c.indices_[i].begin_
                \/ e.indices_[i].begin_ = Len(KeyValues(c, i))
  BY <1>1 DEF Reindexed
<1>3. ASSUME NEW m \in DOMAIN c.h.maps,
             \A i \in 1..Len(c.indices_) :
               c.indices_[i].map = m => c.indices_[i].begin_ = Len(KeyValues(c, i))
      PROVE  e.h.maps[m] = c.h.maps[m]
  <2>1. d.h.maps[m] = c.h.maps[m] /\ m \in DOMAIN d.h.maps
    BY <1>3 DEF Reindexed
  <2>2. ASSUME NEW i \in 1..Len(d.indices_), d.indices_[i].map = m
        PROVE  d.indices_[i].begin_ = Len(KeyValues(d, i))
    <3>1. i \in 1..Len(c.indices_) /\ c.indices_[i].map = m
      BY <2>2 DEF Reindexed
    <3>2. c.indices_[i].begin_ = Len(KeyValues(c, i))
      BY <1>3, <3>1
    <3> QED
      BY <1>1, <3>1, <3>2 DEF Reindexed
  <2>3. e.h.maps[m] = d.h.maps[m]
    BY <1>3, <2>1, <2>2 DEF Reindexed
  <2> QED
    BY <2>1, <2>3
<1> QED
  BY <1>2, <1>3 DEF Reindexed

\* The loop of create_indices, once there is an index for every join key.
CreateLoop(f, d) ==
  /\ f[0] = d
  /\ \A n \in 1..Len(d.indices_) : f[n] = calculate(f[n - 1], n)
  /\ create_indices(d) = f[Len(d.indices_)]

\* create_indices is the last step of the loop over the indices.
LEMMA CreatedLoop ==
  ASSUME NEW d, d.indices_ \in Seq(IndexRecords), Len(d.indices_) = Len(d.cols["join_key"])
  PROVE  \E f : CreateLoop(f, d)
<1> DEFINE N == Len(d.indices_)
           Loop(n, g) == g = [i \in 0..n |-> IF i = 0 THEN d ELSE calculate(g[i - 1], i)]
           T == {n \in 0..N : \E g : Loop(n, g)}
           f == CHOOSE g : Loop(N, g)
<1>1. create_indices(d) = f[N]
  <2>1. SizedIndices(d) = d
    BY DEF SizedIndices
  <2> QED
    BY <2>1 DEF create_indices
<1> HIDE DEF f
<1>2. N \in Nat
  OBVIOUS
<1>3. 0 \in T
  <2> DEFINE g0 == [i \in 0..0 |-> d]
  <2>1. Loop(0, g0)
    OBVIOUS
  <2> HIDE DEF g0, Loop
  <2> QED
    BY <1>2, <2>1
<1>4. ASSUME NEW n \in 0..N - 1, n \in T PROVE n + 1 \in T
  <2>1. PICK g : Loop(n, g)
    BY <1>4
  <2> DEFINE h == [i \in 0..n + 1 |-> IF i = n + 1 THEN calculate(g[n], n + 1) ELSE g[i]]
  <2>2. \A i \in 0..n + 1 : h[i] = IF i = 0 THEN d ELSE calculate(h[i - 1], i)
    <3> TAKE i \in 0..n + 1
    <3>1. CASE i = 0
      BY <2>1, <3>1
    <3>2. CASE i = n + 1
      BY <3>2
    <3>3. CASE i \in 1..n
      <4>1. h[i] = g[i] /\ h[i - 1] = g[i - 1]
        BY <3>3
      <4>2. g[i] = calculate(g[i - 1], i)
        BY <2>1, <3>3
      <4> QED
        BY <3>3, <4>1, <4>2
    <3> QED
      BY <3>1, <3>2, <3>3
  <2>3. DOMAIN h = 0..n + 1 /\ h = [i \in 0..n + 1 |-> h[i]]
    OBVIOUS
  <2> HIDE DEF h
  <2>4. Loop(n + 1, h)
    BY <2>2, <2>3
  <2> HIDE DEF Loop
  <2> QED
    BY <1>2, <2>4
<1>5. N \in T
  <2> HIDE DEF T, N
  <2>1. 0..N \subseteq T
    BY <1>2, <1>3, <1>4, BoundedInduction
  <2> QED
    BY <1>2, <2>1
<1>6. Loop(N, f)
  <2> HIDE DEF Loop
  <2> QED
    BY <1>5 DEF f
<1>7. f[0] = d /\ \A n \in 1..N : f[n] = calculate(f[n - 1], n)
  BY <1>2, <1>6
<1> HIDE DEF Loop
<1> QED
  BY <1>1, <1>7 DEF CreateLoop

\* create_indices completes the indices and leaves everything else alone, also the
\* maps of indices that are complete already, which other data frames may share.
LEMMA CreateIndices ==
  ASSUME NEW d, Typed(d), GoodColumns(d), GoodIndices(d)
  PROVE  GoodFrame(create_indices(d)) /\ Reindexed(d, create_indices(d))
<1> DEFINE N == Len(d.indices_)
<1>1. d.indices_ \in Seq(IndexRecords) /\ N \in Nat /\ N = Len(d.cols["join_key"])
  BY DEF Typed, GoodIndices
<1>2. PICK f : CreateLoop(f, d)
  BY <1>1, CreatedLoop
<1> DEFINE Upto(n, e) == /\ Typed(e) /\ GoodColumns(e) /\ GoodIndices(e) /\ Reindexed(d, e)
                         /\ \A i \in 1..n : e.indices_[i].begin_ = Len(KeyValues(d, i))
           T == {n \in 0..N : Upto(n, f[n])}
<1>3. 0 \in T
  <2>1. Reindexed(d, d)
    BY DEF Reindexed
  <2>2. f[0] = d
    BY <1>2 DEF CreateLoop
  <2> QED
    BY <1>1, <2>1, <2>2
<1>4. ASSUME NEW n \in 0..N - 1, n \in T PROVE n + 1 \in T
  <2> DEFINE c == f[n]
             e == f[n + 1]
  <2>1. n + 1 \in 1..N /\ n + 1 \in 0..N /\ n \in Nat
    BY <1>1
  <2>2. e = calculate(c, n + 1)
    BY <1>2, <2>1 DEF CreateLoop
  <2>3. Upto(n, c)
    BY <1>4
  <2> HIDE DEF c, e
  <2>4. n + 1 \in 1..Len(c.indices_) /\ Len(c.indices_) = N
    BY <2>1, <2>3 DEF Reindexed
  <2>5. /\ Typed(e) /\ GoodColumns(e) /\ GoodIndices(e) /\ Reindexed(c, e)
        /\ e.indices_[n + 1].begin_ = Len(KeyValues(c, n + 1))
        /\ \A j \in 1..N : j # n + 1 => e.indices_[j] = c.indices_[j]
    BY <2>2, <2>3, <2>4, Calculated
  <2>6. Reindexed(d, e)
    BY <2>3, <2>5, ReindexedTwice
  <2>7. \A i : KeyValues(c, i) = KeyValues(d, i)
    BY <2>3 DEF Reindexed, KeyValues, ValuesOf
  <2>8. ASSUME NEW i \in 1..(n + 1) PROVE e.indices_[i].begin_ = Len(KeyValues(d, i))
    <3>1. CASE i = n + 1
      BY <2>5, <2>7, <3>1
    <3>2. CASE i # n + 1
      <4>1. i \in 1..n /\ i \in 1..N
        BY <2>1, <3>2
      <4> QED
        BY <2>3, <2>5, <3>2, <4>1
    <3> QED
      BY <3>1, <3>2
  <2>9. Upto(n + 1, e)
    BY <2>5, <2>6, <2>8
  <2> HIDE DEF Upto
  <2> QED
    BY <2>1, <2>9 DEF e
<1>5. N \in T
  <2> HIDE DEF T, N
  <2>1. 0..N \subseteq T
    BY <1>1, <1>3, <1>4, BoundedInduction
  <2> QED
    BY <1>1, <2>1
<1> DEFINE e == create_indices(d)
<1>6. e = f[N]
  BY <1>2 DEF CreateLoop
<1>7. Upto(N, e)
  BY <1>5, <1>6
<1> HIDE DEF e
<1>8. Complete(e)
  <2>1. Len(e.indices_) = N /\ \A i : KeyValues(e, i) = KeyValues(d, i)
    BY <1>7 DEF Reindexed, KeyValues, ValuesOf
  <2> QED
    BY <1>7, <2>1 DEF Complete
<1> QED
  BY <1>7, <1>8 DEF GoodFrame, e

\* What an operation that works on the columns of d may come to: the frame stays good,
\* the heap is extended, and data and maps are those of d or new ones.
Grown(d, e) ==
  /\ GoodFrame(e) /\ Extends(d.h, e.h)
  /\ DataIds(e) \subseteq DataIds(d) \cup (Nat \ DOMAIN d.h.data)
  /\ MapIds(e) \subseteq MapIds(d) \cup (Nat \ DOMAIN d.h.maps)
  /\ e.name_ = d.name_
  /\ e.last_change_ = d.last_change_ \/ e.last_change_ = time + 1

\* e is d after an exception.
Failed(d, e) == e = [d EXCEPT !.failure = e.failure] /\ e.failure # "none"

HasColumn(d, name) == \E r \in RoleSet : \E i \in 1..Len(d.cols[r]) : d.cols[r][i].name = name

-----------------------------------------------------------------------------
(* Columns *)

\* The places of the columns are pairs of a role and a position.
LEMMA PlaceFacts ==
  ASSUME NEW cols
  PROVE  /\ \A p : p \in Places(cols) <=>
                     \E r \in RoleSet : \E i \in 1..Len(cols[r]) : p = <<r, i>>
         /\ \A p \in Places(cols) : p = <<p[1], p[2]>> /\ p[1] \in RoleSet /\ p[2] \in 1..Len(cols[p[1]])
<1>1. \A p : p \in Places(cols) <=>
                     \E r \in RoleSet : \E i \in 1..Len(cols[r]) : p = <<r, i>>
  BY DEF Places
<1> QED
  BY <1>1

\* There are finitely many roles.
LEMMA RoleSetFinite == IsFiniteSet(RoleSet)
<1>1. DOMAIN Roles = 1..8
  BY DEF Roles
<1>2. Roles \in Surjection(1..8, RoleSet)
  <2>1. \A i \in 1..8 : Roles[i] \in RoleSet
    BY <1>1 DEF RoleSet, Range
  <2>2. Roles = [i \in 1..8 |-> Roles[i]]
    BY <1>1 DEF Roles
  <2>3. Roles \in [1..8 -> RoleSet]
    BY <2>1, <2>2
  <2>4. \A r \in RoleSet : \E i \in 1..8 : Roles[i] = r
    BY <1>1 DEF RoleSet, Range
  <2> QED
    BY <1>1, <2>3, <2>4 DEF Surjection, RoleSet
<1>3. IsFiniteSet(1..8)
  <2>1. 1 \in Int /\ 8 \in Int
    OBVIOUS
  <2> QED
    BY <2>1, FS_Interval, Zenon
<1> QED
  BY <1>2, <1>3, FS_Surjection

\* A data frame has finitely many columns.
LEMMA PlacesFinite ==
  ASSUME NEW S, NEW cols \in [RoleSet -> Seq(S)]
  PROVE  IsFiniteSet(Places(cols))
<1> DEFINE n(r) == Len(cols[r])
           N == n("categorical") + n("join_key") + n("numerical") + n("target") + n("text")
                  + n("time_stamp") + n("unused_float") + n("unused_string")
<1>1. \A r \in RoleSet : n(r) \in Nat
  OBVIOUS
<1>2. N \in Nat /\ \A r \in RoleSet : n(r) <= N
  <2> HIDE DEF n
  <2>1. /\ n("categorical") \in Nat /\ n("join_key") \in Nat /\ n("numerical") \in Nat
        /\ n("target") \in Nat /\ n("text") \in Nat /\ n("time_stamp") \in Nat
        /\ n("unused_float") \in Nat /\ n("unused_string") \in Nat
    BY <1>1, RolesAre
  <2>2. N \in Nat
    BY <2>1
  <2>3. ASSUME NEW r \in RoleSet PROVE n(r) <= N
    <3>1. \/ n(r) = n("categorical") \/ n(r) = n("join_key") \/ n(r) = n("numerical")
          \/ n(r) = n("target") \/ n(r) = n("text") \/ n(r) = n("time_stamp")
          \/ n(r) = n("unused_float") \/ n(r) = n("unused_string")
      BY RolesAre
    <3> QED
      BY <2>1, <3>1
  <2> QED
    BY <2>2, <2>3
<1>3. Places(cols) \subseteq RoleSet \X (1..N)
  <2> SUFFICES ASSUME NEW p \in Places(cols) PROVE p \in RoleSet \X (1..N)
    OBVIOUS
  <2>1. p = <<p[1], p[2]>> /\ p[1] \in RoleSet /\ p[2] \in 1..n(p[1])
    BY PlaceFacts
  <2> HIDE DEF N, n
  <2>2. p[2] \in 1..N
    BY <1>1, <1>2, <2>1
  <2> QED
    BY <2>1, <2>2
<1> HIDE DEF N
<1>4. IsFiniteSet(RoleSet \X (1..N))
  <2>1. 1 \in Int /\ N \in Int
    BY <1>2
  <2>2. IsFiniteSet(1..N)
    BY <2>1, FS_Interval, Zenon
  <2> QED
    BY <2>2, RoleSetFinite, FS_Product
<1> QED
  BY <1>3, <1>4, FS_Subset

\* ncols counts the columns.
LEMMA NoColumns ==
  ASSUME NEW d, Typed(d)
  PROVE  ncols(d) = 0 <=> \A r \in RoleSet : Len(d.cols[r]) = 0
<1>1. IsFiniteSet(Places(d.cols))
  BY PlacesFinite DEF Typed
<1>2. ncols(d) = 0 <=> Places(d.cols) = {}
  BY <1>1, FS_EmptySet DEF ncols
<1>3. \A r \in RoleSet : Len(d.cols[r]) \in Nat
  BY DEF Typed
<1>4. Places(d.cols) = {} <=> \A r \in RoleSet : \A i : i \notin 1..Len(d.cols[r])
  <2> DEFINE cols == d.cols
  <2>1. \A p : p \in Places(cols) <=> \E r \in RoleSet : \E i \in 1..Len(cols[r]) : p = <<r, i>>
    BY PlaceFacts
  <2> HIDE DEF cols
  <2>2. ASSUME NEW r \in RoleSet, NEW i \in 1..Len(cols[r]) PROVE Places(cols) # {}
    <3>1. <<r, i>> \in Places(cols)
      BY <2>1
    <3> QED
      BY <3>1
  <2>3. Places(cols) = {} <=> \A r \in RoleSet : \A i : i \notin 1..Len(cols[r])
    BY <2>1, <2>2
  <2> QED
    BY <2>3 DEF cols
<1>5. ASSUME NEW r \in RoleSet PROVE Len(d.cols[r]) = 0 <=> \A i : i \notin 1..Len(d.cols[r])
  <2>1. Len(d.cols[r]) # 0 => 1 \in 1..Len(d.cols[r])
    BY <1>3
  <2> QED
    BY <1>3, <2>1
<1> QED
  BY <1>2, <1>4, <1>5

\* The number of rows is the one of any column.
LEMMA NumRows ==
  ASSUME NEW d, Typed(d), GoodColumns(d), NEW r \in RoleSet, NEW i \in 1..Len(d.cols[r])
  PROVE  ncols(d) # 0 /\ nrows(d) = Len(ValuesOf(d, d.cols[r][i]))
<1>1. \A s \in RoleSet : d.cols[s] \in Seq(ColumnRecords) /\ Len(d.cols[s]) \in Nat
  BY DEF Typed
<1>2. ncols(d) # 0
  BY <1>1, NoColumns
<1> DEFINE P == {k \in 1..8 : d.cols[CountingOrder[k]] # <<>>}
<1>3. /\ Len(CountingOrder) = 8
      /\ \A k \in 1..8 : CountingOrder[k] \in RoleSet
      /\ \A s \in RoleSet : \E k \in 1..8 : CountingOrder[k] = s
  <2>1. /\ Len(CountingOrder) = 8
        /\ CountingOrder[1] = "unused_float" /\ CountingOrder[2] = "unused_string"
        /\ CountingOrder[3] = "join_key" /\ CountingOrder[4] = "time_stamp"
        /\ CountingOrder[5] = "categorical" /\ CountingOrder[6] = "numerical"
        /\ CountingOrder[7] = "target" /\ CountingOrder[8] = "text"
    BY DEF CountingOrder
  <2>2. \A k \in 1..8 : k = 1 \/ k = 2 \/ k = 3 \/ k = 4 \/ k = 5 \/ k = 6 \/ k = 7 \/ k = 8
    OBVIOUS
  <2> QED
    BY <2>1, <2>2, RolesAre
<1>4. P # {} /\ P \subseteq Nat
  <2>1. PICK k \in 1..8 : CountingOrder[k] = r
    BY <1>3
  <2>2. d.cols[r] # <<>>
    BY <1>1
  <2>3. k \in P
    BY <2>1, <2>2
  <2> QED
    BY <2>3
<1> DEFINE first == SelectInSeq(CountingOrder, LAMBDA s : d.cols[s] # <<>>)
<1>5. first \in P
  <2>1. {k \in 1..Len(CountingOrder) : d.cols[CountingOrder[k]] # <<>>} = P
    BY <1>3
  <2>2. first = Min(P)
    BY <1>4, <2>1 DEF SelectInSeq
  <2> HIDE DEF P, first
  <2>3. PICK m \in P : \A k \in P : m <= k
    BY <1>4, LeastNumber
  <2> QED
    BY <2>2, <2>3 DEF Min
<1> DEFINE s == CountingOrder[first]
<1>6. s \in RoleSet /\ 1 \in 1..Len(d.cols[s])
  <2>1. s \in RoleSet /\ d.cols[s] # <<>>
    BY <1>3, <1>5
  <2> HIDE DEF s
  <2> QED
    BY <1>1, <2>1
<1>7. nrows(d) = Len(ValuesOf(d, d.cols[s][1]))
  BY <1>2 DEF nrows
<1> HIDE DEF s
<1>8. Len(ValuesOf(d, d.cols[s][1])) = Len(ValuesOf(d, d.cols[r][i]))
  BY <1>6 DEF GoodColumns
<1> QED
  BY <1>2, <1>7, <1>8

\* The number of rows is a number, also without columns.
LEMMA NumRowsIsNat ==
  ASSUME NEW d, Typed(d), GoodColumns(d)
  PROVE  nrows(d) \in Nat
<1>1. CASE ncols(d) = 0
  BY <1>1 DEF nrows
<1>2. CASE ncols(d) # 0
  <2>1. PICK r \in RoleSet : Len(d.cols[r]) # 0
    BY <1>2, NoColumns
  <2>2. 1 \in 1..Len(d.cols[r])
    BY <2>1 DEF Typed
  <2> QED
    BY <2>2, NumRows, ColumnFacts
<1> QED
  BY <1>1, <1>2

\* The position of a column of this role and name, or 0.
LEMMA PosOfFinds ==
  ASSUME NEW d, NEW r, Len(d.cols[r]) \in Nat, NEW name
  PROVE  \/ /\ PosOf(d, r, name) \in 1..Len(d.cols[r]) /\ has(d, r, name)
            /\ d.cols[r][PosOf(d, r, name)].name = name
         \/ /\ PosOf(d, r, name) = 0 /\ ~ has(d, r, name)
            /\ \A i \in 1..Len(d.cols[r]) : d.cols[r][i].name # name
<1> DEFINE I == {i \in 1..Len(d.cols[r]) : d.cols[r][i].name = name}
<1>1. PosOf(d, r, name) = IF I # {} THEN Min(I) ELSE 0
  BY DEF PosOf, SelectInSeq
<1>2. CASE I = {}
  BY <1>1, <1>2 DEF has
<1>3. CASE I # {}
  <2>1. I \subseteq Nat
    OBVIOUS
  <2>2. PICK m \in I : \A k \in I : m <= k
    BY <1>3, <2>1, LeastNumber
  <2>3. PosOf(d, r, name) \in I
    <3> HIDE DEF I
    <3> QED
      BY <1>1, <1>3, <2>2 DEF Min
  <2> QED
    BY <2>3 DEF has
<1> QED
  BY <1>2, <1>3

\* What the columns point to has been allocated.
LEMMA DataIdFacts ==
  ASSUME NEW d
  PROVE  \A id : id \in DataIds(d) <=>
                   \E r \in RoleSet : \E i \in 1..Len(d.cols[r]) : id = d.cols[r][i].data
<1> SUFFICES ASSUME NEW id
             PROVE  id \in DataIds(d) <=>
                      \E r \in RoleSet : \E i \in 1..Len(d.cols[r]) : id = d.cols[r][i].data
  OBVIOUS
<1>1. ASSUME id \in DataIds(d)
      PROVE  \E r \in RoleSet : \E i \in 1..Len(d.cols[r]) : id = d.cols[r][i].data
  <2>1. PICK p \in Places(d.cols) : id = d.cols[p[1]][p[2]].data
    BY <1>1 DEF DataIds
  <2>2. p[1] \in RoleSet /\ p[2] \in 1..Len(d.cols[p[1]])
    BY PlaceFacts
  <2> QED
    BY <2>1, <2>2
<1>2. ASSUME NEW r \in RoleSet, NEW i \in 1..Len(d.cols[r]), id = d.cols[r][i].data
      PROVE  id \in DataIds(d)
  <2>1. <<r, i>> \in Places(d.cols)
    BY PlaceFacts
  <2>2. id = d.cols[<<r, i>>[1]][<<r, i>>[2]].data
    BY <1>2
  <2> QED
    BY <2>1, <2>2 DEF DataIds
<1> QED
  BY <1>1, <1>2

\* Behind what a data frame points to there is one of its columns.
LEMMA ColumnOfId ==
  ASSUME NEW d, NEW id \in DataIds(d)
  PROVE  \E r \in RoleSet : \E i \in 1..Len(d.cols[r]) : id = d.cols[r][i].data
BY DataIdFacts

\* A data frame points to what its columns point to.
LEMMA IdOfColumn ==
  ASSUME NEW d, NEW r \in RoleSet, NEW i \in 1..Len(d.cols[r])
  PROVE  d.cols[r][i].data \in DataIds(d)
BY DataIdFacts

\* Two columns of a good data frame differ in name and data and agree in length.
LEMMA TwoColumns ==
  ASSUME NEW d, GoodColumns(d), NEW r \in RoleSet, NEW s \in RoleSet,
         NEW i \in 1..Len(d.cols[r]), NEW j \in 1..Len(d.cols[s])
  PROVE  /\ d.cols[r][i].data \in DOMAIN d.h.data
         /\ d.cols[r][i].data = d.cols[s][j].data => r = s /\ i = j
         /\ d.cols[r][i].name = d.cols[s][j].name => r = s /\ i = j
         /\ Len(ValuesOf(d, d.cols[r][i])) = Len(ValuesOf(d, d.cols[s][j]))
BY DEF GoodColumns

\* What removing a column of a name leaves.
RemovedFrom(d, e, name) ==
  /\ GoodFrame(e) /\ e.h = d.h /\ e.name_ = d.name_ /\ e.frozen_ = d.frozen_
  /\ e.failure = d.failure /\ ~ HasColumn(e, name)
  /\ e.last_change_ = d.last_change_ \/ e.last_change_ = time + 1
  /\ HasColumn(d, name) => e.last_change_ = time + 1
  /\ \A r \in RoleSet : \A i \in 1..Len(e.cols[r]) :
       \E j \in 1..Len(d.cols[r]) : e.cols[r][i] = d.cols[r][j]
  /\ MapIds(e) \subseteq MapIds(d)

\* A data frame without one of its columns is good.
LEMMA ColumnRemoved ==
  ASSUME NEW d, GoodFrame(d), time \in Nat, NEW name
  PROVE  RemovedFrom(d, Removed(d, name), name)
<1>1. \A r \in RoleSet : d.cols[r] \in Seq(ColumnRecords) /\ Len(d.cols[r]) \in Nat
  BY DEF GoodFrame, Typed
<1>2. /\ Len(Roles) = 8 /\ DOMAIN Roles = 1..8
      /\ \A i \in 1..8 : Roles[i] \in RoleSet
      /\ \A r \in RoleSet : \E i \in 1..8 : Roles[i] = r
  <2>1. Len(Roles) = 8 /\ DOMAIN Roles = 1..8
    BY DEF Roles
  <2> QED
    BY <2>1 DEF RoleSet, Range
<1> DEFINE I == {i \in 1..8 : has(d, Roles[i], name)}
           first == SelectInSeq(Roles, LAMBDA r : has(d, r, name))
<1>3. first = IF I # {} THEN Min(I) ELSE 0
  BY <1>2 DEF SelectInSeq
<1>4. CASE I = {}
  <2>1. Removed(d, name) = d
    BY <1>3, <1>4 DEF Removed
  <2>2. ~ HasColumn(d, name)
    <3> SUFFICES ASSUME NEW r \in RoleSet PROVE \A i \in 1..Len(d.cols[r]) : d.cols[r][i].name # name
      BY DEF HasColumn
    <3>1. ~ has(d, r, name)
      BY <1>2, <1>4
    <3> QED
      BY <1>1, <3>1, PosOfFinds
  <2> QED
    BY <2>1, <2>2 DEF RemovedFrom
<1>5. CASE I # {}
  <2>1. first \in I
    <3>1. I \subseteq Nat
      OBVIOUS
    <3> HIDE DEF I, first
    <3>2. PICK m \in I : \A k \in I : m <= k
      BY <1>5, <3>1, LeastNumber
    <3> QED
      BY <1>3, <1>5, <3>2 DEF Min
  <2> DEFINE role == Roles[first]
             k == PosOf(d, role, name)
             new == RemoveAt(d.cols[role], k)
             C == [d.cols EXCEPT ![role] = new]
             X == IF role = "join_key" THEN RemoveAt(d.indices_, k) ELSE d.indices_
             e == Removed(d, name)
  <2>2. role \in RoleSet /\ has(d, role, name)
    BY <1>2, <2>1
  <2>3. e = update_last_change(rm_col(d, role, name))
    <3>1. first # 0
      BY <2>1
    <3> HIDE DEF first
    <3> QED
      BY <3>1 DEF Removed, first
  <2> HIDE DEF role
  <2>4. k \in 1..Len(d.cols[role]) /\ d.cols[role][k].name = name
    BY <1>1, <2>2, PosOfFinds
  <2> HIDE DEF e
  <2>5. e = [[[d EXCEPT !.cols = C] EXCEPT !.indices_ = X] EXCEPT !.last_change_ = time + 1]
    BY <2>3 DEF update_last_change, rm_col
  <2> HIDE DEF k
  <2>6. /\ new \in Seq(ColumnRecords) /\ Len(new) = Len(d.cols[role]) - 1
        /\ \A j \in 1..(Len(d.cols[role]) - 1) :
             new[j] = IF j < k THEN d.cols[role][j] ELSE d.cols[role][j + 1]
    BY <1>1, <2>2, <2>4, RemoveAtElements
  <2> HIDE DEF new
  <2>7. /\ C \in [RoleSet -> Seq(ColumnRecords)] /\ C[role] = new
        /\ \A r \in RoleSet : r # role => C[r] = d.cols[r]
    <3>1. d.cols \in [RoleSet -> Seq(ColumnRecords)]
      BY DEF GoodFrame, Typed
    <3> QED
      BY <2>2, <2>6, <3>1
  <2> HIDE DEF C
  <2>8. d.indices_ \in Seq(IndexRecords) /\ Len(d.indices_) = Len(d.cols["join_key"])
    BY DEF GoodFrame, Typed, GoodIndices
  <2>9. /\ X \in Seq(IndexRecords)
        /\ Len(X) = IF role = "join_key" THEN Len(d.indices_) - 1 ELSE Len(d.indices_)
        /\ \A j \in 1..Len(X) : X[j] = IF role = "join_key" /\ j >= k THEN d.indices_[j + 1]
                                       ELSE d.indices_[j]
    <3>1. CASE role = "join_key"
      <4>1. k \in 1..Len(d.indices_)
        BY <2>4, <2>8, <3>1
      <4>2. X = RemoveAt(d.indices_, k)
        BY <3>1
      <4>3. /\ X \in Seq(IndexRecords) /\ Len(X) = Len(d.indices_) - 1
            /\ \A j \in 1..(Len(d.indices_) - 1) :
                 X[j] = IF j < k THEN d.indices_[j] ELSE d.indices_[j + 1]
        BY <2>8, <4>1, <4>2, RemoveAtElements
      <4> QED
        BY <3>1, <4>1, <4>3
    <3>2. CASE role # "join_key"
      BY <2>8, <3>2
    <3> QED
      BY <3>1, <3>2
  <2> HIDE DEF X
  <2>10. e = [name_ |-> d.name_, cols |-> C, indices_ |-> X, frozen_ |-> d.frozen_,
              last_change_ |-> time + 1, h |-> d.h, failure |-> d.failure]
    <3>1. d = [name_ |-> d.name_, cols |-> d.cols, indices_ |-> d.indices_, frozen_ |-> d.frozen_,
               last_change_ |-> d.last_change_, h |-> d.h, failure |-> d.failure]
      BY DEF GoodFrame, Typed
    <3> QED
      BY <2>5, <3>1
  <2>11. /\ e.cols = C /\ e.indices_ = X /\ e.h = d.h /\ e.name_ = d.name_
         /\ e.frozen_ = d.frozen_ /\ e.failure = d.failure /\ e.last_change_ = time + 1
    BY <2>10
  <2> DEFINE from(r, i) == IF r = role /\ i >= k THEN i + 1 ELSE i
  <2>12. ASSUME NEW r \in RoleSet, NEW i \in 1..Len(e.cols[r])
         PROVE  /\ from(r, i) \in 1..Len(d.cols[r]) /\ e.cols[r][i] = d.cols[r][from(r, i)]
                /\ r = role => from(r, i) # k
                /\ i \in Nat
    <3>1. CASE r = role
      <4>1. i \in 1..(Len(d.cols[role]) - 1) /\ k \in Nat
        BY <1>1, <2>2, <2>4, <2>6, <2>7, <2>11, <3>1
      <4>2. e.cols[r][i] = IF i < k THEN d.cols[role][i] ELSE d.cols[role][i + 1]
        BY <2>6, <2>7, <2>11, <3>1, <4>1
      <4> QED
        BY <1>1, <2>2, <2>4, <3>1, <4>1, <4>2
    <3>2. CASE r # role
      BY <2>7, <2>11, <3>2
    <3> QED
      BY <3>1, <3>2
  <2>13. \A r : \A i, j \in Nat : from(r, i) = from(r, j) => i = j
    BY <2>4
  <2> HIDE DEF from
  <2>14. \A c : ValuesOf(e, c) = ValuesOf(d, c)
    BY <2>11 DEF ValuesOf
  <2>15. GoodColumns(e)
    <3> SUFFICES ASSUME NEW r \in RoleSet, NEW s \in RoleSet,
                        NEW i \in 1..Len(e.cols[r]), NEW j \in 1..Len(e.cols[s])
                 PROVE  /\ e.cols[r][i].data \in DOMAIN e.h.data
                        /\ e.cols[r][i].data = e.cols[s][j].data => r = s /\ i = j
                        /\ e.cols[r][i].name = e.cols[s][j].name => r = s /\ i = j
                        /\ Len(ValuesOf(e, e.cols[r][i])) = Len(ValuesOf(e, e.cols[s][j]))
      BY DEF GoodColumns
    <3>1. /\ from(r, i) \in 1..Len(d.cols[r]) /\ e.cols[r][i] = d.cols[r][from(r, i)]
          /\ from(s, j) \in 1..Len(d.cols[s]) /\ e.cols[s][j] = d.cols[s][from(s, j)]
          /\ i \in Nat /\ j \in Nat
      BY <2>12
    <3>2. \A a \in 1..Len(d.cols[r]), b \in 1..Len(d.cols[s]) :
            /\ d.cols[r][a].data \in DOMAIN d.h.data
            /\ d.cols[r][a].data = d.cols[s][b].data => r = s /\ a = b
            /\ d.cols[r][a].name = d.cols[s][b].name => r = s /\ a = b
            /\ Len(ValuesOf(d, d.cols[r][a])) = Len(ValuesOf(d, d.cols[s][b]))
      BY DEF GoodFrame, GoodColumns
    <3>3. /\ d.cols[r][from(r, i)].data \in DOMAIN d.h.data
          /\ d.cols[r][from(r, i)].data = d.cols[s][from(s, j)].data => r = s /\ from(r, i) = from(s, j)
          /\ d.cols[r][from(r, i)].name = d.cols[s][from(s, j)].name => r = s /\ from(r, i) = from(s, j)
          /\ Len(ValuesOf(d, d.cols[r][from(r, i)])) = Len(ValuesOf(d, d.cols[s][from(s, j)]))
      BY <3>1, <3>2
    <3>4. r = s /\ from(r, i) = from(s, j) => i = j
      BY <2>13, <3>1
    <3> QED
      BY <2>11, <2>14, <3>1, <3>3, <3>4
  <2>16. ASSUME NEW i \in 1..Len(e.indices_)
         PROVE  /\ from("join_key", i) \in 1..Len(d.indices_)
                /\ e.indices_[i] = d.indices_[from("join_key", i)]
                /\ KeyValues(e, i) = KeyValues(d, from("join_key", i))
                /\ i \in Nat
    <3>1. Len(e.indices_) = Len(e.cols["join_key"])
      BY <2>6, <2>7, <2>8, <2>9, <2>11, JoinKeyIsRole
    <3>2. /\ from("join_key", i) \in 1..Len(d.cols["join_key"])
          /\ e.cols["join_key"][i] = d.cols["join_key"][from("join_key", i)] /\ i \in Nat
      BY <2>12, <3>1, JoinKeyIsRole
    <3>3. e.indices_[i] = d.indices_[from("join_key", i)]
      BY <2>9, <2>11 DEF from
    <3> QED
      BY <2>8, <2>14, <3>2, <3>3 DEF KeyValues
  <2>17. GoodIndices(e) /\ Complete(e)
    <3>1. Len(e.indices_) = Len(e.cols["join_key"])
      BY <2>6, <2>7, <2>8, <2>9, <2>11, JoinKeyIsRole
    <3>2. ASSUME NEW i \in 1..Len(e.indices_)
          PROVE  /\ e.indices_[i].map \in DOMAIN e.h.maps
                 /\ e.indices_[i].begin_ <= Len(KeyValues(e, i))
                 /\ e.indices_[i].begin_ = Len(KeyValues(e, i))
                 /\ e.indices_[i].own =>
                      /\ \A j \in 1..Len(e.indices_) : e.indices_[i].map = e.indices_[j].map => i = j
                      /\ Exact(e.h.maps[e.indices_[i].map], KeyValues(e, i), e.indices_[i].begin_)
      <4> DEFINE a == from("join_key", i)
      <4>1. a \in 1..Len(d.indices_) /\ e.indices_[i] = d.indices_[a] /\ KeyValues(e, i) = KeyValues(d, a)
        BY <2>16
      <4>2. /\ d.indices_[a].map \in DOMAIN d.h.maps
            /\ d.indices_[a].begin_ <= Len(KeyValues(d, a))
            /\ d.indices_[a].begin_ = Len(KeyValues(d, a))
            /\ d.indices_[a].own =>
                 /\ \A j \in 1..Len(d.indices_) : d.indices_[a].map = d.indices_[j].map => a = j
                 /\ Exact(d.h.maps[d.indices_[a].map], KeyValues(d, a), d.indices_[a].begin_)
        BY <4>1 DEF GoodFrame, GoodIndices, Complete
      <4>3. ASSUME e.indices_[i].own, NEW j \in 1..Len(e.indices_), e.indices_[i].map = e.indices_[j].map
            PROVE  i = j
        <5>1. from("join_key", j) \in 1..Len(d.indices_) /\ e.indices_[j] = d.indices_[from("join_key", j)]
              /\ i \in Nat /\ j \in Nat
          BY <2>16
        <5>2. a = from("join_key", j)
          BY <4>1, <4>2, <4>3, <5>1
        <5> QED
          BY <2>13, <5>1, <5>2
      <4> HIDE DEF a
      <4> QED
        BY <2>11, <4>1, <4>2, <4>3
    <3> QED
      BY <3>1, <3>2 DEF GoodIndices, Complete
  <2>18. Typed(e)
    <3>1. d.name_ \in Names /\ d.frozen_ \in BOOLEAN /\ GoodHeap(d.h) /\ time + 1 \in Nat
      BY DEF GoodFrame, Typed
    <3> QED
      BY <2>7, <2>9, <2>10, <2>11, <3>1 DEF Typed
  <2>19. ~ HasColumn(e, name)
    <3> SUFFICES ASSUME NEW r \in RoleSet, NEW i \in 1..Len(e.cols[r]), e.cols[r][i].name = name
                 PROVE  FALSE
      BY DEF HasColumn
    <3>1. /\ from(r, i) \in 1..Len(d.cols[r]) /\ e.cols[r][i] = d.cols[r][from(r, i)]
          /\ r = role => from(r, i) # k
      BY <2>12
    <3>2. d.cols[r][from(r, i)].name = d.cols[role][k].name => r = role /\ from(r, i) = k
      BY <2>2, <2>4, <3>1 DEF GoodFrame, GoodColumns
    <3> QED
      BY <2>4, <3>1, <3>2
  <2>20. MapIds(e) \subseteq MapIds(d)
    BY <2>16 DEF MapIds
  <2>21. \A r \in RoleSet : \A i \in 1..Len(e.cols[r]) :
           \E j \in 1..Len(d.cols[r]) : e.cols[r][i] = d.cols[r][j]
    BY <2>12
  <2>22. RemovedFrom(d, e, name)
    BY <2>11, <2>15, <2>17, <2>18, <2>19, <2>20, <2>21 DEF RemovedFrom, GoodFrame
  <2> QED
    BY <2>22 DEF e
<1> QED
  BY <1>4, <1>5

-----------------------------------------------------------------------------
(* DataFrame: adding columns *)

\* A good frame stays one whatever its name, time, freezing and exception are.
LEMMA Relabelled ==
  ASSUME NEW d, GoodFrame(d), NEW e, e.name_ \in Names, e.frozen_ \in BOOLEAN, e.last_change_ \in Nat,
         e = [name_ |-> e.name_, cols |-> d.cols, indices_ |-> d.indices_, frozen_ |-> e.frozen_,
              last_change_ |-> e.last_change_, h |-> d.h, failure |-> e.failure]
  PROVE  GoodFrame(e) /\ DataIds(e) = DataIds(d) /\ MapIds(e) = MapIds(d)
<1>1. e.cols = d.cols /\ e.indices_ = d.indices_ /\ e.h = d.h
  OBVIOUS
<1>2. /\ \A c : ValuesOf(e, c) = ValuesOf(d, c)
      /\ \A i : KeyValues(e, i) = KeyValues(d, i)
  BY <1>1 DEF ValuesOf, KeyValues
<1>3. Typed(e)
  BY <1>1 DEF GoodFrame, Typed
<1>4. GoodColumns(e)
  BY <1>1, <1>2 DEF GoodFrame, GoodColumns
<1>5. GoodIndices(e) /\ Complete(e)
  BY <1>1, <1>2 DEF GoodFrame, GoodIndices, Complete
<1>6. DataIds(e) = DataIds(d) /\ MapIds(e) = MapIds(d)
  BY <1>1 DEF DataIds, MapIds
<1> QED
  BY <1>3, <1>4, <1>5, <1>6 DEF GoodFrame

\* update_last_change, and an exception.
LEMMA Stamped ==
  ASSUME NEW d, GoodFrame(d), time \in Nat
  PROVE  LET e == update_last_change(d)
         IN /\ GoodFrame(e) /\ DataIds(e) = DataIds(d) /\ MapIds(e) = MapIds(d)
            /\ e.h = d.h /\ e.name_ = d.name_ /\ e.last_change_ = time + 1 /\ e.failure = d.failure
            /\ e.cols = d.cols /\ e.indices_ = d.indices_ /\ e.frozen_ = d.frozen_
<1> DEFINE e == update_last_change(d)
<1>1. d = [name_ |-> d.name_, cols |-> d.cols, indices_ |-> d.indices_, frozen_ |-> d.frozen_,
           last_change_ |-> d.last_change_, h |-> d.h, failure |-> d.failure]
  BY DEF GoodFrame, Typed
<1>2. e = [name_ |-> d.name_, cols |-> d.cols, indices_ |-> d.indices_, frozen_ |-> d.frozen_,
           last_change_ |-> time + 1, h |-> d.h, failure |-> d.failure]
  BY <1>1 DEF update_last_change
<1> HIDE DEF e
<1>3. e.name_ \in Names /\ e.frozen_ \in BOOLEAN /\ e.last_change_ \in Nat
  BY <1>2 DEF GoodFrame, Typed
<1>4. GoodFrame(e) /\ DataIds(e) = DataIds(d) /\ MapIds(e) = MapIds(d)
  BY <1>2, <1>3, Relabelled
<1>5. /\ e.h = d.h /\ e.name_ = d.name_ /\ e.last_change_ = time + 1 /\ e.failure = d.failure
      /\ e.cols = d.cols /\ e.indices_ = d.indices_ /\ e.frozen_ = d.frozen_
  BY <1>2
<1> QED
  BY <1>4, <1>5 DEF e

\* An exception changes nothing but the failure.
LEMMA FailedIsGood ==
  ASSUME NEW d, GoodFrame(d), NEW e, Failed(d, e)
  PROVE  /\ GoodFrame(e) /\ DataIds(e) = DataIds(d) /\ MapIds(e) = MapIds(d)
         /\ e.h = d.h /\ e.name_ = d.name_ /\ e.last_change_ = d.last_change_ /\ e.failure # "none"
<1>1. d = [name_ |-> d.name_, cols |-> d.cols, indices_ |-> d.indices_, frozen_ |-> d.frozen_,
           last_change_ |-> d.last_change_, h |-> d.h, failure |-> d.failure]
  BY DEF GoodFrame, Typed
<1>2. e = [name_ |-> d.name_, cols |-> d.cols, indices_ |-> d.indices_, frozen_ |-> d.frozen_,
           last_change_ |-> d.last_change_, h |-> d.h, failure |-> e.failure]
  BY <1>1 DEF Failed
<1>3. e.name_ \in Names /\ e.frozen_ \in BOOLEAN /\ e.last_change_ \in Nat
  BY <1>2 DEF GoodFrame, Typed
<1>4. GoodFrame(e) /\ DataIds(e) = DataIds(d) /\ MapIds(e) = MapIds(d)
  BY <1>2, <1>3, Relabelled
<1>5. e.h = d.h /\ e.name_ = d.name_ /\ e.last_change_ = d.last_change_ /\ e.failure # "none"
  BY <1>2 DEF Failed
<1> QED
  BY <1>4, <1>5

\* Fail throws an exception.
LEMMA FailIsFailed ==
  ASSUME NEW d, GoodFrame(d), NEW why, why # "none"
  PROVE  Failed(d, Fail(d, why))
<1>1. d = [name_ |-> d.name_, cols |-> d.cols, indices_ |-> d.indices_, frozen_ |-> d.frozen_,
           last_change_ |-> d.last_change_, h |-> d.h, failure |-> d.failure]
  BY DEF GoodFrame, Typed
<1> QED
  BY <1>1 DEF Failed, Fail

\* A frame with a new column: the column has data of its own, a new name, and as many
\* rows as the others.
ColumnFits(d, col) ==
  /\ col \in ColumnRecords /\ col.data \in DOMAIN d.h.data /\ col.data \notin DataIds(d)
  /\ ~ HasColumn(d, col.name)
  /\ \A r \in RoleSet : \A i \in 1..Len(d.cols[r]) :
       Len(ValuesOf(d, d.cols[r][i])) = Len(ValuesOf(d, col))

\* A column that fits can be appended to any role but the join keys.
LEMMA ColumnAppended ==
  ASSUME NEW d, GoodFrame(d), NEW col, ColumnFits(d, col), NEW role \in RoleSet,
         NEW e, e.cols[role] = Append(d.cols[role], col),
         \A r \in RoleSet : r # role => e.cols[r] = d.cols[r], e.h.data = d.h.data
  PROVE  /\ GoodColumns(e)
         /\ DataIds(e) \subseteq DataIds(d) \cup {col.data}
         /\ \A i \in 1..Len(d.cols["join_key"]) : KeyValues(e, i) = KeyValues(d, i)
         /\ Len(e.cols["join_key"]) = IF role = "join_key" THEN Len(d.cols["join_key"]) + 1
                                      ELSE Len(d.cols["join_key"])
         /\ role = "join_key" => KeyValues(e, Len(d.cols["join_key"]) + 1) = ValuesOf(d, col)
<1> DEFINE N == Len(d.cols[role])
<1>1. /\ d.cols \in [RoleSet -> Seq(ColumnRecords)] /\ col \in ColumnRecords
      /\ \A r \in RoleSet : Len(d.cols[r]) \in Nat
  BY DEF GoodFrame, Typed, ColumnFits
<1>2. /\ d.cols[role] \in Seq(ColumnRecords) /\ N \in Nat
      /\ Append(d.cols[role], col) \in Seq(ColumnRecords)
      /\ Len(Append(d.cols[role], col)) = N + 1
      /\ \A i \in 1..N : Append(d.cols[role], col)[i] = d.cols[role][i]
      /\ Append(d.cols[role], col)[N + 1] = col
  BY <1>1
<1>3. /\ e.cols[role] = Append(d.cols[role], col)
      /\ \A r \in RoleSet : r # role => e.cols[r] = d.cols[r]
  OBVIOUS
<1>4. \A c : ValuesOf(e, c) = ValuesOf(d, c)
  BY DEF ValuesOf
<1>5. \A r \in RoleSet : \A i \in 1..Len(e.cols[r]) :
        \/ i \in 1..Len(d.cols[r]) /\ e.cols[r][i] = d.cols[r][i]
        \/ r = role /\ i = N + 1 /\ e.cols[r][i] = col
  <2> TAKE r \in RoleSet
  <2> TAKE i \in 1..Len(e.cols[r])
  <2>1. CASE r # role
    BY <1>3, <2>1
  <2>2. CASE r = role
    <3>1. i \in 1..N \/ i = N + 1
      BY <1>2, <1>3, <2>2
    <3> QED
      BY <1>2, <1>3, <2>2, <3>1
  <2> QED
    BY <2>1, <2>2
<1>6. \A r \in RoleSet : \A i \in 1..Len(d.cols[r]) :
        /\ d.cols[r][i].data # col.data /\ d.cols[r][i].name # col.name
        /\ Len(ValuesOf(d, d.cols[r][i])) = Len(ValuesOf(d, col))
  BY DataIdFacts DEF ColumnFits, HasColumn
<1>7. GoodColumns(e)
  <2> SUFFICES ASSUME NEW r \in RoleSet, NEW s \in RoleSet,
                      NEW i \in 1..Len(e.cols[r]), NEW j \in 1..Len(e.cols[s])
               PROVE  /\ e.cols[r][i].data \in DOMAIN e.h.data
                      /\ e.cols[r][i].data = e.cols[s][j].data => r = s /\ i = j
                      /\ e.cols[r][i].name = e.cols[s][j].name => r = s /\ i = j
                      /\ Len(ValuesOf(e, e.cols[r][i])) = Len(ValuesOf(e, e.cols[s][j]))
    BY DEF GoodColumns
  <2>1. CASE /\ i \in 1..Len(d.cols[r]) /\ e.cols[r][i] = d.cols[r][i]
             /\ j \in 1..Len(d.cols[s]) /\ e.cols[s][j] = d.cols[s][j]
    <3>2. /\ d.cols[r][i].data \in DOMAIN d.h.data
          /\ d.cols[r][i].data = d.cols[s][j].data => r = s /\ i = j
          /\ d.cols[r][i].name = d.cols[s][j].name => r = s /\ i = j
          /\ Len(ValuesOf(d, d.cols[r][i])) = Len(ValuesOf(d, d.cols[s][j]))
      BY <2>1, TwoColumns DEF GoodFrame
    <3> QED
      BY <1>4, <2>1, <3>2
  <2>2. CASE /\ i \in 1..Len(d.cols[r]) /\ e.cols[r][i] = d.cols[r][i]
             /\ s = role /\ j = N + 1 /\ e.cols[s][j] = col
    BY <1>4, <1>6, <2>2 DEF GoodFrame, GoodColumns
  <2>3. CASE /\ r = role /\ i = N + 1 /\ e.cols[r][i] = col
             /\ j \in 1..Len(d.cols[s]) /\ e.cols[s][j] = d.cols[s][j]
    <3>1. /\ d.cols[s][j].data # col.data /\ d.cols[s][j].name # col.name
          /\ Len(ValuesOf(d, d.cols[s][j])) = Len(ValuesOf(d, col))
      BY <1>6, <2>3
    <3>2. col.data \in DOMAIN e.h.data
      BY DEF ColumnFits
    <3> QED
      BY <1>4, <2>3, <3>1, <3>2
  <2>4. CASE /\ r = role /\ i = N + 1 /\ e.cols[r][i] = col
             /\ s = role /\ j = N + 1 /\ e.cols[s][j] = col
    BY <1>4, <2>4 DEF ColumnFits
  <2> QED
    BY <1>5, <2>1, <2>2, <2>3, <2>4
<1>8. DataIds(e) \subseteq DataIds(d) \cup {col.data}
  <2> SUFFICES ASSUME NEW id \in DataIds(e), id # col.data PROVE id \in DataIds(d)
    OBVIOUS
  <2>1. PICK r \in RoleSet : \E i \in 1..Len(e.cols[r]) : id = e.cols[r][i].data
    BY ColumnOfId
  <2>2. PICK i \in 1..Len(e.cols[r]) : id = e.cols[r][i].data
    BY <2>1
  <2>3. i \in 1..Len(d.cols[r]) /\ id = d.cols[r][i].data
    BY <1>5, <2>2
  <2> QED
    BY <2>3, DataIdFacts
<1>9. \A i \in 1..Len(d.cols["join_key"]) : e.cols["join_key"][i] = d.cols["join_key"][i]
  BY <1>2, <1>3, JoinKeyIsRole
<1>10. role = "join_key" => e.cols["join_key"][Len(d.cols["join_key"]) + 1] = col
  BY <1>2, <1>3
<1>11. Len(e.cols["join_key"]) = IF role = "join_key" THEN Len(d.cols["join_key"]) + 1
                                ELSE Len(d.cols["join_key"])
  BY <1>2, <1>3, JoinKeyIsRole
<1> QED
  BY <1>3, <1>4, <1>7, <1>8, <1>9, <1>10, <1>11 DEF KeyValues

\* add_column fails, or a column that fits what remains of d is appended to it.
LEMMA ColumnAdded ==
  ASSUME NEW d, GoodFrame(d), d.failure = "none", time \in Nat, NEW role \in RoleSet,
         NEW col \in ColumnRecords, col.data \in DOMAIN d.h.data, col.data \notin DataIds(d)
  PROVE  LET e == add_column(d, col, role)
         IN \/ Failed(d, e)
            \/ \E x : /\ RemovedFrom(d, x, col.name) /\ ColumnFits(x, col)
                      /\ DataIds(x) \subseteq DataIds(d)
                      /\ e = [x EXCEPT !.cols[role] = Append(@, col)]
<1> DEFINE e == add_column(d, col, role)
           x == Removed(d, col.name)
<1>1. CASE Len(ValuesOf(d, col)) # nrows(d) /\ ncols(d) # 0
  <2>1. e = Fail(d, "length")
    BY <1>1 DEF add_column
  <2> QED
    BY <2>1, FailIsFailed
<1>2. CASE ~ (Len(ValuesOf(d, col)) # nrows(d) /\ ncols(d) # 0)
  <2>1. e = Then(remove_column(d, col.name), LAMBDA y : [y EXCEPT !.cols[role] = Append(@, col)])
    BY <1>2 DEF add_column
  <2>2. CASE d.frozen_
    <3>1. Failed(d, Fail(d, "frozen")) /\ Fail(d, "frozen").failure # "none"
      BY FailIsFailed DEF Failed
    <3> QED
      BY <2>1, <2>2, <3>1 DEF Then, remove_column, check_if_frozen
  <2>3. CASE ~ d.frozen_
    <3>1. remove_column(d, col.name) = x
      BY <2>3 DEF remove_column, Then, check_if_frozen
    <3>2. RemovedFrom(d, x, col.name)
      BY ColumnRemoved
    <3> HIDE DEF x
    <3>3. e = [x EXCEPT !.cols[role] = Append(@, col)]
      BY <2>1, <3>1, <3>2 DEF Then, RemovedFrom
    <3>4. DataIds(x) \subseteq DataIds(d)
      <4> SUFFICES ASSUME NEW id \in DataIds(x) PROVE id \in DataIds(d)
        OBVIOUS
      <4>1. PICK r \in RoleSet : \E i \in 1..Len(x.cols[r]) : id = x.cols[r][i].data
        BY ColumnOfId
      <4>2. PICK i \in 1..Len(x.cols[r]) : id = x.cols[r][i].data
        BY <4>1
      <4>3. PICK j \in 1..Len(d.cols[r]) : x.cols[r][i] = d.cols[r][j]
        BY <3>2 DEF RemovedFrom
      <4> QED
        BY <4>2, <4>3, IdOfColumn
    <3>5. \A r \in RoleSet : \A i \in 1..Len(x.cols[r]) :
            Len(ValuesOf(x, x.cols[r][i])) = Len(ValuesOf(x, col))
      <4> SUFFICES ASSUME NEW r \in RoleSet, NEW i \in 1..Len(x.cols[r])
                   PROVE  Len(ValuesOf(x, x.cols[r][i])) = Len(ValuesOf(x, col))
        OBVIOUS
      <4>1. PICK j \in 1..Len(d.cols[r]) : x.cols[r][i] = d.cols[r][j]
        BY <3>2 DEF RemovedFrom
      <4>2. ncols(d) # 0 /\ nrows(d) = Len(ValuesOf(d, d.cols[r][j]))
        BY NumRows DEF GoodFrame
      <4>3. x.h = d.h
        BY <3>2 DEF RemovedFrom
      <4> QED
        BY <1>2, <4>1, <4>2, <4>3 DEF ValuesOf
    <3>6. ColumnFits(x, col)
      BY <3>2, <3>4, <3>5 DEF RemovedFrom, ColumnFits
    <3> QED
      BY <3>2, <3>3, <3>4, <3>6
  <2> QED
    BY <2>2, <2>3
<1> QED
  BY <1>1, <1>2

\* e is the good frame d with a column whose data was in the heap already.
WithColumn(d, e, col) ==
  /\ GoodFrame(e) /\ Extends(d.h, e.h)
  /\ DataIds(e) \subseteq DataIds(d) \cup {col.data}
  /\ MapIds(e) \subseteq MapIds(d) \cup (Nat \ DOMAIN d.h.maps)
  /\ e.name_ = d.name_ /\ e.failure = d.failure

\* The columns of a frame to which a column was appended.
LEMMA AppendedRole ==
  ASSUME NEW d, GoodFrame(d), NEW col \in ColumnRecords, NEW role \in RoleSet
  PROVE  LET C == [d.cols EXCEPT ![role] = Append(@, col)]
         IN /\ C \in [RoleSet -> Seq(ColumnRecords)] /\ C[role] = Append(d.cols[role], col)
            /\ \A r \in RoleSet : r # role => C[r] = d.cols[r]
<1>1. d.cols \in [RoleSet -> Seq(ColumnRecords)]
  BY DEF GoodFrame, Typed
<1>2. Append(d.cols[role], col) \in Seq(ColumnRecords)
  BY <1>1
<1> QED
  BY <1>1, <1>2

\* So it is where the role has no indices.
LEMMA PlainAppended ==
  ASSUME NEW d, GoodFrame(d), NEW col, ColumnFits(d, col),
         NEW role \in RoleSet, role # "join_key"
  PROVE  WithColumn(d, [d EXCEPT !.cols[role] = Append(@, col)], col)
<1> DEFINE C == [d.cols EXCEPT ![role] = Append(@, col)]
           e == [d EXCEPT !.cols[role] = Append(@, col)]
<1>1. /\ C \in [RoleSet -> Seq(ColumnRecords)] /\ C[role] = Append(d.cols[role], col)
      /\ \A r \in RoleSet : r # role => C[r] = d.cols[r]
  <2>1. col \in ColumnRecords
    BY DEF ColumnFits
  <2> QED
    BY <2>1, AppendedRole
<1>2. d = [name_ |-> d.name_, cols |-> d.cols, indices_ |-> d.indices_, frozen_ |-> d.frozen_,
           last_change_ |-> d.last_change_, h |-> d.h, failure |-> d.failure]
  BY DEF GoodFrame, Typed
<1>3. e = [d EXCEPT !.cols = C]
  OBVIOUS
<1> HIDE DEF C, e
<1>4. e = [name_ |-> d.name_, cols |-> C, indices_ |-> d.indices_, frozen_ |-> d.frozen_,
           last_change_ |-> d.last_change_, h |-> d.h, failure |-> d.failure]
  BY <1>2, <1>3
<1>5. /\ e.cols = C /\ e.indices_ = d.indices_ /\ e.h = d.h /\ e.name_ = d.name_
      /\ e.frozen_ = d.frozen_ /\ e.failure = d.failure /\ e.last_change_ = d.last_change_
  BY <1>4
<1>6. /\ GoodColumns(e) /\ DataIds(e) \subseteq DataIds(d) \cup {col.data}
      /\ \A i \in 1..Len(d.cols["join_key"]) : KeyValues(e, i) = KeyValues(d, i)
      /\ Len(e.cols["join_key"]) = Len(d.cols["join_key"])
  BY <1>1, <1>5, ColumnAppended
<1>7. Typed(e)
  BY <1>1, <1>4, <1>5 DEF GoodFrame, Typed
<1>8. GoodIndices(e) /\ Complete(e)
  <2>1. /\ Len(e.indices_) = Len(e.cols["join_key"])
        /\ \A i \in 1..Len(e.indices_) : KeyValues(e, i) = KeyValues(d, i)
    BY <1>5, <1>6 DEF GoodFrame, GoodIndices
  <2> QED
    BY <1>5, <2>1 DEF GoodFrame, GoodIndices, Complete
<1>9. MapIds(e) = MapIds(d)
  BY <1>5 DEF MapIds
<1>10. Extends(d.h, e.h)
  BY <1>5 DEF Extends
<1>11. WithColumn(d, e, col)
  BY <1>5, <1>6, <1>7, <1>8, <1>9, <1>10 DEF WithColumn, GoodFrame
<1> QED
  BY <1>11 DEF e

\* The empty map is that of no values.
LEMMA EmptyMap ==
  ASSUME NEW values
  PROVE  Exact(<< >>, values, 0)
<1>1. DOMAIN << >> = {} /\ \A j : j \notin 1..0
  OBVIOUS
<1>2. << >> = [key \in DOMAIN << >> |-> << >>[key]]
  OBVIOUS
<1> QED
  BY <1>1, <1>2 DEF Exact

\* The record of a data frame with other indices and another heap.
LEMMA IndicesChanged ==
  ASSUME NEW n, NEW C, NEW I, NEW f, NEW t, NEW h, NEW w, NEW X, NEW H,
         NEW d, d = [name_ |-> n, cols |-> C, indices_ |-> I, frozen_ |-> f, last_change_ |-> t, h |-> h,
                     failure |-> w],
         NEW e, e = [d EXCEPT !.indices_ = X, !.h = H]
  PROVE  e = [name_ |-> n, cols |-> C, indices_ |-> X, frozen_ |-> f, last_change_ |-> t, h |-> H,
              failure |-> w]
OBVIOUS

\* A join key, its new index, and the loop that completes the indices.
LEMMA KeyAppended ==
  ASSUME NEW d, GoodFrame(d), NEW col, ColumnFits(d, col)
  PROVE  LET c == [d EXCEPT !.cols["join_key"] = Append(@, col)]
         IN WithColumn(d, create_indices([c EXCEPT !.indices_ = Append(@, NewIndex(c.h, TRUE)),
                                                   !.h = WithMap(@)]), col)
<1> DEFINE c == [d EXCEPT !.cols["join_key"] = Append(@, col)]
           C == [d.cols EXCEPT !["join_key"] = Append(@, col)]
           X == Append(d.indices_, NewIndex(d.h, TRUE))
           H == WithMap(d.h)
           M == With(d.h.maps, Fresh(d.h.maps), << >>)
           m == Fresh(d.h.maps)
           N == Len(d.indices_)
           e == [c EXCEPT !.indices_ = Append(@, NewIndex(c.h, TRUE)), !.h = WithMap(@)]
           w == create_indices(e)
<1>1. /\ C \in [RoleSet -> Seq(ColumnRecords)] /\ C["join_key"] = Append(d.cols["join_key"], col)
      /\ \A r \in RoleSet : r # "join_key" => C[r] = d.cols[r]
  <2>1. col \in ColumnRecords
    BY DEF ColumnFits
  <2> QED
    BY <2>1, AppendedRole, JoinKeyIsRole
<1>2. d = [name_ |-> d.name_, cols |-> d.cols, indices_ |-> d.indices_, frozen_ |-> d.frozen_,
           last_change_ |-> d.last_change_, h |-> d.h, failure |-> d.failure]
  BY DEF GoodFrame, Typed
<1>3. c = [d EXCEPT !.cols = C]
  OBVIOUS
<1> HIDE DEF C, c
<1>4. c = [name_ |-> d.name_, cols |-> C, indices_ |-> d.indices_, frozen_ |-> d.frozen_,
           last_change_ |-> d.last_change_, h |-> d.h, failure |-> d.failure]
  BY <1>2, <1>3
<1>5. e = [name_ |-> d.name_, cols |-> C, indices_ |-> X, frozen_ |-> d.frozen_,
           last_change_ |-> d.last_change_, h |-> H, failure |-> d.failure]
  <2>1. c.indices_ = d.indices_ /\ c.h = d.h
    BY <1>4
  <2> HIDE DEF X, H
  <2>2. e = [c EXCEPT !.indices_ = X, !.h = H]
    BY <2>1 DEF X, H
  <2> HIDE DEF e
  <2> QED
    BY <1>4, <2>2, IndicesChanged
<1>6. d.h = [data |-> d.h.data, maps |-> d.h.maps] /\ GoodHeap(d.h)
  BY DEF GoodFrame, Typed, GoodHeap
<1>7. H = [data |-> d.h.data, maps |-> M]
  BY <1>6 DEF WithMap
<1>8. m \in Nat /\ m \notin DOMAIN d.h.maps
  BY <1>6, FreshIsNew DEF GoodHeap
<1>9. /\ DOMAIN M = DOMAIN d.h.maps \cup {m} /\ M[m] = << >>
      /\ \A x \in DOMAIN d.h.maps : M[x] = d.h.maps[x]
      /\ M = [x \in DOMAIN M |-> M[x]]
  <2>1. \A x \in DOMAIN d.h.maps : x # m
    BY <1>8
  <2>2. M = [x \in DOMAIN d.h.maps \cup {m} |-> IF x = m THEN << >> ELSE d.h.maps[x]]
    BY DEF With
  <2> HIDE DEF m, M
  <2> QED
    BY <2>1, <2>2
<1>10. /\ X \in Seq(IndexRecords) /\ Len(X) = N + 1 /\ N \in Nat /\ X[N + 1] = [begin_ |-> 0, map |-> m, own |-> TRUE]
       /\ \A i \in 1..N : X[i] = d.indices_[i]
  <2>1. d.indices_ \in Seq(IndexRecords)
    BY DEF GoodFrame, Typed
  <2>2. NewIndex(d.h, TRUE) = [begin_ |-> 0, map |-> m, own |-> TRUE]
        /\ NewIndex(d.h, TRUE) \in IndexRecords
    BY <1>8 DEF NewIndex, IndexRecords
  <2> DEFINE x == NewIndex(d.h, TRUE)
             Y == d.indices_
  <2>3. X = Append(Y, x) /\ Y \in Seq(IndexRecords) /\ x \in IndexRecords /\ N = Len(Y)
    BY <2>1, <2>2
  <2>4. x = [begin_ |-> 0, map |-> m, own |-> TRUE]
    BY <2>2
  <2>5. \A i \in 1..N : X[i] = d.indices_[i] <=> X[i] = Y[i]
    OBVIOUS
  <2> HIDE DEF x, Y, X, N
  <2>6. /\ X \in Seq(IndexRecords) /\ Len(X) = N + 1 /\ N \in Nat /\ X[N + 1] = x
        /\ \A i \in 1..N : X[i] = Y[i]
    BY <2>3
  <2> QED
    BY <2>4, <2>5, <2>6
<1> HIDE DEF e, X, H, M, m
<1>11. /\ e.cols = C /\ e.indices_ = X /\ e.h = H /\ e.h.data = d.h.data /\ e.h.maps = M /\ e.name_ = d.name_
       /\ e.frozen_ = d.frozen_ /\ e.failure = d.failure /\ e.last_change_ = d.last_change_
  BY <1>5, <1>7
<1>12. Len(d.cols["join_key"]) = N
  BY DEF GoodFrame, GoodIndices
<1>13. /\ GoodColumns(e) /\ DataIds(e) \subseteq DataIds(d) \cup {col.data}
       /\ \A i \in 1..N : KeyValues(e, i) = KeyValues(d, i)
       /\ Len(e.cols["join_key"]) = N + 1
  BY <1>1, <1>11, <1>12, ColumnAppended, JoinKeyIsRole
<1>14. GoodHeap(e.h)
  <2>1. IsFiniteSet(DOMAIN M)
    <3>1. IsFiniteSet(DOMAIN d.h.maps)
      BY <1>6 DEF GoodHeap
    <3>2. IsFiniteSet(DOMAIN d.h.maps \cup {m})
      BY <3>1, FS_AddElement
    <3> QED
      BY <1>9, <3>2
  <2>2. e.h = [data |-> e.h.data, maps |-> e.h.maps]
    BY <1>7, <1>11
  <2>3. DOMAIN M \subseteq Nat
    BY <1>6, <1>8, <1>9 DEF GoodHeap
  <2> QED
    BY <1>6, <1>9, <1>11, <2>1, <2>2, <2>3 DEF GoodHeap
<1>15. Typed(e)
  BY <1>1, <1>5, <1>10, <1>11, <1>14 DEF GoodFrame, Typed
<1>16. KeyValues(e, N + 1) \in Seq(Int) /\ Len(KeyValues(e, N + 1)) \in Nat
  <2>1. N + 1 \in 1..Len(e.cols["join_key"])
    BY <1>10, <1>13
  <2> QED
    BY <1>13, <1>15, <2>1, ColumnFacts, JoinKeyIsRole DEF KeyValues
<1>17. ASSUME NEW i \in 1..N
       PROVE  /\ e.indices_[i] = d.indices_[i] /\ d.indices_[i].map \in DOMAIN d.h.maps
              /\ e.h.maps[d.indices_[i].map] = d.h.maps[d.indices_[i].map]
              /\ d.indices_[i].begin_ = Len(KeyValues(e, i))
  <2>1. d.indices_[i].map \in DOMAIN d.h.maps
    BY DEF GoodFrame, GoodIndices
  <2>2. d.indices_[i].begin_ = Len(KeyValues(d, i))
    BY DEF GoodFrame, Complete
  <2> QED
    BY <1>9, <1>10, <1>11, <1>13, <2>1, <2>2
<1>18. GoodIndices(e)
  <2> SUFFICES ASSUME NEW i \in 1..(N + 1)
               PROVE  /\ e.indices_[i].map \in DOMAIN e.h.maps
                      /\ e.indices_[i].begin_ <= Len(KeyValues(e, i))
                      /\ e.indices_[i].own =>
                           /\ \A j \in 1..(N + 1) : e.indices_[i].map = e.indices_[j].map => i = j
                           /\ Exact(e.h.maps[e.indices_[i].map], KeyValues(e, i), e.indices_[i].begin_)
    BY <1>10, <1>11, <1>13 DEF GoodIndices
  <2>1. \A j \in 1..(N + 1) : j \in 1..N \/ j = N + 1
    BY <1>10
  <2>2. CASE i = N + 1
    <3>1. e.indices_[i] = [begin_ |-> 0, map |-> m, own |-> TRUE] /\ e.h.maps[m] = << >> /\ m \in DOMAIN e.h.maps
      BY <1>9, <1>10, <1>11, <2>2
    <3>2. Exact(e.h.maps[e.indices_[i].map], KeyValues(e, i), 0)
      BY <3>1, EmptyMap
    <3>3. \A j \in 1..N : e.indices_[j].map # m
      BY <1>8, <1>17
    <3>4. e.indices_[i].begin_ = 0 /\ e.indices_[i].map = m
      BY <3>1
    <3>5. \A j \in 1..(N + 1) : e.indices_[i].map = e.indices_[j].map => i = j
      BY <2>1, <2>2, <3>3, <3>4
    <3>6. e.indices_[i].begin_ <= Len(KeyValues(e, i))
      BY <1>16, <2>2, <3>4
    <3> QED
      BY <3>1, <3>2, <3>4, <3>5, <3>6
  <2>3. CASE i \in 1..N
    <3>1. /\ e.indices_[i] = d.indices_[i] /\ d.indices_[i].map \in DOMAIN d.h.maps
          /\ e.h.maps[d.indices_[i].map] = d.h.maps[d.indices_[i].map]
          /\ KeyValues(e, i) = KeyValues(d, i)
      BY <1>13, <1>17, <2>3
    <3>2. e.indices_[N + 1].map = m /\ d.indices_[i].map # m
      BY <1>8, <1>10, <1>11, <3>1
    <3>3. /\ d.indices_[i].begin_ <= Len(KeyValues(d, i))
          /\ d.indices_[i].own =>
               /\ \A j \in 1..N : d.indices_[i].map = d.indices_[j].map => i = j
               /\ Exact(d.h.maps[d.indices_[i].map], KeyValues(d, i), d.indices_[i].begin_)
      BY <2>3 DEF GoodFrame, GoodIndices
    <3>4. \A j \in 1..N : e.indices_[j] = d.indices_[j]
      BY <1>17
    <3> QED
      BY <1>9, <1>11, <2>1, <3>1, <3>2, <3>3, <3>4
  <2> QED
    BY <2>1, <2>2, <2>3
<1>19. GoodFrame(w) /\ Reindexed(e, w)
  BY <1>13, <1>15, <1>18, CreateIndices
<1> HIDE DEF w
<1>20. DataIds(w) \subseteq DataIds(d) \cup {col.data}
  <2>1. DataIds(w) = DataIds(e)
    BY <1>19 DEF Reindexed, DataIds
  <2> QED
    BY <1>13, <2>1
<1>21. MapIds(w) \subseteq MapIds(d) \cup (Nat \ DOMAIN d.h.maps)
  <2> SUFFICES ASSUME NEW i \in 1..(N + 1) PROVE w.indices_[i].map \in MapIds(d) \cup (Nat \ DOMAIN d.h.maps)
    <3>1. Len(w.indices_) = N + 1
      BY <1>10, <1>11, <1>19 DEF Reindexed
    <3> QED
      BY <3>1 DEF MapIds
  <2>1. w.indices_[i].map = e.indices_[i].map
    BY <1>10, <1>11, <1>19 DEF Reindexed
  <2>2. CASE i = N + 1
    BY <1>8, <1>10, <1>11, <2>1, <2>2
  <2>3. CASE i \in 1..N
    BY <1>17, <2>1, <2>3 DEF MapIds
  <2> QED
    BY <1>10, <2>2, <2>3
<1>22. Extends(d.h, w.h)
  <2>1. w.h.data = d.h.data /\ DOMAIN w.h.maps = DOMAIN M
    BY <1>11, <1>19 DEF Reindexed
  <2>2. ASSUME NEW x \in DOMAIN d.h.maps PROVE w.h.maps[x] = d.h.maps[x]
    <3>1. ASSUME NEW i \in 1..Len(e.indices_), e.indices_[i].map = x
          PROVE  e.indices_[i].begin_ = Len(KeyValues(e, i))
      <4>1. i # N + 1
        BY <1>8, <1>10, <1>11, <2>2, <3>1
      <4>2. i \in 1..N
        BY <1>10, <1>11, <4>1
      <4> QED
        BY <1>17, <2>2, <4>2
    <3>2. w.h.maps[x] = e.h.maps[x]
      BY <1>9, <1>11, <1>19, <2>2, <3>1 DEF Reindexed
    <3> QED
      BY <1>9, <1>11, <3>2
  <2> QED
    BY <1>9, <2>1, <2>2 DEF Extends
<1>23. WithColumn(d, w, col)
  BY <1>11, <1>19, <1>20, <1>21, <1>22 DEF WithColumn, Reindexed
<1> QED
  BY <1>23 DEF w, e, c

\* add_column and what follows for a join key.
AddInRole(d, col, role) ==
  IF role = "join_key" THEN AddJoinKey(d, col) ELSE add_column(d, col, role)

\* add_column, and for join keys create_indices, in the role of the column.
LEMMA AddedInRole ==
  ASSUME NEW d, GoodFrame(d), d.failure = "none", time \in Nat, NEW role \in RoleSet,
         NEW col \in ColumnRecords, col.data \in DOMAIN d.h.data, col.data \notin DataIds(d)
  PROVE  LET e == AddInRole(d, col, role) IN Failed(d, e) \/ WithColumn(d, e, col)
<1> DEFINE a == add_column(d, col, role)
           F(y) == create_indices([y EXCEPT !.indices_ = Append(@, NewIndex(y.h, TRUE)), !.h = WithMap(@)])
           e == AddInRole(d, col, role)
<1>1. /\ role # "join_key" => e = a
      /\ role = "join_key" => e = IF a.failure # "none" THEN a ELSE F(a)
  BY DEF AddInRole, AddJoinKey, Then
<1> HIDE DEF e, F
<1>2. CASE Failed(d, a)
  <2>1. e = a
    BY <1>1, <1>2 DEF Failed
  <2> QED
    BY <1>2, <2>1 DEF e
<1>3. CASE \E x : /\ RemovedFrom(d, x, col.name) /\ ColumnFits(x, col)
                  /\ DataIds(x) \subseteq DataIds(d)
                  /\ a = [x EXCEPT !.cols[role] = Append(@, col)]
  <2>1. PICK x : /\ RemovedFrom(d, x, col.name) /\ ColumnFits(x, col)
                 /\ DataIds(x) \subseteq DataIds(d)
                 /\ a = [x EXCEPT !.cols[role] = Append(@, col)]
    BY <1>3
  <2>2. /\ GoodFrame(x) /\ x.h = d.h /\ x.name_ = d.name_ /\ x.failure = d.failure
        /\ MapIds(x) \subseteq MapIds(d) /\ ColumnFits(x, col)
    BY <2>1 DEF RemovedFrom
  <2>3. WithColumn(x, e, col)
    <3>1. CASE role # "join_key"
      <4>1. WithColumn(x, [x EXCEPT !.cols[role] = Append(@, col)], col)
        BY <2>2, <3>1, PlainAppended
      <4> QED
        BY <1>1, <2>1, <3>1, <4>1
    <3>2. CASE role = "join_key"
      <4>1. a.failure = "none"
        <5>1. x = [name_ |-> x.name_, cols |-> x.cols, indices_ |-> x.indices_, frozen_ |-> x.frozen_,
                   last_change_ |-> x.last_change_, h |-> x.h, failure |-> x.failure]
          BY <2>2 DEF GoodFrame, Typed
        <5>2. a.failure = x.failure
          BY <2>1, <5>1
        <5> QED
          BY <2>2, <5>2
      <4>2. e = F(a)
        BY <1>1, <3>2, <4>1
      <4>3. a = [x EXCEPT !.cols["join_key"] = Append(@, col)]
        BY <2>1, <3>2
      <4> DEFINE c == [x EXCEPT !.cols["join_key"] = Append(@, col)]
      <4>4. WithColumn(x, F(c), col)
        BY <2>2, KeyAppended DEF F
      <4> QED
        BY <4>2, <4>3, <4>4
    <3> QED
      BY <3>1, <3>2
  <2>4. WithColumn(d, e, col)
    BY <2>1, <2>2, <2>3 DEF WithColumn
  <2> QED
    BY <2>4 DEF e
<1> QED
  BY <1>2, <1>3, ColumnAdded

\* Adding a column of any type fails or ends with a new time of the last change.
AddedColumn(d, e, col) ==
  Failed(d, e) \/ (WithColumn(d, e, col) /\ e.last_change_ = time + 1)

\* The functions for the types of columns stamp what they add.
LEMMA AddedTyped ==
  ASSUME NEW d, GoodFrame(d), d.failure = "none", time \in Nat, NEW role \in RoleSet,
         NEW col \in ColumnRecords, col.data \in DOMAIN d.h.data, col.data \notin DataIds(d)
  PROVE  /\ AddedColumn(d, add_int_column(d, col, role), col)
         /\ role # "join_key" => /\ AddedColumn(d, add_float_column(d, col, role), col)
                                 /\ AddedColumn(d, add_string_column(d, col, role), col)
<1>1. ASSUME NEW c \in ColumnRecords, c.data = col.data
      PROVE  AddedColumn(d, Then(AddInRole(d, c, role), update_last_change), col)
  <2> DEFINE a == AddInRole(d, c, role)
             e == Then(AddInRole(d, c, role), update_last_change)
  <2>1. Failed(d, a) \/ WithColumn(d, a, c)
    BY <1>1, AddedInRole
  <2>2. e = IF a.failure # "none" THEN a ELSE update_last_change(a)
    BY DEF Then
  <2> HIDE DEF a, e
  <2>3. CASE Failed(d, a)
    <3>1. e = a
      BY <2>2, <2>3 DEF Failed
    <3> QED
      BY <2>3, <3>1 DEF AddedColumn, e
  <2>4. CASE WithColumn(d, a, c)
    <3>1. GoodFrame(a) /\ a.failure = "none" /\ e = update_last_change(a)
      BY <2>2, <2>4 DEF WithColumn
    <3>2. /\ GoodFrame(e) /\ DataIds(e) = DataIds(a) /\ MapIds(e) = MapIds(a)
          /\ e.h = a.h /\ e.name_ = a.name_ /\ e.last_change_ = time + 1 /\ e.failure = a.failure
      BY <3>1, Stamped
    <3>3. WithColumn(d, e, col)
      BY <1>1, <2>4, <3>2 DEF WithColumn
    <3> QED
      BY <3>2, <3>3 DEF AddedColumn, e
  <2> QED
    BY <2>1, <2>3, <2>4
<1>2. AddedColumn(d, add_int_column(d, col, role), col)
  <2>1. add_int_column(d, col, role) = Then(AddInRole(d, col, role), update_last_change)
    BY DEF add_int_column, AddInRole
  <2> QED
    BY <1>1, <2>1
<1>3. ASSUME role # "join_key"
      PROVE  \A c : AddInRole(d, c, role) = add_column(d, c, role)
  BY <1>3 DEF AddInRole
<1>4. ASSUME role # "join_key" PROVE AddedColumn(d, add_string_column(d, col, role), col)
  <2>1. add_string_column(d, col, role) = Then(AddInRole(d, col, role), update_last_change)
    BY <1>3, <1>4 DEF add_string_column
  <2> QED
    BY <1>1, <2>1
<1>5. ASSUME role # "join_key" PROVE AddedColumn(d, add_float_column(d, col, role), col)
  <2> DEFINE u == [col EXCEPT !.unit = ComparisonOnly]
             c == IF role = "time_stamp" /\ col.unit = "" THEN u ELSE col
  <2>1. c \in ColumnRecords /\ c.data = col.data
    <3>1. u \in ColumnRecords /\ u.data = col.data
      BY DEF ColumnRecords, Units
    <3> HIDE DEF u
    <3> QED
      BY <3>1
  <2>2. CASE role = "target" /\ check_null(d, col)
    <3>1. add_float_column(d, col, role) = Fail(d, "null target")
      BY <2>2 DEF add_float_column
    <3> QED
      BY <3>1, FailIsFailed DEF AddedColumn
  <2>3. CASE ~ (role = "target" /\ check_null(d, col))
    <3>1. add_float_column(d, col, role) = Then(add_column(d, c, role), update_last_change)
      BY <2>3 DEF add_float_column
    <3> HIDE DEF c
    <3>2. add_float_column(d, col, role) = Then(AddInRole(d, c, role), update_last_change)
      BY <1>3, <1>5, <3>1
    <3> QED
      BY <1>1, <2>1, <3>2
  <2> QED
    BY <2>2, <2>3
<1> QED
  BY <1>2, <1>4, <1>5

\* The data of a new column goes into the heap first.
LEMMA NewData ==
  ASSUME NEW d, GoodFrame(d), NEW values \in Seq(Int)
  PROVE  LET id == Fresh(d.h.data)
             x  == [d EXCEPT !.h.data = With(@, id, values)]
         IN /\ GoodFrame(x) /\ Extends(d.h, x.h) /\ id \in DOMAIN x.h.data /\ id \notin DataIds(x)
            /\ id \in Nat \ DOMAIN d.h.data
            /\ DataIds(x) = DataIds(d) /\ MapIds(x) = MapIds(d) /\ x.h.maps = d.h.maps
            /\ x.name_ = d.name_ /\ x.failure = d.failure /\ x.last_change_ = d.last_change_
<1> DEFINE id == Fresh(d.h.data)
           D  == With(d.h.data, id, values)
           H  == [data |-> D, maps |-> d.h.maps]
           x  == [d EXCEPT !.h.data = With(@, id, values)]
<1>1. /\ d = [name_ |-> d.name_, cols |-> d.cols, indices_ |-> d.indices_, frozen_ |-> d.frozen_,
              last_change_ |-> d.last_change_, h |-> d.h, failure |-> d.failure]
      /\ d.h = [data |-> d.h.data, maps |-> d.h.maps] /\ GoodHeap(d.h)
  BY DEF GoodFrame, Typed, GoodHeap
<1>2. id \in Nat \ DOMAIN d.h.data
  BY <1>1, FreshIsNew DEF GoodHeap
<1>3. D = [y \in DOMAIN d.h.data \cup {id} |-> IF y = id THEN values ELSE d.h.data[y]]
  BY DEF With
<1>4. x = [d EXCEPT !.h = [d.h EXCEPT !.data = D]]
  OBVIOUS
<1> HIDE DEF id, D, x
<1>5. [d.h EXCEPT !.data = D] = H
  BY <1>1
<1> HIDE DEF H
<1>6. x = [name_ |-> d.name_, cols |-> d.cols, indices_ |-> d.indices_, frozen_ |-> d.frozen_,
           last_change_ |-> d.last_change_, h |-> H, failure |-> d.failure]
  BY <1>1, <1>4, <1>5
<1>7. /\ x.cols = d.cols /\ x.indices_ = d.indices_ /\ x.h = H /\ x.name_ = d.name_
      /\ x.frozen_ = d.frozen_ /\ x.failure = d.failure /\ x.last_change_ = d.last_change_
  BY <1>6
<1>8. H = [data |-> D, maps |-> d.h.maps] /\ H.data = D /\ H.maps = d.h.maps
  BY DEF H
<1>9. /\ DOMAIN D = DOMAIN d.h.data \cup {id} /\ D[id] = values
      /\ \A y \in DOMAIN d.h.data : D[y] = d.h.data[y]
      /\ D = [y \in DOMAIN D |-> D[y]]
  BY <1>2, <1>3
<1>10. GoodHeap(H)
  <2>1. IsFiniteSet(DOMAIN d.h.data)
    BY <1>1 DEF GoodHeap
  <2>2. IsFiniteSet(DOMAIN D)
    BY <1>9, <2>1, FS_AddElement
  <2>3. DOMAIN D \subseteq Nat
    BY <1>1, <1>2, <1>9 DEF GoodHeap
  <2>4. \A y \in DOMAIN D : D[y] \in Seq(Int)
    BY <1>1, <1>9 DEF GoodHeap
  <2> QED
    BY <1>1, <1>8, <1>9, <2>2, <2>3, <2>4 DEF GoodHeap
<1>11. Typed(x)
  BY <1>6, <1>7, <1>10 DEF GoodFrame, Typed
<1>12. ASSUME NEW r \in RoleSet, NEW i \in 1..Len(d.cols[r])
       PROVE  /\ d.cols[r][i].data \in DOMAIN d.h.data /\ d.cols[r][i].data \in DOMAIN D
              /\ ValuesOf(x, d.cols[r][i]) = ValuesOf(d, d.cols[r][i])
  <2>1. d.cols[r][i].data \in DOMAIN d.h.data
    BY ColumnFacts DEF GoodFrame
  <2> QED
    BY <1>7, <1>8, <1>9, <2>1 DEF ValuesOf
<1>13. GoodColumns(x)
  <2> SUFFICES ASSUME NEW r \in RoleSet, NEW s \in RoleSet,
                      NEW i \in 1..Len(d.cols[r]), NEW j \in 1..Len(d.cols[s])
               PROVE  /\ d.cols[r][i].data \in DOMAIN D
                      /\ d.cols[r][i].data = d.cols[s][j].data => r = s /\ i = j
                      /\ d.cols[r][i].name = d.cols[s][j].name => r = s /\ i = j
                      /\ Len(ValuesOf(x, d.cols[r][i])) = Len(ValuesOf(x, d.cols[s][j]))
    BY <1>7, <1>8 DEF GoodColumns
  <2> QED
    BY <1>12, TwoColumns DEF GoodFrame
<1>14. Len(d.indices_) = Len(d.cols["join_key"])
  BY DEF GoodFrame, GoodIndices
<1>15. \A i \in 1..Len(d.indices_) : KeyValues(x, i) = KeyValues(d, i)
  BY <1>7, <1>12, <1>14, JoinKeyIsRole DEF KeyValues
<1>16. GoodIndices(x) /\ Complete(x)
  BY <1>7, <1>8, <1>14, <1>15 DEF GoodFrame, GoodIndices, Complete
<1>17. DataIds(x) = DataIds(d) /\ MapIds(x) = MapIds(d)
  BY <1>7 DEF DataIds, MapIds
<1>18. id \notin DataIds(d)
  <2> SUFFICES ASSUME id \in DataIds(d) PROVE FALSE
    OBVIOUS
  <2>1. PICK r \in RoleSet : \E i \in 1..Len(d.cols[r]) : id = d.cols[r][i].data
    BY ColumnOfId
  <2> QED
    BY <1>2, <1>12, <2>1
<1>19. Extends(d.h, x.h)
  BY <1>7, <1>8, <1>9 DEF Extends
<1>20. id \in DOMAIN x.h.data
  BY <1>7, <1>8, <1>9
<1> QED
  BY <1>2, <1>7, <1>8, <1>11, <1>13, <1>16, <1>17, <1>18, <1>19, <1>20 DEF GoodFrame, id, D, x

\* DataFrame::add_column of a client: the frame has grown, or remains after an exception.
LEMMA Added ==
  ASSUME NEW d, GoodFrame(d), d.failure = "none", time \in Nat, NEW c \in Uploads
  PROVE  Grown(d, add(d, c)) /\ (add(d, c).failure = "none" => add(d, c).last_change_ = time + 1)
<1> DEFINE id  == Fresh(d.h.data)
           x   == [d EXCEPT !.h.data = With(@, id, c.values)]
           col == [name |-> c.name, unit |-> c.unit, sub |-> c.sub, data |-> id]
           y   == check_if_frozen(x)
           e   == add(d, c)
<1>1. c.role \in RoleSet /\ c.values \in Seq(Int)
  BY DEF Uploads
<1>2. /\ GoodFrame(x) /\ Extends(d.h, x.h) /\ id \in DOMAIN x.h.data /\ id \notin DataIds(x)
      /\ id \in Nat \ DOMAIN d.h.data
      /\ DataIds(x) = DataIds(d) /\ MapIds(x) = MapIds(d) /\ x.h.maps = d.h.maps
      /\ x.name_ = d.name_ /\ x.failure = d.failure /\ x.last_change_ = d.last_change_
  BY <1>1, NewData
<1>3. col \in ColumnRecords /\ col.data = id
  BY <1>2 DEF ColumnRecords, Uploads
<1>4. \/ e = Then(y, LAMBDA z : add_int_column(z, col, c.role))
      \/ /\ c.role # "join_key"
         /\ \/ e = Then(y, LAMBDA z : add_string_column(z, col, c.role))
            \/ e = Then(y, LAMBDA z : add_float_column(z, col, c.role))
  <2>1. CASE c.role \in IntRoles
    BY <2>1 DEF add
  <2>2. CASE c.role \in {"text", "unused_string"}
    BY <2>2 DEF add, IntRoles
  <2>3. CASE c.role \notin IntRoles /\ c.role \notin {"text", "unused_string"}
    BY <2>3 DEF add, IntRoles
  <2> QED
    BY <2>1, <2>2, <2>3
<1> HIDE DEF id, x, col, e
<1>5. AddedColumn(x, e, col)
  <2>1. CASE x.frozen_
    <3>1. y = Fail(x, "frozen") /\ Failed(x, y)
      BY <1>2, <2>1, FailIsFailed DEF check_if_frozen
    <3>2. e = y
      BY <1>4, <3>1 DEF Then, Failed
    <3> QED
      BY <3>1, <3>2 DEF AddedColumn
  <2>2. CASE ~ x.frozen_
    <3>1. y = x
      BY <2>2 DEF check_if_frozen
    <3>2. \/ e = add_int_column(x, col, c.role)
          \/ /\ c.role # "join_key"
             /\ e = add_string_column(x, col, c.role) \/ e = add_float_column(x, col, c.role)
      BY <1>2, <1>4, <3>1 DEF Then
    <3> QED
      BY <1>1, <1>2, <1>3, <3>2, AddedTyped
  <2> QED
    BY <2>1, <2>2
<1>6. CASE Failed(x, e)
  <2>1. /\ GoodFrame(e) /\ DataIds(e) = DataIds(x) /\ MapIds(e) = MapIds(x)
        /\ e.h = x.h /\ e.name_ = x.name_ /\ e.last_change_ = x.last_change_ /\ e.failure # "none"
    BY <1>2, <1>6, FailedIsGood
  <2> QED
    BY <1>2, <2>1 DEF Grown, e
<1>7. CASE WithColumn(x, e, col) /\ e.last_change_ = time + 1
  <2>1. Extends(d.h, e.h)
    BY <1>2, <1>7 DEF WithColumn, Extends
  <2>2. DataIds(e) \subseteq DataIds(d) \cup (Nat \ DOMAIN d.h.data)
    BY <1>2, <1>3, <1>7 DEF WithColumn
  <2>3. MapIds(e) \subseteq MapIds(d) \cup (Nat \ DOMAIN d.h.maps)
    BY <1>2, <1>7 DEF WithColumn
  <2> QED
    BY <1>2, <1>7, <2>1, <2>2, <2>3 DEF WithColumn, Grown, e
<1> QED
  BY <1>5, <1>6, <1>7 DEF AddedColumn

-----------------------------------------------------------------------------
(* DataFrame: adding many columns *)

\* A data frame has grown out of itself.
LEMMA GrownNot ==
  ASSUME NEW d, GoodFrame(d)
  PROVE  Grown(d, d)
BY DEF Grown, Extends

\* What grows out of what has grown has grown.
LEMMA GrownTwice ==
  ASSUME NEW c, NEW d, NEW e, Grown(c, d), Grown(d, e)
  PROVE  Grown(c, e)
<1>1. Extends(c.h, e.h)
  BY DEF Grown, Extends
<1>2. DataIds(e) \subseteq DataIds(c) \cup (Nat \ DOMAIN c.h.data)
  BY DEF Grown, Extends
<1>3. MapIds(e) \subseteq MapIds(c) \cup (Nat \ DOMAIN c.h.maps)
  BY DEF Grown, Extends
<1> QED
  BY <1>1, <1>2, <1>3 DEF Grown

\* The loop of AddAll.
AddLoop(f, d, cols) ==
  /\ f[0] = d
  /\ \A n \in 1..Len(cols) : f[n] = IF f[n - 1].failure # "none" THEN f[n - 1] ELSE add(f[n - 1], cols[n])
  /\ AddAll(d, cols) = f[Len(cols)]

\* AddAll is the last step of the loop over the columns.
LEMMA AddedLoop ==
  ASSUME NEW d, NEW cols \in Seq(Uploads)
  PROVE  \E f : AddLoop(f, d, cols)
<1> DEFINE N == Len(cols)
           step(x, n) == IF x.failure # "none" THEN x ELSE add(x, cols[n])
           Loop(n, g) == g = [i \in 0..n |-> IF i = 0 THEN d ELSE step(g[i - 1], i)]
           T == {n \in 0..N : \E g : Loop(n, g)}
           f == CHOOSE g : Loop(N, g)
<1>1. AddAll(d, cols) = f[N]
  BY DEF AddAll, Then
<1> HIDE DEF f, step
<1>2. N \in Nat
  OBVIOUS
<1>3. 0 \in T
  <2> DEFINE g0 == [i \in 0..0 |-> d]
  <2>1. Loop(0, g0)
    OBVIOUS
  <2> HIDE DEF g0, Loop
  <2> QED
    BY <1>2, <2>1
<1>4. ASSUME NEW n \in 0..N - 1, n \in T PROVE n + 1 \in T
  <2>1. PICK g : Loop(n, g)
    BY <1>4
  <2> DEFINE h == [i \in 0..n + 1 |-> IF i = n + 1 THEN step(g[n], (n + 1)) ELSE g[i]]
  <2>2. \A i \in 0..n + 1 : h[i] = IF i = 0 THEN d ELSE step(h[i - 1], i)
    <3> TAKE i \in 0..n + 1
    <3>1. CASE i = 0
      BY <2>1, <3>1
    <3>2. CASE i = n + 1
      BY <3>2
    <3>3. CASE i \in 1..n
      <4>1. h[i] = g[i] /\ h[i - 1] = g[i - 1]
        BY <3>3
      <4>2. g[i] = step(g[i - 1], i)
        BY <2>1, <3>3
      <4> QED
        BY <3>3, <4>1, <4>2
    <3> QED
      BY <3>1, <3>2, <3>3
  <2>3. DOMAIN h = 0..n + 1 /\ h = [i \in 0..n + 1 |-> h[i]]
    OBVIOUS
  <2> HIDE DEF h
  <2>4. Loop(n + 1, h)
    BY <2>2, <2>3
  <2> HIDE DEF Loop
  <2> QED
    BY <1>2, <2>4
<1>5. N \in T
  <2> HIDE DEF T, N
  <2>1. 0..N \subseteq T
    BY <1>2, <1>3, <1>4, BoundedInduction
  <2> QED
    BY <1>2, <2>1
<1>6. Loop(N, f)
  <2> HIDE DEF Loop
  <2> QED
    BY <1>5 DEF f
<1>7. f[0] = d /\ \A n \in 1..N : f[n] = step(f[n - 1], n)
  <2>1. \A i \in 0..N : f[i] = IF i = 0 THEN d ELSE step(f[i - 1], i)
    BY <1>6
  <2> QED
    BY <1>2, <2>1
<1> HIDE DEF Loop
<1> QED
  BY <1>1, <1>7 DEF AddLoop, step

\* Adding columns one after the other, each of them on condition that no exception was
\* thrown before.
LEMMA AllAdded ==
  ASSUME NEW d, GoodFrame(d), d.failure = "none", time \in Nat, NEW cols \in Seq(Uploads)
  PROVE  Grown(d, AddAll(d, cols))
<1> DEFINE N == Len(cols)
<1>1. N \in Nat
  OBVIOUS
<1>2. PICK f : AddLoop(f, d, cols)
  BY AddedLoop
<1> DEFINE T == {n \in 0..N : Grown(d, f[n])}
<1>3. 0 \in T
  BY <1>1, <1>2, GrownNot DEF AddLoop
<1>4. ASSUME NEW n \in 0..N - 1, n \in T PROVE n + 1 \in T
  <2> DEFINE c == f[n]
             e == f[n + 1]
  <2>1. n + 1 \in 1..N /\ n + 1 \in 0..N /\ n \in Nat
    BY <1>1
  <2>2. e = IF c.failure # "none" THEN c ELSE add(c, cols[n + 1])
    BY <1>2, <2>1 DEF AddLoop
  <2>3. Grown(d, c)
    BY <1>4
  <2>4. cols[n + 1] \in Uploads
    BY <2>1
  <2> HIDE DEF c, e
  <2>5. CASE c.failure # "none"
    BY <2>1, <2>2, <2>3, <2>5 DEF e
  <2>6. CASE c.failure = "none"
    <3>1. e = add(c, cols[n + 1])
      BY <2>2, <2>6
    <3>2. GoodFrame(c)
      BY <2>3 DEF Grown
    <3>3. Grown(c, e)
      BY <2>4, <2>6, <3>1, <3>2, Added
    <3>4. Grown(d, e)
      BY <2>3, <3>3, GrownTwice
    <3> QED
      BY <2>1, <3>4 DEF e
  <2> QED
    BY <2>5, <2>6
<1>5. N \in T
  <2> HIDE DEF T, N
  <2>1. 0..N \subseteq T
    BY <1>1, <1>3, <1>4, BoundedInduction
  <2> QED
    BY <1>1, <2>1
<1> QED
  BY <1>2, <1>5 DEF AddLoop

\* The heap of a good frame is extended by a new frame, which has nothing yet.
LEMMA NewIsGood ==
  ASSUME NEW name \in Names, NEW h, GoodHeap(h), time \in Nat
  PROVE  LET e == NewFrame(name, h)
         IN /\ GoodFrame(e) /\ DataIds(e) = {} /\ MapIds(e) = {} /\ e.h = h /\ e.name_ = name
            /\ e.failure = "none" /\ e.last_change_ = time + 1
<1> DEFINE e == NewFrame(name, h)
<1>1. e = [name_ |-> name, cols |-> [r \in RoleSet |-> <<>>], indices_ |-> <<>>,
           frozen_ |-> FALSE, last_change_ |-> time + 1, h |-> h, failure |-> "none"]
  BY DEF NewFrame
<1> HIDE DEF e
<1>2. /\ e.name_ = name /\ e.cols = [r \in RoleSet |-> <<>>] /\ e.indices_ = <<>> /\ e.h = h
      /\ e.frozen_ = FALSE /\ e.last_change_ = time + 1 /\ e.failure = "none"
  BY <1>1
<1>3. /\ e.cols \in [RoleSet -> Seq(ColumnRecords)] /\ e.indices_ \in Seq(IndexRecords)
      /\ \A r \in RoleSet : e.cols[r] = <<>>
  BY <1>2
<1>4. Typed(e)
  BY <1>1, <1>2, <1>3 DEF Typed
<1>5. /\ \A r \in RoleSet : Len(e.cols[r]) = 0 /\ \A i : i \notin 1..Len(e.cols[r])
      /\ Len(e.indices_) = 0 /\ \A i : i \notin 1..Len(e.indices_)
  BY <1>2, <1>3
<1>6. GoodColumns(e)
  BY <1>5 DEF GoodColumns
<1>7. GoodIndices(e) /\ Complete(e)
  BY <1>5, JoinKeyIsRole DEF GoodIndices, Complete
<1>8. DataIds(e) = {}
  BY <1>5, ColumnOfId
<1>9. MapIds(e) = {}
  BY <1>5 DEF MapIds
<1> QED
  BY <1>2, <1>4, <1>6, <1>7, <1>8, <1>9 DEF GoodFrame, e

\* A frame of its own: on the heap h, with new data and maps only.
OfItsOwn(h, e, name) ==
  /\ GoodFrame(e) /\ Extends(h, e.h)
  /\ DataIds(e) \subseteq Nat \ DOMAIN h.data
  /\ MapIds(e) \subseteq Nat \ DOMAIN h.maps
  /\ e.name_ = name /\ e.last_change_ = time + 1

\* A data frame that is built from columns has columns and indices of its own.
LEMMA NewTable ==
  ASSUME NEW name \in Names, NEW h, GoodHeap(h), time \in Nat, NEW cols \in Seq(Uploads)
  PROVE  OfItsOwn(h, AddAll(NewFrame(name, h), cols), name)
<1> DEFINE d == NewFrame(name, h)
           e == AddAll(d, cols)
<1>1. /\ GoodFrame(d) /\ DataIds(d) = {} /\ MapIds(d) = {} /\ d.h = h /\ d.name_ = name
      /\ d.failure = "none" /\ d.last_change_ = time + 1
  BY NewIsGood
<1> HIDE DEF d
<1>2. Grown(d, e)
  BY <1>1, AllAdded
<1> HIDE DEF e
<1>3. OfItsOwn(h, e, name)
  BY <1>1, <1>2 DEF Grown, OfItsOwn
<1> QED
  BY <1>3 DEF d, e

\* create_indices on a good frame, unless an exception was thrown.
LEMMA IndicesCreated ==
  ASSUME NEW d, GoodFrame(d)
  PROVE  LET e == create_indices(d)
         IN /\ Grown(d, e) /\ e.cols = d.cols /\ e.failure = d.failure
            /\ e.last_change_ = d.last_change_ /\ e.h.data = d.h.data
            /\ DataIds(e) = DataIds(d) /\ MapIds(e) = MapIds(d)
<1> DEFINE e == create_indices(d)
<1>1. GoodFrame(e) /\ Reindexed(d, e)
  BY CreateIndices DEF GoodFrame
<1> HIDE DEF e
<1>2. DataIds(e) = DataIds(d)
  BY <1>1 DEF Reindexed, DataIds
<1>3. MapIds(e) = MapIds(d)
  BY <1>1 DEF Reindexed, MapIds
<1>4. Extends(d.h, e.h)
  <2>1. \A i \in 1..Len(d.indices_) : d.indices_[i].begin_ = Len(KeyValues(d, i))
    BY DEF GoodFrame, Complete
  <2> QED
    BY <1>1, <2>1 DEF Reindexed, Extends
<1>5. Grown(d, e)
  BY <1>1, <1>2, <1>3, <1>4 DEF Grown, Reindexed
<1> QED
  BY <1>1, <1>2, <1>3, <1>5 DEF Reindexed, e

-----------------------------------------------------------------------------
(* DataFrame: views *)

\* The columns of a good frame can be added to another one, and are of one length.
ColumnsOfLength(n) == {c \in Uploads : Len(c.values) = n}

\* The columns of a role, with their values, are of one length.
LEMMA ColumnsOfRole ==
  ASSUME NEW d, GoodFrame(d), NEW r \in RoleSet
  PROVE  [i \in 1..Len(d.cols[r]) |->
            [role |-> r, name |-> d.cols[r][i].name, unit |-> d.cols[r][i].unit,
             sub |-> d.cols[r][i].sub, values |-> ValuesOf(d, d.cols[r][i])]]
           \in Seq(ColumnsOfLength(nrows(d)))
<1>1. Len(d.cols[r]) \in Nat
  BY DEF GoodFrame, Typed
<1>2. ASSUME NEW i \in 1..Len(d.cols[r])
      PROVE  [role |-> r, name |-> d.cols[r][i].name, unit |-> d.cols[r][i].unit,
              sub |-> d.cols[r][i].sub, values |-> ValuesOf(d, d.cols[r][i])]
               \in ColumnsOfLength(nrows(d))
  <2> DEFINE c == d.cols[r][i]
             v == ValuesOf(d, c)
  <2>1. c \in ColumnRecords /\ v \in Seq(Int)
    BY ColumnFacts DEF GoodFrame
  <2>2. nrows(d) = Len(v)
    BY NumRows DEF GoodFrame
  <2> HIDE DEF c, v
  <2>3. c.name \in STRING /\ c.unit \in Units /\ c.sub \in SUBSET STRING
    BY <2>1 DEF ColumnRecords
  <2> DEFINE u == [role |-> r, name |-> c.name, unit |-> c.unit, sub |-> c.sub, values |-> v]
  <2>4. u \in Uploads /\ u.values = v
    BY <2>1, <2>3 DEF Uploads
  <2> QED
    BY <2>2, <2>4 DEF ColumnsOfLength, c, v
<1> QED
  BY <1>1, <1>2

\* So are the columns of a data frame: they can be added to another one.
LEMMA ColumnsAreUploads ==
  ASSUME NEW d, GoodFrame(d)
  PROVE  ColumnsOf(d) \in Seq(ColumnsOfLength(nrows(d)))
<1> DEFINE Of(role) == [i \in 1..Len(d.cols[role]) |->
             [role |-> role, name |-> d.cols[role][i].name, unit |-> d.cols[role][i].unit,
              sub |-> d.cols[role][i].sub, values |-> ValuesOf(d, d.cols[role][i])]]
<1>1. ColumnsOf(d) = Of("categorical") \o Of("join_key") \o Of("numerical") \o Of("target") \o Of("text")
       \o Of("time_stamp") \o Of("unused_float") \o Of("unused_string")
  BY DEF ColumnsOf
<1> DEFINE S == ColumnsOfLength(nrows(d))
<1>2. \A r \in RoleSet : Of(r) \in Seq(S)
  BY ColumnsOfRole
<1> HIDE DEF Of, S
<1>3. \A s, t \in Seq(S) : s \o t \in Seq(S)
  OBVIOUS
<1>4. /\ Of("categorical") \in Seq(S) /\ Of("join_key") \in Seq(S) /\ Of("numerical") \in Seq(S)
      /\ Of("target") \in Seq(S) /\ Of("text") \in Seq(S) /\ Of("time_stamp") \in Seq(S)
      /\ Of("unused_float") \in Seq(S) /\ Of("unused_string") \in Seq(S)
  BY <1>2, RolesAre
<1>5. ColumnsOf(d) \in Seq(S)
  <2>1. Of("categorical") \o Of("join_key") \in Seq(S)
    BY <1>3, <1>4
  <2>2. Of("categorical") \o Of("join_key") \o Of("numerical") \in Seq(S)
    BY <1>3, <1>4, <2>1
  <2>3. Of("categorical") \o Of("join_key") \o Of("numerical") \o Of("target") \in Seq(S)
    BY <1>3, <1>4, <2>2
  <2>4. Of("categorical") \o Of("join_key") \o Of("numerical") \o Of("target") \o Of("text") \in Seq(S)
    BY <1>3, <1>4, <2>3
  <2>5. Of("categorical") \o Of("join_key") \o Of("numerical") \o Of("target") \o Of("text")
          \o Of("time_stamp") \in Seq(S)
    BY <1>3, <1>4, <2>4
  <2>6. Of("categorical") \o Of("join_key") \o Of("numerical") \o Of("target") \o Of("text")
          \o Of("time_stamp") \o Of("unused_float") \in Seq(S)
    BY <1>3, <1>4, <2>5
  <2> QED
    BY <1>1, <1>3, <1>4, <2>6
<1> QED
  BY <1>5 DEF S

\* The loop of TruePositions.
TrueLoop(f, condition) ==
  /\ f[0] = <<>>
  /\ \A n \in 1..Len(condition) : f[n] = IF condition[n] THEN Append(f[n - 1], n) ELSE f[n - 1]
  /\ TruePositions(condition) = f[Len(condition)]

\* TruePositions is the last step of the loop over the condition.
LEMMA PositionsLoop ==
  ASSUME NEW condition, Len(condition) \in Nat
  PROVE  \E f : TrueLoop(f, condition)
<1> DEFINE N == Len(condition)
           step(x, n) == IF condition[n] THEN Append(x, n) ELSE x
           Loop(n, g) == g = [i \in 0..n |-> IF i = 0 THEN <<>> ELSE step(g[i - 1], i)]
           T == {n \in 0..N : \E g : Loop(n, g)}
           f == CHOOSE g : Loop(N, g)
<1>1. TruePositions(condition) = f[N]
  BY DEF TruePositions
<1> HIDE DEF f, step
<1>2. N \in Nat
  OBVIOUS
<1>3. 0 \in T
  <2> DEFINE g0 == [i \in 0..0 |-> <<>>]
  <2>1. Loop(0, g0)
    OBVIOUS
  <2> HIDE DEF g0, Loop
  <2> QED
    BY <1>2, <2>1
<1>4. ASSUME NEW n \in 0..N - 1, n \in T PROVE n + 1 \in T
  <2>1. PICK g : Loop(n, g)
    BY <1>4
  <2> DEFINE h == [i \in 0..n + 1 |-> IF i = n + 1 THEN step(g[n], (n + 1)) ELSE g[i]]
  <2>2. \A i \in 0..n + 1 : h[i] = IF i = 0 THEN <<>> ELSE step(h[i - 1], i)
    <3> TAKE i \in 0..n + 1
    <3>1. CASE i = 0
      BY <2>1, <3>1
    <3>2. CASE i = n + 1
      BY <3>2
    <3>3. CASE i \in 1..n
      <4>1. h[i] = g[i] /\ h[i - 1] = g[i - 1]
        BY <3>3
      <4>2. g[i] = step(g[i - 1], i)
        BY <2>1, <3>3
      <4> QED
        BY <3>3, <4>1, <4>2
    <3> QED
      BY <3>1, <3>2, <3>3
  <2>3. DOMAIN h = 0..n + 1 /\ h = [i \in 0..n + 1 |-> h[i]]
    OBVIOUS
  <2> HIDE DEF h
  <2>4. Loop(n + 1, h)
    BY <2>2, <2>3
  <2> HIDE DEF Loop
  <2> QED
    BY <1>2, <2>4
<1>5. N \in T
  <2> HIDE DEF T, N
  <2>1. 0..N \subseteq T
    BY <1>2, <1>3, <1>4, BoundedInduction
  <2> QED
    BY <1>2, <2>1
<1>6. Loop(N, f)
  <2> HIDE DEF Loop
  <2> QED
    BY <1>5 DEF f
<1>7. f[0] = <<>> /\ \A n \in 1..N : f[n] = step(f[n - 1], n)
  <2>1. \A i \in 0..N : f[i] = IF i = 0 THEN <<>> ELSE step(f[i - 1], i)
    BY <1>6
  <2> QED
    BY <1>2, <2>1
<1> HIDE DEF Loop
<1> QED
  BY <1>1, <1>7 DEF TrueLoop, step

\* The positions at which a condition is true are some of those it has.
LEMMA TruePositionsAre ==
  ASSUME NEW condition, Len(condition) \in Nat
  PROVE  TruePositions(condition) \in Seq(1..Len(condition))
<1> DEFINE N == Len(condition)
<1>1. PICK f : TrueLoop(f, condition)
  BY PositionsLoop
<1> DEFINE T == {n \in 0..N : f[n] \in Seq(1..N)}
<1>2. 0 \in T
  <2>1. f[0] = <<>> /\ <<>> \in Seq(1..N) /\ 0 \in 0..N
    BY <1>1 DEF TrueLoop
  <2> QED
    BY <2>1
<1>3. ASSUME NEW n \in 0..N - 1, n \in T PROVE n + 1 \in T
  <2>1. n + 1 \in 1..N /\ n + 1 \in 0..N /\ n \in Nat
    OBVIOUS
  <2>2. f[n + 1] = IF condition[n + 1] THEN Append(f[n], n + 1) ELSE f[n]
    BY <1>1, <2>1 DEF TrueLoop
  <2>3. f[n] \in Seq(1..N)
    BY <1>3
  <2>4. f[n + 1] \in Seq(1..N)
    <3>1. CASE condition[n + 1]
      BY <2>1, <2>2, <2>3, <3>1
    <3>2. CASE ~ condition[n + 1]
      BY <2>2, <2>3, <3>2
    <3> QED
      BY <3>1, <3>2
  <2> QED
    BY <2>1, <2>4
<1>4. N \in T
  <2> HIDE DEF T, N
  <2>0. N \in Nat
    BY DEF N
  <2>1. 0..N \subseteq T
    BY <1>2, <1>3, <2>0, BoundedInduction
  <2> QED
    BY <2>0, <2>1
<1> QED
  BY <1>1, <1>4 DEF TrueLoop

\* What is selected from a sequence are elements of it.
LEMMA SelectedElements ==
  ASSUME NEW S, NEW s \in Seq(S), NEW condition, Len(condition) = Len(s)
  PROVE  /\ Selected(s, condition) \in Seq(S)
         /\ \A i \in 1..Len(Selected(s, condition)) :
              \E j \in 1..Len(s) : Selected(s, condition)[i] = s[j]
<1> DEFINE at == TruePositions(condition)
<1>1. at \in Seq(1..Len(s))
  BY TruePositionsAre
<1>2. Selected(s, condition) = [i \in 1..Len(at) |-> s[at[i]]]
  BY DEF Selected
<1> HIDE DEF at
<1>3. Len(at) \in Nat /\ \A i \in 1..Len(at) : at[i] \in 1..Len(s)
  BY <1>1
<1> QED
  BY <1>2, <1>3

\* A frame that lives on an extension of a heap.
OnTopOf(h, e) == GoodFrame(e) /\ Extends(h, e.h)

\* An exception leaves the heap.
LEMMA FailedOnTop ==
  ASSUME NEW d, GoodFrame(d), NEW why, why # "none"
  PROVE  OnTopOf(d.h, Fail(d, why))
<1> DEFINE e == Fail(d, why)
<1>1. Failed(d, e)
  BY FailIsFailed
<1> HIDE DEF e
<1>2. OnTopOf(d.h, e)
  BY <1>1, FailedIsGood DEF OnTopOf, Extends
<1> QED
  BY <1>2 DEF e

\* A table with its indices, which is what selections and clones end with.
LEMMA IndexedTable ==
  ASSUME NEW name \in Names, NEW h, GoodHeap(h), time \in Nat, NEW cols \in Seq(Uploads)
  PROVE  OfItsOwn(h, Then(AddAll(NewFrame(name, h), cols), create_indices), name)
<1> DEFINE a == AddAll(NewFrame(name, h), cols)
           e == Then(a, create_indices)
<1>1. OfItsOwn(h, a, name)
  BY NewTable
<1>2. e = IF a.failure # "none" THEN a ELSE create_indices(a)
  BY DEF Then
<1> HIDE DEF a, e
<1>3. CASE a.failure # "none"
  BY <1>1, <1>2, <1>3 DEF e, a
<1>4. CASE a.failure = "none"
  <2>1. e = create_indices(a) /\ GoodFrame(a)
    BY <1>1, <1>2, <1>4 DEF OfItsOwn
  <2>2. /\ Grown(a, e) /\ e.last_change_ = a.last_change_ /\ DataIds(e) = DataIds(a) /\ MapIds(e) = MapIds(a)
    BY <2>1, IndicesCreated
  <2>3. OfItsOwn(h, e, name)
    BY <1>1, <2>2 DEF OfItsOwn, Grown, Extends
  <2> QED
    BY <2>3 DEF e, a
<1> QED
  BY <1>3, <1>4

\* Selecting rows by a condition gives a good data frame or an exception.
LEMMA Where ==
  ASSUME NEW d, GoodFrame(d), time \in Nat, NEW condition, Len(condition) \in Nat
  PROVE  OnTopOf(d.h, where(d, condition))
<1> DEFINE cols == ColumnsOf(d)
           kept == [i \in 1..Len(cols) |-> KeptColumn(cols[i], condition)]
<1>1. CASE ncols(d) # 0 /\ Len(condition) # nrows(d)
  BY <1>1, FailedOnTop DEF where
<1>2. CASE ~ (ncols(d) # 0 /\ Len(condition) # nrows(d))
  <2>1. where(d, condition) = Then(AddAll(NewFrame(d.name_, d.h), kept), create_indices)
    BY <1>2 DEF where
  <2>2. cols \in Seq(ColumnsOfLength(nrows(d)))
    BY ColumnsAreUploads
  <2> HIDE DEF cols
  <2>3. /\ cols \in Seq(Uploads) /\ Len(cols) \in Nat
        /\ \A i \in 1..Len(cols) : cols[i] \in Uploads /\ Len(cols[i].values) = nrows(d)
    BY <2>2 DEF ColumnsOfLength
  <2>4. CASE ncols(d) = 0
    <3>1. \A r \in RoleSet : Len(d.cols[r]) = 0
      BY <2>4, NoColumns DEF GoodFrame
    <3>2. Len(cols) = 0
      <4> DEFINE Of(role) == [i \in 1..Len(d.cols[role]) |->
                   [role |-> role, name |-> d.cols[role][i].name, unit |-> d.cols[role][i].unit,
                    sub |-> d.cols[role][i].sub, values |-> ValuesOf(d, d.cols[role][i])]]
      <4>1. cols = Of("categorical") \o Of("join_key") \o Of("numerical") \o Of("target") \o Of("text")
              \o Of("time_stamp") \o Of("unused_float") \o Of("unused_string")
        BY DEF ColumnsOf, cols
      <4>2. \A r \in RoleSet : Of(r) = <<>>
        BY <3>1
      <4> HIDE DEF Of
      <4>3. /\ Of("categorical") = <<>> /\ Of("join_key") = <<>> /\ Of("numerical") = <<>>
            /\ Of("target") = <<>> /\ Of("text") = <<>> /\ Of("time_stamp") = <<>>
            /\ Of("unused_float") = <<>> /\ Of("unused_string") = <<>>
        BY <4>2, RolesAre
      <4> QED
        BY <4>1, <4>3
    <3>3. kept \in Seq(Uploads)
      BY <2>3, <3>2
    <3> HIDE DEF kept
    <3>4. OfItsOwn(d.h, where(d, condition), d.name_)
      BY <2>1, <3>3, IndexedTable DEF GoodFrame, Typed
    <3> QED
      BY <3>4 DEF OfItsOwn, OnTopOf
  <2>5. CASE ncols(d) # 0
    <3>1. ASSUME NEW i \in 1..Len(cols) PROVE KeptColumn(cols[i], condition) \in Uploads
      <4>1. cols[i] \in Uploads /\ Len(cols[i].values) = Len(condition)
        BY <1>2, <2>3, <2>5
      <4>2. cols[i].values \in Seq(Int)
        BY <4>1 DEF Uploads
      <4>3. Selected(cols[i].values, condition) \in Seq(Int)
        BY <4>1, <4>2, SelectedElements
      <4> QED
        BY <4>1, <4>3 DEF KeptColumn, Uploads
    <3>2. kept \in Seq(Uploads)
      BY <2>3, <3>1
    <3> HIDE DEF kept
    <3>3. OfItsOwn(d.h, where(d, condition), d.name_)
      BY <2>1, <3>2, IndexedTable DEF GoodFrame, Typed
    <3> QED
      BY <3>3 DEF OfItsOwn, OnTopOf
  <2> QED
    BY <2>4, <2>5
<1> QED
  BY <1>1, <1>2

\* Selecting rows by their numbers gives a good data frame.
LEMMA SortByKey ==
  ASSUME NEW d, GoodFrame(d), time \in Nat, NEW key \in Seq(Nat)
  PROVE  OnTopOf(d.h, sort_by_key(d, key))
<1> DEFINE cols == ColumnsOf(d)
           sorted == [i \in 1..Len(cols) |-> SortedColumn(cols[i], key)]
<1>1. sort_by_key(d, key) = Then(AddAll(NewFrame(d.name_, d.h), sorted), create_indices)
  BY DEF sort_by_key
<1>2. cols \in Seq(ColumnsOfLength(nrows(d)))
  BY ColumnsAreUploads
<1> HIDE DEF cols
<1>3. Len(cols) \in Nat /\ \A i \in 1..Len(cols) : cols[i] \in Uploads
  BY <1>2 DEF ColumnsOfLength
<1>4. ASSUME NEW i \in 1..Len(cols) PROVE SortedColumn(cols[i], key) \in Uploads
  <2> DEFINE c == cols[i]
             v == c.values
             new == [j \in 1..Len(key) |-> IF key[j] < Len(v) THEN v[key[j] + 1] ELSE -1]
  <2>1. c \in Uploads /\ v \in Seq(Int)
    BY <1>3 DEF Uploads
  <2>2. \A j \in 1..Len(key) : key[j] \in Nat
    OBVIOUS
  <2>3. new \in Seq(Int)
    <3>1. Len(v) \in Nat /\ \A k \in 1..Len(v) : v[k] \in Int
      BY <2>1
    <3>2. \A j \in 1..Len(key) : (IF key[j] < Len(v) THEN v[key[j] + 1] ELSE -1) \in Int
      BY <2>2, <3>1
    <3> QED
      BY <3>2
  <2>4. SortedColumn(c, key) = [c EXCEPT !.values = new]
    BY DEF SortedColumn
  <2> HIDE DEF new
  <2> QED
    BY <2>1, <2>3, <2>4 DEF Uploads
<1>5. sorted \in Seq(Uploads)
  BY <1>3, <1>4
<1> HIDE DEF sorted
<1>6. OfItsOwn(d.h, sort_by_key(d, key), d.name_)
  BY <1>1, <1>5, IndexedTable DEF GoodFrame, Typed
<1> QED
  BY <1>6 DEF OfItsOwn, OnTopOf

\* So does the subselection of a view, whichever it is.
LEMMA Subselected ==
  ASSUME NEW d, GoodFrame(d), time \in Nat, NEW sub \in Selections
  PROVE  OnTopOf(d.h, subselection(d, sub))
<1>1. CASE sub.kind = "none"
  <2>1. subselection(d, sub) = d
    BY <1>1 DEF subselection
  <2> QED
    BY <2>1 DEF OnTopOf, Extends
<1>2. CASE sub.kind = "where"
  <2> DEFINE condition == [i \in 1..nrows(d) |-> sub.keep[((i - 1) % Len(sub.keep)) + 1]]
  <2>1. subselection(d, sub) = where(d, condition)
    BY <1>2 DEF subselection
  <2>2. nrows(d) \in Nat
    BY NumRowsIsNat DEF GoodFrame
  <2>3. Len(condition) \in Nat
    BY <2>2
  <2> HIDE DEF condition
  <2> QED
    BY <2>1, <2>3, Where
<1>3. CASE sub.kind = "rows"
  <2>1. sub.rows \in Seq(Int)
    BY <1>3 DEF Selections
  <2>2. CASE \E k \in Range(sub.rows) : k < 0
    <3>1. subselection(d, sub) = Fail(d, "negative index")
      BY <1>3, <2>2 DEF subselection
    <3> QED
      BY <3>1, FailedOnTop
  <2>3. CASE ~ \E k \in Range(sub.rows) : k < 0
    <3> DEFINE behind == [i \in 1..Len(sub.rows) |-> sub.rows[i] < nrows(d)]
               key == Selected(sub.rows, behind)
    <3>1. subselection(d, sub) = sort_by_key(d, key)
      BY <1>3, <2>3 DEF subselection
    <3>2. \A i \in 1..Len(sub.rows) : sub.rows[i] \in Nat
      <4> SUFFICES ASSUME NEW i \in 1..Len(sub.rows) PROVE sub.rows[i] \in Nat
        OBVIOUS
      <4>1. i \in DOMAIN sub.rows /\ sub.rows[i] \in Int
        BY <2>1
      <4>2. sub.rows[i] \in Range(sub.rows)
        BY <4>1 DEF Range
      <4> QED
        BY <2>3, <4>1, <4>2
    <3>3. sub.rows \in Seq(Nat) /\ Len(behind) = Len(sub.rows)
      BY <2>1, <3>2
    <3> HIDE DEF behind
    <3>4. key \in Seq(Nat)
      BY <3>3, SelectedElements
    <3> QED
      BY <3>1, <3>4, SortByKey
  <2> QED
    BY <2>2, <2>3
<1> QED
  BY <1>1, <1>2, <1>3 DEF Selections

\* Removing a column: the frame is left with fewer, or an exception is thrown.
LEMMA RemovedIsGrown ==
  ASSUME NEW d, GoodFrame(d), d.failure = "none", time \in Nat, NEW name
  PROVE  LET e == remove_column(d, name)
         IN Grown(d, e) /\ (HasColumn(d, name) /\ e.failure = "none" => e.last_change_ = time + 1)
<1> DEFINE e == remove_column(d, name)
<1>1. CASE d.frozen_
  <2>1. Failed(d, Fail(d, "frozen"))
    BY FailIsFailed
  <2>2. e = Fail(d, "frozen")
    BY <1>1, <2>1 DEF remove_column, Then, check_if_frozen, Failed
  <2> HIDE DEF e
  <2>3. /\ GoodFrame(e) /\ DataIds(e) = DataIds(d) /\ MapIds(e) = MapIds(d)
        /\ e.h = d.h /\ e.name_ = d.name_ /\ e.last_change_ = d.last_change_ /\ e.failure # "none"
    BY <2>1, <2>2, FailedIsGood
  <2>4. Grown(d, e)
    BY <2>3 DEF Grown, Extends
  <2> QED
    BY <2>3, <2>4 DEF e
<1>2. CASE ~ d.frozen_
  <2>1. e = Removed(d, name)
    BY <1>2 DEF remove_column, Then, check_if_frozen
  <2>2. RemovedFrom(d, e, name)
    BY <2>1, ColumnRemoved
  <2> HIDE DEF e
  <2>3. DataIds(e) \subseteq DataIds(d)
    <3> SUFFICES ASSUME NEW id \in DataIds(e) PROVE id \in DataIds(d)
      OBVIOUS
    <3>1. PICK r \in RoleSet : \E i \in 1..Len(e.cols[r]) : id = e.cols[r][i].data
      BY ColumnOfId
    <3>2. PICK i \in 1..Len(e.cols[r]) : id = e.cols[r][i].data
      BY <3>1
    <3>3. PICK j \in 1..Len(d.cols[r]) : e.cols[r][i] = d.cols[r][j]
      BY <2>2 DEF RemovedFrom
    <3> QED
      BY <3>2, <3>3, IdOfColumn
  <2>4. Grown(d, e)
    BY <2>2, <2>3 DEF RemovedFrom, Grown, Extends
  <2> QED
    BY <2>2, <2>4 DEF RemovedFrom, e
<1> QED
  BY <1>1, <1>2

\* The loop of drop_columns.
DropLoop(f, d, v) ==
  /\ f[0] = d
  /\ \A n \in 1..Len(v.dropped) : f[n] = IF f[n - 1].failure # "none" THEN f[n - 1] ELSE remove_column(f[n - 1], v.dropped[n])
  /\ drop_columns(d, v) = f[Len(v.dropped)]

\* drop_columns is the last step of the loop over the names.
LEMMA DroppedLoop ==
  ASSUME NEW d, NEW v, v.dropped \in Seq(STRING)
  PROVE  \E f : DropLoop(f, d, v)
<1> DEFINE N == Len(v.dropped)
           step(x, n) == IF x.failure # "none" THEN x ELSE remove_column(x, v.dropped[n])
           Loop(n, g) == g = [i \in 0..n |-> IF i = 0 THEN d ELSE step(g[i - 1], i)]
           T == {n \in 0..N : \E g : Loop(n, g)}
           f == CHOOSE g : Loop(N, g)
<1>1. drop_columns(d, v) = f[N]
  BY DEF drop_columns, Then
<1> HIDE DEF f, step
<1>2. N \in Nat
  OBVIOUS
<1>3. 0 \in T
  <2> DEFINE g0 == [i \in 0..0 |-> d]
  <2>1. Loop(0, g0)
    OBVIOUS
  <2> HIDE DEF g0, Loop
  <2> QED
    BY <1>2, <2>1
<1>4. ASSUME NEW n \in 0..N - 1, n \in T PROVE n + 1 \in T
  <2>1. PICK g : Loop(n, g)
    BY <1>4
  <2> DEFINE h == [i \in 0..n + 1 |-> IF i = n + 1 THEN step(g[n], (n + 1)) ELSE g[i]]
  <2>2. \A i \in 0..n + 1 : h[i] = IF i = 0 THEN d ELSE step(h[i - 1], i)
    <3> TAKE i \in 0..n + 1
    <3>1. CASE i = 0
      BY <2>1, <3>1
    <3>2. CASE i = n + 1
      BY <3>2
    <3>3. CASE i \in 1..n
      <4>1. h[i] = g[i] /\ h[i - 1] = g[i - 1]
        BY <3>3
      <4>2. g[i] = step(g[i - 1], i)
        BY <2>1, <3>3
      <4> QED
        BY <3>3, <4>1, <4>2
    <3> QED
      BY <3>1, <3>2, <3>3
  <2>3. DOMAIN h = 0..n + 1 /\ h = [i \in 0..n + 1 |-> h[i]]
    OBVIOUS
  <2> HIDE DEF h
  <2>4. Loop(n + 1, h)
    BY <2>2, <2>3
  <2> HIDE DEF Loop
  <2> QED
    BY <1>2, <2>4
<1>5. N \in T
  <2> HIDE DEF T, N
  <2>1. 0..N \subseteq T
    BY <1>2, <1>3, <1>4, BoundedInduction
  <2> QED
    BY <1>2, <2>1
<1>6. Loop(N, f)
  <2> HIDE DEF Loop
  <2> QED
    BY <1>5 DEF f
<1>7. f[0] = d /\ \A n \in 1..N : f[n] = step(f[n - 1], n)
  <2>1. \A i \in 0..N : f[i] = IF i = 0 THEN d ELSE step(f[i - 1], i)
    BY <1>6
  <2> QED
    BY <1>2, <2>1
<1> HIDE DEF Loop
<1> QED
  BY <1>1, <1>7 DEF DropLoop, step

\* Dropping columns gives a data frame that has grown out of the first.
LEMMA Dropped ==
  ASSUME NEW d, GoodFrame(d), d.failure = "none", time \in Nat, NEW v, v.dropped \in Seq(STRING)
  PROVE  Grown(d, drop_columns(d, v))
<1> DEFINE N == Len(v.dropped)
<1>1. N \in Nat
  OBVIOUS
<1>2. PICK f : DropLoop(f, d, v)
  BY DroppedLoop
<1> DEFINE T == {n \in 0..N : Grown(d, f[n])}
<1>3. 0 \in T
  BY <1>1, <1>2, GrownNot DEF DropLoop
<1>4. ASSUME NEW n \in 0..N - 1, n \in T PROVE n + 1 \in T
  <2> DEFINE c == f[n]
             e == f[n + 1]
  <2>1. n + 1 \in 1..N /\ n + 1 \in 0..N /\ n \in Nat
    BY <1>1
  <2>2. e = IF c.failure # "none" THEN c ELSE remove_column(c, v.dropped[n + 1])
    BY <1>2, <2>1 DEF DropLoop
  <2>3. Grown(d, c)
    BY <1>4
  <2> HIDE DEF c, e
  <2>4. CASE c.failure # "none"
    BY <2>1, <2>2, <2>3, <2>4 DEF e
  <2>5. CASE c.failure = "none"
    <3>1. e = remove_column(c, v.dropped[n + 1])
      BY <2>2, <2>5
    <3>2. GoodFrame(c)
      BY <2>3 DEF Grown
    <3>3. Grown(c, e)
      BY <2>5, <3>1, <3>2, RemovedIsGrown
    <3>4. Grown(d, e)
      BY <2>3, <3>3, GrownTwice
    <3> QED
      BY <2>1, <3>4 DEF e
  <2> QED
    BY <2>4, <2>5
<1>5. N \in T
  <2> HIDE DEF T, N
  <2>1. 0..N \subseteq T
    BY <1>1, <1>3, <1>4, BoundedInduction
  <2> QED
    BY <1>1, <2>1
<1> QED
  BY <1>2, <1>5 DEF DropLoop

\* So does adding the column of a view.
LEMMA ViewColumnAdded ==
  ASSUME NEW d, GoodFrame(d), d.failure = "none", time \in Nat, NEW v,
         v.added \in Seq({c \in Uploads : c.values # <<>>})
  PROVE  Grown(d, add_view_column(d, v))
<1>1. CASE v.added = <<>>
  <2>1. add_view_column(d, v) = d
    BY <1>1 DEF add_view_column
  <2> QED
    BY <2>1, GrownNot
<1>2. CASE v.added # <<>>
  <2> DEFINE c == v.added[1]
             n == nrows(d)
  <2>1. add_view_column(d, v) = add(d, ViewColumn(d, c))
    BY <1>2 DEF add_view_column
  <2>2. c \in Uploads /\ c.values # <<>>
    BY <1>2
  <2>3. c.values \in Seq(Int)
    BY <2>2 DEF Uploads
  <2>4. c.values[1] \in Int
    BY <2>2, <2>3
  <2>5. n \in Nat
    BY NumRowsIsNat DEF GoodFrame
  <2>6. ViewColumn(d, c) = [c EXCEPT !.values = [i \in 1..n |-> c.values[1]]]
    BY DEF ViewColumn
  <2> HIDE DEF c, n
  <2>7. [i \in 1..n |-> c.values[1]] \in Seq(Int)
    BY <2>4, <2>5
  <2>8. ViewColumn(d, c) \in Uploads
    BY <2>2, <2>6, <2>7 DEF Uploads
  <2> QED
    BY <2>1, <2>8, Added
<1> QED
  BY <1>1, <1>2

\* ViewParser::parse comes to a good frame, whatever it throws.
LEMMA Parsed ==
  ASSUME NEW d, GoodFrame(d), d.failure = "none", time \in Nat, NEW v \in Views
  PROVE  OnTopOf(d.h, parse(d, v))
<1>1. /\ v.added \in Seq({c \in Uploads : c.values # <<>>}) /\ v.dropped \in Seq(STRING)
      /\ v.subselection \in Selections
  BY DataFrameAssumption
<1> DEFINE a == add_view_column(d, v)
           b == Then(a, LAMBDA x : drop_columns(x, v))
           e == parse(d, v)
<1>2. Grown(d, a)
  BY <1>1, ViewColumnAdded
<1>3. b = IF a.failure # "none" THEN a ELSE drop_columns(a, v)
  BY DEF Then
<1>4. e = IF b.failure # "none" THEN b ELSE subselection(b, v.subselection)
  BY DEF Then, parse
<1> HIDE DEF a, b, e
<1>5. Grown(d, b)
  <2>1. CASE a.failure # "none"
    BY <1>2, <1>3, <2>1
  <2>2. CASE a.failure = "none"
    <3>1. GoodFrame(a) /\ b = drop_columns(a, v)
      BY <1>2, <1>3, <2>2 DEF Grown
    <3>2. Grown(a, b)
      BY <1>1, <2>2, <3>1, Dropped
    <3> QED
      BY <1>2, <3>2, GrownTwice
  <2> QED
    BY <2>1, <2>2
<1>6. CASE b.failure # "none"
  BY <1>4, <1>5, <1>6 DEF Grown, OnTopOf, e
<1>7. CASE b.failure = "none"
  <2>1. GoodFrame(b) /\ e = subselection(b, v.subselection)
    BY <1>4, <1>5, <1>7 DEF Grown
  <2>2. OnTopOf(b.h, e)
    BY <1>1, <2>1, Subselected
  <2>3. OnTopOf(d.h, e)
    BY <1>5, <2>2 DEF Grown, OnTopOf, Extends
  <2> QED
    BY <2>3 DEF e
<1> QED
  BY <1>6, <1>7

\* A good data frame is plausible.
LEMMA Plausible ==
  ASSUME NEW d, GoodFrame(d)
  PROVE  check_plausibility(d) = d \/ Failed(d, check_plausibility(d))
BY FailIsFailed DEF check_plausibility

\* DataFrame::clone has columns and indices of its own.
LEMMA Cloned ==
  ASSUME NEW d, GoodFrame(d), time \in Nat, NEW name \in Names
  PROVE  OfItsOwn(d.h, clone(d, name), name)
<1> DEFINE cols == ColumnsOf(d)
           all == [i \in 1..Len(cols) |-> CloneOf(cols[i])]
           a == Then(AddAll(NewFrame(name, d.h), all), create_indices)
           e == clone(d, name)
<1>1. e = IF a.failure # "none" THEN a ELSE check_plausibility(a)
  BY DEF clone, Then
<1>2. cols \in Seq(ColumnsOfLength(nrows(d)))
  BY ColumnsAreUploads
<1> HIDE DEF cols
<1>3. Len(cols) \in Nat /\ \A i \in 1..Len(cols) : cols[i] \in Uploads
  BY <1>2 DEF ColumnsOfLength
<1>4. ASSUME NEW i \in 1..Len(cols) PROVE CloneOf(cols[i]) \in Uploads
  BY <1>3 DEF CloneOf, Uploads
<1>5. all \in Seq(Uploads)
  BY <1>3, <1>4
<1> HIDE DEF all
<1>6. OfItsOwn(d.h, a, name)
  BY <1>5, IndexedTable DEF GoodFrame, Typed
<1> HIDE DEF a, e
<1>7. CASE e = a
  BY <1>6, <1>7 DEF e
<1>8. CASE Failed(a, e)
  <2>1. GoodFrame(a)
    BY <1>6 DEF OfItsOwn
  <2>2. /\ GoodFrame(e) /\ DataIds(e) = DataIds(a) /\ MapIds(e) = MapIds(a)
        /\ e.h = a.h /\ e.name_ = a.name_ /\ e.last_change_ = a.last_change_ /\ e.failure # "none"
    BY <1>8, <2>1, FailedIsGood
  <2>3. OfItsOwn(d.h, e, name)
    BY <1>6, <2>2 DEF OfItsOwn
  <2> QED
    BY <2>3 DEF e
<1>9. e = a \/ Failed(a, e)
  BY <1>1, <1>6, Plausible DEF OfItsOwn
<1> QED
  BY <1>7, <1>8, <1>9

\* DataFrameManager::from_view
LEMMA OfView ==
  ASSUME NEW d, GoodFrame(d), d.failure = "none", time \in Nat, NEW v \in Views, NEW name \in Names
  PROVE  LET e == Then(parse(d, v), LAMBDA x : clone(x, name))
         IN /\ OnTopOf(d.h, e)
            /\ e.failure = "none" => OfItsOwn(d.h, e, name)
<1> DEFINE p == parse(d, v)
           e == Then(p, LAMBDA x : clone(x, name))
<1>1. OnTopOf(d.h, p)
  BY Parsed
<1>2. e = IF p.failure # "none" THEN p ELSE clone(p, name)
  BY DEF Then
<1> HIDE DEF p, e
<1>3. CASE p.failure # "none"
  BY <1>1, <1>2, <1>3 DEF e, p
<1>4. CASE p.failure = "none"
  <2>1. GoodFrame(p) /\ e = clone(p, name)
    BY <1>1, <1>2, <1>4 DEF OnTopOf
  <2>2. OfItsOwn(p.h, e, name)
    BY <2>1, Cloned
  <2>3. OfItsOwn(d.h, e, name)
    BY <1>1, <2>2 DEF OnTopOf, OfItsOwn, Extends
  <2>4. OnTopOf(d.h, e)
    BY <2>3 DEF OnTopOf, OfItsOwn
  <2> QED
    BY <2>3, <2>4 DEF e, p
<1> QED
  BY <1>3, <1>4

-----------------------------------------------------------------------------
(* DataFrame: append *)

\* What comes behind the first n values does not matter to a map of these.
LEMMA ExactPrefix ==
  ASSUME NEW map, NEW n, NEW v, NEW w, \A j \in 1..n : w[j] = v[j], Exact(map, v, n)
  PROVE  Exact(map, w, n)
BY DEF Exact

\* Two vectors, one behind the other.
LEMMA Concatenated ==
  ASSUME NEW S, NEW v \in Seq(S), NEW w \in Seq(S)
  PROVE  /\ Len(v \o w) = Len(v) + Len(w)
         /\ \A j \in 1..Len(v) : (v \o w)[j] = v[j]
OBVIOUS

\* e is d, and only what d points to may have changed.
ChangedOwn(d, e) ==
  /\ DataIds(e) = DataIds(d) /\ MapIds(e) = MapIds(d)
  /\ DOMAIN e.h.data = DOMAIN d.h.data
  /\ \A id \in DOMAIN d.h.data : id \notin DataIds(d) => e.h.data[id] = d.h.data[id]
  /\ DOMAIN e.h.maps = DOMAIN d.h.maps
  /\ \A id \in DOMAIN d.h.maps : id \notin MapIds(d) => e.h.maps[id] = d.h.maps[id]

\* Every column is followed by that of the other frame; both are of one length.
LEMMA OtherColumn ==
  ASSUME NEW d, NEW x, GoodFrame(d), GoodFrame(x), Appendable(d, x),
         NEW r \in RoleSet, NEW i \in 1..Len(d.cols[r])
  PROVE  /\ OtherValues(x, r, d.cols[r][i].name) \in Seq(Int)
         /\ Len(OtherValues(x, r, d.cols[r][i].name)) = nrows(x)
<1> DEFINE name == d.cols[r][i].name
           k == PosOf(x, r, name)
<1>1. d.cols[r] \in Seq(ColumnRecords) /\ x.cols[r] \in Seq(ColumnRecords)
  BY DEF GoodFrame, Typed
<1>2. d.cols[r][i] \in Range(d.cols[r])
  BY <1>1 DEF Range
<1>3. has(x, r, name)
  BY <1>2 DEF Appendable
<1>4. k \in 1..Len(x.cols[r])
  BY <1>1, <1>3, PosOfFinds
<1>5. OtherValues(x, r, name) = ValuesOf(x, x.cols[r][k])
  BY DEF OtherValues
<1> HIDE DEF k, name
<1>6. ValuesOf(x, x.cols[r][k]) \in Seq(Int) /\ nrows(x) = Len(ValuesOf(x, x.cols[r][k]))
  BY <1>4, ColumnFacts, NumRows DEF GoodFrame
<1> QED
  BY <1>5, <1>6 DEF name

\* The columns of d have grown in place to a, by those of x.
GrownInPlace(d, x, a) ==
  /\ Typed(a) /\ a.cols = d.cols /\ a.indices_ = d.indices_ /\ a.h.maps = d.h.maps
  /\ a.name_ = d.name_ /\ a.failure = d.failure /\ a.frozen_ = d.frozen_
  /\ DOMAIN a.h.data = DOMAIN d.h.data
  /\ \A id \in DOMAIN d.h.data : id \notin DataIds(d) => a.h.data[id] = d.h.data[id]
  /\ \A r \in RoleSet : \A i \in 1..Len(d.cols[r]) :
       a.h.data[d.cols[r][i].data]
         = ValuesOf(d, d.cols[r][i]) \o OtherValues(x, r, d.cols[r][i].name)

\* append makes them grow.
LEMMA ColumnsGrow ==
  ASSUME NEW d, NEW x, GoodFrame(d), GoodFrame(x), Appendable(d, x)
  PROVE  GrownInPlace(d, x, AppendColumns(d, x))
<1> DEFINE At(p) == d.cols[p[1]][p[2]]
           Place(id) == CHOOSE p \in Places(d.cols) : At(p).data = id
           Longer(id) == d.h.data[id] \o OtherValues(x, Place(id)[1], At(Place(id)).name)
           D == [id \in DOMAIN d.h.data |-> IF id \in DataIds(d) THEN Longer(id) ELSE d.h.data[id]]
           H == [data |-> D, maps |-> d.h.maps]
           a == AppendColumns(d, x)
<1>1. /\ d = [name_ |-> d.name_, cols |-> d.cols, indices_ |-> d.indices_, frozen_ |-> d.frozen_,
              last_change_ |-> d.last_change_, h |-> d.h, failure |-> d.failure]
      /\ d.h = [data |-> d.h.data, maps |-> d.h.maps] /\ GoodHeap(d.h)
  BY DEF GoodFrame, Typed, GoodHeap
<1>2. a = [d EXCEPT !.h = [d.h EXCEPT !.data = D]]
  BY DEF AppendColumns, DataIds
<1>3. ASSUME NEW r \in RoleSet, NEW i \in 1..Len(d.cols[r])
      PROVE  Longer(d.cols[r][i].data) = ValuesOf(d, d.cols[r][i]) \o OtherValues(x, r, d.cols[r][i].name)
  <2> DEFINE p == <<r, i>>
             id == d.cols[r][i].data
             q == Place(id)
  <2>1. p \in Places(d.cols) /\ At(p).data = id /\ p[1] = r /\ p[2] = i
    BY PlaceFacts
  <2>2. q \in Places(d.cols) /\ At(q).data = id
    <3> HIDE DEF p, id, At
    <3> QED
      BY <2>1
  <2> HIDE DEF q
  <2>3. q[1] \in RoleSet /\ q[2] \in 1..Len(d.cols[q[1]]) /\ d.cols[q[1]][q[2]].data = d.cols[r][i].data
    BY <2>2, PlaceFacts
  <2>4. q[1] = r /\ q[2] = i
    BY <2>3, TwoColumns DEF GoodFrame
  <2>5. Longer(id) = d.h.data[id] \o OtherValues(x, q[1], d.cols[q[1]][q[2]].name)
    BY DEF q
  <2> QED
    BY <2>4, <2>5 DEF ValuesOf
<1> HIDE DEF Longer, Place, At, a
<1>4. ASSUME NEW id \in DOMAIN d.h.data, id \in DataIds(d) PROVE Longer(id) \in Seq(Int)
  <2>1. PICK r \in RoleSet : \E i \in 1..Len(d.cols[r]) : id = d.cols[r][i].data
    BY <1>4, ColumnOfId
  <2>2. PICK i \in 1..Len(d.cols[r]) : id = d.cols[r][i].data
    BY <2>1
  <2>3. Longer(id) = ValuesOf(d, d.cols[r][i]) \o OtherValues(x, r, d.cols[r][i].name)
    BY <1>3, <2>2
  <2>4. ValuesOf(d, d.cols[r][i]) \in Seq(Int) /\ OtherValues(x, r, d.cols[r][i].name) \in Seq(Int)
    BY ColumnFacts, OtherColumn DEF GoodFrame
  <2> QED
    BY <2>3, <2>4
<1>5. /\ DOMAIN D = DOMAIN d.h.data /\ D = [id \in DOMAIN D |-> D[id]]
      /\ \A id \in DOMAIN d.h.data : D[id] = IF id \in DataIds(d) THEN Longer(id) ELSE d.h.data[id]
  OBVIOUS
<1> HIDE DEF D
<1>6. [d.h EXCEPT !.data = D] = H
  BY <1>1
<1>7. H.data = D /\ H.maps = d.h.maps /\ H = [data |-> H.data, maps |-> H.maps]
  OBVIOUS
<1> HIDE DEF H
<1>8. a = [name_ |-> d.name_, cols |-> d.cols, indices_ |-> d.indices_, frozen_ |-> d.frozen_,
           last_change_ |-> d.last_change_, h |-> H, failure |-> d.failure]
  BY <1>1, <1>2, <1>6
<1>9. /\ a.cols = d.cols /\ a.indices_ = d.indices_ /\ a.h = H /\ a.name_ = d.name_
      /\ a.frozen_ = d.frozen_ /\ a.failure = d.failure /\ a.last_change_ = d.last_change_
  BY <1>8
<1>10. GoodHeap(H)
  <2>1. \A id \in DOMAIN D : D[id] \in Seq(Int)
    <3> TAKE id \in DOMAIN D
    <3>1. CASE id \in DataIds(d)
      BY <1>4, <1>5, <3>1
    <3>2. CASE id \notin DataIds(d)
      <4>1. d.h.data[id] \in Seq(Int)
        BY <1>1, <1>5 DEF GoodHeap
      <4> QED
        BY <1>5, <3>2, <4>1
    <3> QED
      BY <3>1, <3>2
  <2> QED
    BY <1>1, <1>5, <1>7, <2>1 DEF GoodHeap
<1>11. Typed(a)
  BY <1>8, <1>9, <1>10 DEF GoodFrame, Typed
<1>12. ASSUME NEW r \in RoleSet, NEW i \in 1..Len(d.cols[r])
       PROVE  D[d.cols[r][i].data] = ValuesOf(d, d.cols[r][i]) \o OtherValues(x, r, d.cols[r][i].name)
  <2>1. d.cols[r][i].data \in DOMAIN d.h.data /\ d.cols[r][i].data \in DataIds(d)
    BY ColumnFacts, IdOfColumn DEF GoodFrame
  <2> QED
    BY <1>3, <1>5, <2>1
<1>13. \A id \in DOMAIN d.h.data : id \notin DataIds(d) => D[id] = d.h.data[id]
  BY <1>5
<1> QED
  BY <1>5, <1>7, <1>9, <1>11, <1>12, <1>13 DEF a, GrownInPlace

\* Indices that point to the same maps.
LEMMA SameMaps ==
  ASSUME NEW d, NEW e, Len(e.indices_) = Len(d.indices_),
         \A i \in 1..Len(d.indices_) : e.indices_[i].map = d.indices_[i].map
  PROVE  MapIds(e) = MapIds(d)
BY DEF MapIds

\* append: the frame remains after an exception, or grows in place. All columns are
\* of one length afterwards, so that check_plausibility never fails.
LEMMA Appended ==
  ASSUME NEW d, NEW x, GoodFrame(d), GoodFrame(x), time \in Nat, d.failure = "none"
  PROVE  LET e == append_frame(d, x)
         IN \/ Failed(d, e)
            \/ /\ GoodFrame(e) /\ ChangedOwn(d, e) /\ e.name_ = d.name_ /\ e.failure = "none"
               /\ e.last_change_ = time + 1
<1> DEFINE a == AppendColumns(d, x)
           b == create_indices(a)
           e == append_frame(d, x)
<1>1. CASE d.frozen_
  BY <1>1, FailIsFailed DEF append_frame
<1>2. CASE ~ d.frozen_ /\ ~ Appendable(d, x)
  BY <1>2, FailIsFailed DEF append_frame
<1>3. CASE ~ d.frozen_ /\ Appendable(d, x)
  <2>1. e = update_last_change(check_plausibility(b))
    BY <1>3 DEF append_frame
  <2>2. /\ Typed(a) /\ a.cols = d.cols /\ a.indices_ = d.indices_ /\ a.h.maps = d.h.maps
        /\ a.name_ = d.name_ /\ a.failure = d.failure /\ a.frozen_ = d.frozen_
        /\ DOMAIN a.h.data = DOMAIN d.h.data
        /\ \A id \in DOMAIN d.h.data : id \notin DataIds(d) => a.h.data[id] = d.h.data[id]
        /\ \A r \in RoleSet : \A i \in 1..Len(d.cols[r]) :
             a.h.data[d.cols[r][i].data]
               = ValuesOf(d, d.cols[r][i]) \o OtherValues(x, r, d.cols[r][i].name)
    <3>1. GrownInPlace(d, x, a)
      BY <1>3, ColumnsGrow
    <3> HIDE DEF a
    <3> QED
      BY <3>1 DEF GrownInPlace
  <2> HIDE DEF a
  <2>3. ASSUME NEW r \in RoleSet, NEW i \in 1..Len(d.cols[r])
        PROVE  /\ Len(ValuesOf(a, d.cols[r][i])) = Len(ValuesOf(d, d.cols[r][i])) + nrows(x)
               /\ \A j \in 1..Len(ValuesOf(d, d.cols[r][i])) :
                    ValuesOf(a, d.cols[r][i])[j] = ValuesOf(d, d.cols[r][i])[j]
               /\ Len(ValuesOf(d, d.cols[r][i])) \in Nat /\ nrows(x) \in Nat
    <3> DEFINE v == ValuesOf(d, d.cols[r][i])
               w == OtherValues(x, r, d.cols[r][i].name)
    <3>1. v \in Seq(Int) /\ w \in Seq(Int) /\ Len(w) = nrows(x)
      BY <1>3, ColumnFacts, OtherColumn DEF GoodFrame
    <3>2. ValuesOf(a, d.cols[r][i]) = v \o w
      BY <2>2 DEF ValuesOf
    <3> HIDE DEF v, w
    <3>3. Len(v \o w) = Len(v) + Len(w) /\ \A j \in 1..Len(v) : (v \o w)[j] = v[j]
      BY <3>1, Concatenated
    <3>4. Len(v) \in Nat /\ Len(w) \in Nat
      BY <3>1
    <3> QED
      BY <3>1, <3>2, <3>3, <3>4 DEF v
  <2>4. GoodColumns(a)
    <3> SUFFICES ASSUME NEW r \in RoleSet, NEW s \in RoleSet,
                        NEW i \in 1..Len(d.cols[r]), NEW j \in 1..Len(d.cols[s])
                 PROVE  /\ d.cols[r][i].data \in DOMAIN d.h.data
                        /\ d.cols[r][i].data = d.cols[s][j].data => r = s /\ i = j
                        /\ d.cols[r][i].name = d.cols[s][j].name => r = s /\ i = j
                        /\ Len(ValuesOf(a, d.cols[r][i])) = Len(ValuesOf(a, d.cols[s][j]))
      <4>1. a.cols = d.cols /\ DOMAIN a.h.data = DOMAIN d.h.data
        BY <2>2
      <4> QED
        BY <4>1 DEF GoodColumns
    <3>1. /\ d.cols[r][i].data \in DOMAIN d.h.data
          /\ d.cols[r][i].data = d.cols[s][j].data => r = s /\ i = j
          /\ d.cols[r][i].name = d.cols[s][j].name => r = s /\ i = j
          /\ Len(ValuesOf(d, d.cols[r][i])) = Len(ValuesOf(d, d.cols[s][j]))
      BY TwoColumns DEF GoodFrame
    <3>2. Len(ValuesOf(a, d.cols[r][i])) = Len(ValuesOf(d, d.cols[r][i])) + nrows(x)
      BY <2>3
    <3>3. Len(ValuesOf(a, d.cols[s][j])) = Len(ValuesOf(d, d.cols[s][j])) + nrows(x)
      BY <2>3
    <3>4. Len(ValuesOf(a, d.cols[r][i])) = Len(ValuesOf(a, d.cols[s][j]))
      BY <3>1, <3>2, <3>3
    <3> QED
      BY <3>1, <3>4
  <2>5. Len(d.indices_) = Len(d.cols["join_key"])
    BY DEF GoodFrame, GoodIndices
  <2>6. GoodIndices(a)
    <3> SUFFICES ASSUME NEW i \in 1..Len(d.indices_)
                 PROVE  /\ d.indices_[i].map \in DOMAIN d.h.maps
                        /\ d.indices_[i].begin_ <= Len(KeyValues(a, i))
                        /\ d.indices_[i].own =>
                             /\ \A j \in 1..Len(d.indices_) : d.indices_[i].map = d.indices_[j].map => i = j
                             /\ Exact(d.h.maps[d.indices_[i].map], KeyValues(a, i), d.indices_[i].begin_)
      BY <2>2, <2>5 DEF GoodIndices
    <3>1. /\ d.indices_[i].map \in DOMAIN d.h.maps
          /\ d.indices_[i].begin_ = Len(KeyValues(d, i))
          /\ d.indices_[i].own =>
               /\ \A j \in 1..Len(d.indices_) : d.indices_[i].map = d.indices_[j].map => i = j
               /\ Exact(d.h.maps[d.indices_[i].map], KeyValues(d, i), d.indices_[i].begin_)
      BY DEF GoodFrame, GoodIndices, Complete
    <3>2. /\ Len(KeyValues(a, i)) = Len(KeyValues(d, i)) + nrows(x)
          /\ \A j \in 1..Len(KeyValues(d, i)) : KeyValues(a, i)[j] = KeyValues(d, i)[j]
          /\ Len(KeyValues(d, i)) \in Nat /\ nrows(x) \in Nat
      <4>1. KeyValues(a, i) = ValuesOf(a, d.cols["join_key"][i])
        BY <2>2 DEF KeyValues
      <4>2. KeyValues(d, i) = ValuesOf(d, d.cols["join_key"][i]) /\ i \in 1..Len(d.cols["join_key"])
        BY <2>5 DEF KeyValues
      <4> QED
        BY <2>3, <4>1, <4>2, JoinKeyIsRole
    <3>3. Len(KeyValues(d, i)) <= Len(KeyValues(a, i))
      BY <3>2
    <3> QED
      BY <3>1, <3>2, <3>3, ExactPrefix
  <2>7. GoodFrame(b) /\ Reindexed(a, b)
    BY <2>2, <2>4, <2>6, CreateIndices
  <2> HIDE DEF b
  <2>8. check_plausibility(b) = b
    <3> SUFFICES ASSUME NEW c \in AllColumns(b) PROVE Len(ValuesOf(b, c)) = nrows(b)
      BY DEF check_plausibility
    <3>1. PICK r \in RoleSet : c \in Range(b.cols[r])
      BY DEF AllColumns
    <3>2. b.cols[r] \in Seq(ColumnRecords)
      BY <2>7 DEF GoodFrame, Typed
    <3>3. PICK i \in 1..Len(b.cols[r]) : c = b.cols[r][i]
      BY <3>1, <3>2 DEF Range
    <3> QED
      BY <2>7, <3>3, NumRows DEF GoodFrame
  <2>9. /\ GoodFrame(e) /\ DataIds(e) = DataIds(b) /\ MapIds(e) = MapIds(b)
        /\ e.h = b.h /\ e.name_ = b.name_ /\ e.last_change_ = time + 1 /\ e.failure = b.failure
    BY <2>1, <2>7, <2>8, Stamped
  <2> HIDE DEF e
  <2>10. DataIds(b) = DataIds(d)
    <3>1. b.cols = d.cols
      BY <2>2, <2>7 DEF Reindexed
    <3> QED
      BY <3>1 DEF DataIds
  <2>11. MapIds(b) = MapIds(d)
    <3>1. a.indices_ = d.indices_
      BY <2>2
    <3>2. /\ Len(b.indices_) = Len(d.indices_)
          /\ \A i \in 1..Len(d.indices_) : b.indices_[i].map = d.indices_[i].map
      BY <2>7, <3>1 DEF Reindexed
    <3> QED
      BY <3>2, SameMaps
  <2>12. ASSUME NEW m \in DOMAIN d.h.maps, m \notin MapIds(d)
         PROVE  b.h.maps[m] = d.h.maps[m]
    <3>1. \A i \in 1..Len(a.indices_) : a.indices_[i].map # m
      BY <2>2, <2>12 DEF MapIds
    <3> QED
      BY <2>2, <2>7, <2>12, <3>1 DEF Reindexed
  <2>13. ChangedOwn(d, e)
    BY <2>2, <2>7, <2>9, <2>10, <2>11, <2>12 DEF Reindexed, ChangedOwn
  <2> QED
    BY <2>2, <2>7, <2>9, <2>13 DEF Reindexed, e
<1> QED
  BY <1>1, <1>2, <1>3

-----------------------------------------------------------------------------
(* DataFrame: save and load *)

\* The frame x has the columns of saved, with data of their own.
HasFiles(h, x, saved) ==
  /\ Typed(x) /\ x.indices_ = <<>> /\ x.h.maps = h.maps
  /\ DOMAIN h.data \subseteq DOMAIN x.h.data /\ \A i \in DOMAIN h.data : x.h.data[i] = h.data[i]
  /\ \A r \in RoleSet : /\ Len(x.cols[r]) = Len(saved.cols[r])
                        /\ \A i \in 1..Len(saved.cols[r]) :
                             /\ x.cols[r][i].name = saved.cols[r][i].name
                             /\ x.cols[r][i].data \in DOMAIN x.h.data
                             /\ x.cols[r][i].data \in Nat \ DOMAIN h.data
                             /\ ValuesOf(x, x.cols[r][i]) = saved.cols[r][i].values
  /\ \A r, s \in RoleSet : \A i \in 1..Len(saved.cols[r]), j \in 1..Len(saved.cols[s]) :
       x.cols[r][i].data = x.cols[s][j].data => r = s /\ i = j

\* The frame into which the columns are loaded, with what the files say of it.
FilesOf(name, h, saved) ==
  [load_columns(NewFrame(name, h), saved.cols) EXCEPT !.frozen_ = saved.frozen_,
                                                      !.last_change_ = saved.last_change_]

\* A column that is loaded from its file.
LEMMA FileColumns ==
  ASSUME NEW saved \in SavedRecords, NEW r \in RoleSet
  PROVE  /\ Len(saved.cols[r]) \in Nat
         /\ \A i \in 1..Len(saved.cols[r]) :
              /\ saved.cols[r][i].name \in STRING /\ saved.cols[r][i].unit \in Units
              /\ saved.cols[r][i].values \in Seq(Int)
<1> DEFINE S == [name : STRING, unit : Units, values : Seq(Int)]
<1>1. saved.cols[r] \in Seq(S)
  BY DEF SavedRecords
<1>2. \A c \in S : c.name \in STRING /\ c.unit \in Units /\ c.values \in Seq(Int)
  OBVIOUS
<1> HIDE DEF S
<1> QED
  BY <1>1, <1>2

\* The record of the data frame that holds the files, with the saved marks.
LEMMA FilesMarked ==
  ASSUME NEW n, NEW C, NEW I, NEW f, NEW t, NEW h, NEW w, NEW F, NEW T,
         NEW d, d = [name_ |-> n, cols |-> C, indices_ |-> I, frozen_ |-> f, last_change_ |-> t, h |-> h,
                     failure |-> w],
         NEW e, e = [d EXCEPT !.frozen_ = F, !.last_change_ = T]
  PROVE  e = [name_ |-> n, cols |-> C, indices_ |-> I, frozen_ |-> F, last_change_ |-> T, h |-> h,
              failure |-> w]
OBVIOUS

\* Loading gives the columns of the files, with data of their own.
LEMMA FilesLoaded ==
  ASSUME NEW name \in Names, NEW h, GoodHeap(h), time \in Nat, NEW saved \in SavedRecords
  PROVE  /\ HasFiles(h, FilesOf(name, h, saved), saved)
         /\ FilesOf(name, h, saved).name_ = name /\ FilesOf(name, h, saved).failure = "none"
         /\ FilesOf(name, h, saved).last_change_ = saved.last_change_
<1> DEFINE d == NewFrame(name, h)
           P == Places(saved.cols)
           id == FreshIds(d.h.data, P)
           Place(i) == CHOOSE p \in P : id[p] = i
           File(p) == saved.cols[p[1]][p[2]]
           D == [i \in DOMAIN d.h.data \cup Range(id) |->
                   IF i \in DOMAIN d.h.data THEN d.h.data[i] ELSE File(Place(i)).values]
           C == [r \in RoleSet |-> [i \in 1..Len(saved.cols[r]) |->
                   LoadedColumn(saved.cols[r][i], id[<<r, i>>])]]
           H == [data |-> D, maps |-> d.h.maps]
           x == FilesOf(name, h, saved)
<1>1. /\ d = [name_ |-> name, cols |-> [r \in RoleSet |-> <<>>], indices_ |-> <<>>,
              frozen_ |-> FALSE, last_change_ |-> time + 1, h |-> h, failure |-> "none"]
      /\ h = [data |-> h.data, maps |-> h.maps]
  BY DEF NewFrame, GoodHeap
<1> HIDE DEF d
<1>2. d.h = h /\ GoodHeap(d.h) /\ d.h = [data |-> d.h.data, maps |-> d.h.maps]
  BY <1>1
<1>3. load_columns(d, saved.cols) = [d EXCEPT !.cols = C, !.h = [d.h EXCEPT !.data = D]]
  BY DEF load_columns
<1>4. IsFiniteSet(P)
  <2>1. saved.cols \in [RoleSet -> Seq([name : STRING, unit : Units, values : Seq(Int)])]
    BY DEF SavedRecords
  <2> QED
    BY <2>1, PlacesFinite
<1>5. /\ id \in [P -> Nat] /\ \A p \in P : id[p] \notin DOMAIN d.h.data
      /\ \A p, q \in P : id[p] = id[q] => p = q
  <2>1. IsFiniteSet(DOMAIN d.h.data)
    BY <1>2 DEF GoodHeap
  <2> HIDE DEF P
  <2> QED
    BY <1>4, <2>1, FreshIdsAreNew
<1> HIDE DEF id, P
<1>6. \A p \in P : Place(id[p]) = p
  <2> SUFFICES ASSUME NEW p \in P PROVE Place(id[p]) = p
    OBVIOUS
  <2>1. Place(id[p]) \in P /\ id[Place(id[p])] = id[p]
    OBVIOUS
  <2> HIDE DEF Place
  <2> QED
    BY <1>5, <2>1
<1>7. Range(id) = {id[p] : p \in P}
  BY <1>5 DEF Range
<1>8. \A p \in P : p[1] \in RoleSet /\ p[2] \in 1..Len(saved.cols[p[1]])
  BY PlaceFacts DEF P
<1>9. \A p \in P : File(p).values \in Seq(Int)
  BY <1>8, FileColumns
<1> HIDE DEF Place, File
<1>10. /\ DOMAIN D = DOMAIN d.h.data \cup Range(id) /\ D = [i \in DOMAIN D |-> D[i]]
       /\ \A i \in DOMAIN d.h.data : D[i] = d.h.data[i]
       /\ \A p \in P : id[p] \in DOMAIN D /\ D[id[p]] = File(p).values
  <2>1. /\ DOMAIN D = DOMAIN d.h.data \cup Range(id) /\ D = [i \in DOMAIN D |-> D[i]]
        /\ \A i \in DOMAIN d.h.data : D[i] = d.h.data[i]
    OBVIOUS
  <2>2. ASSUME NEW p \in P PROVE id[p] \in DOMAIN D /\ D[id[p]] = File(p).values
    <3>1. id[p] \in Range(id) /\ id[p] \notin DOMAIN d.h.data /\ Place(id[p]) = p
      BY <1>5, <1>6, <1>7
    <3> QED
      BY <3>1
  <2> QED
    BY <2>1, <2>2
<1> HIDE DEF D
<1>11. GoodHeap(H)
  <2>1. IsFiniteSet(Range(id))
    <3>1. id \in Surjection(P, Range(id))
      BY <1>5, <1>7 DEF Surjection
    <3> QED
      BY <1>4, <3>1, FS_Surjection
  <2>2. IsFiniteSet(DOMAIN d.h.data)
    BY <1>2 DEF GoodHeap
  <2>3. IsFiniteSet(DOMAIN D)
    <3>1. IsFiniteSet(DOMAIN d.h.data \cup Range(id))
      BY <2>1, <2>2, FS_Union
    <3> QED
      BY <1>10, <3>1
  <2>4. DOMAIN D \subseteq Nat
    BY <1>2, <1>5, <1>7, <1>10 DEF GoodHeap
  <2>5. \A i \in DOMAIN D : D[i] \in Seq(Int)
    <3> TAKE i \in DOMAIN D
    <3>1. CASE i \in DOMAIN d.h.data
      BY <1>2, <1>10, <3>1 DEF GoodHeap
    <3>2. CASE i \notin DOMAIN d.h.data
      <4>1. PICK p \in P : i = id[p]
        BY <1>7, <1>10, <3>2
      <4> QED
        BY <1>9, <1>10, <4>1
    <3> QED
      BY <3>1, <3>2
  <2>6. H.data = D /\ H.maps = d.h.maps /\ H = [data |-> H.data, maps |-> H.maps]
    OBVIOUS
  <2> HIDE DEF H
  <2> QED
    BY <1>2, <1>10, <2>3, <2>4, <2>5, <2>6 DEF GoodHeap
<1>12. ASSUME NEW r \in RoleSet, NEW i \in 1..Len(saved.cols[r])
       PROVE  /\ <<r, i>> \in P /\ id[<<r, i>>] \in Nat
              /\ C[r][i] = LoadedColumn(saved.cols[r][i], id[<<r, i>>])
              /\ C[r][i] \in ColumnRecords /\ C[r][i].name = saved.cols[r][i].name
              /\ C[r][i].data = id[<<r, i>>]
              /\ D[id[<<r, i>>]] = saved.cols[r][i].values
  <2>1. <<r, i>> \in P
    BY PlaceFacts DEF P
  <2>2. id[<<r, i>>] \in Nat
    BY <1>5, <2>1
  <2>3. C[r][i] = LoadedColumn(saved.cols[r][i], id[<<r, i>>])
    OBVIOUS
  <2> HIDE DEF C
  <2>4. saved.cols[r][i].name \in STRING /\ saved.cols[r][i].unit \in Units
    BY FileColumns
  <2>5. /\ C[r][i] \in ColumnRecords /\ C[r][i].name = saved.cols[r][i].name
        /\ C[r][i].data = id[<<r, i>>]
    BY <2>2, <2>3, <2>4 DEF LoadedColumn, ColumnRecords
  <2>6. D[id[<<r, i>>]] = saved.cols[r][i].values
    BY <1>10, <2>1 DEF File
  <2> QED
    BY <2>1, <2>2, <2>3, <2>5, <2>6
<1>13. /\ C \in [RoleSet -> Seq(ColumnRecords)]
       /\ \A r \in RoleSet : Len(C[r]) = Len(saved.cols[r])
  <2> SUFFICES ASSUME NEW r \in RoleSet
               PROVE  C[r] \in Seq(ColumnRecords) /\ Len(C[r]) = Len(saved.cols[r])
    OBVIOUS
  <2>1. Len(saved.cols[r]) \in Nat
    BY FileColumns
  <2>2. C[r] = [i \in 1..Len(saved.cols[r]) |-> LoadedColumn(saved.cols[r][i], id[<<r, i>>])]
    OBVIOUS
  <2>3. \A i \in 1..Len(saved.cols[r]) : LoadedColumn(saved.cols[r][i], id[<<r, i>>]) \in ColumnRecords
    BY <1>12
  <2> HIDE DEF C
  <2> QED
    BY <2>1, <2>2, <2>3
<1> HIDE DEF C
<1>14. [d.h EXCEPT !.data = D] = H
  BY <1>2
<1> HIDE DEF H
<1>15. x = [name_ |-> name, cols |-> C, indices_ |-> <<>>, frozen_ |-> saved.frozen_,
            last_change_ |-> saved.last_change_, h |-> H, failure |-> "none"]
  <2> DEFINE y == load_columns(d, saved.cols)
  <2>1. y = [name_ |-> name, cols |-> C, indices_ |-> <<>>, frozen_ |-> FALSE,
             last_change_ |-> time + 1, h |-> H, failure |-> "none"]
    BY <1>1, <1>3, <1>14
  <2>2. x = [y EXCEPT !.frozen_ = saved.frozen_, !.last_change_ = saved.last_change_]
    BY DEF FilesOf, d
  <2> HIDE DEF x, y
  <2> QED
    BY <2>1, <2>2, FilesMarked
<1> HIDE DEF x
<1>16. /\ x.cols = C /\ x.indices_ = <<>> /\ x.h = H /\ x.name_ = name
       /\ x.frozen_ = saved.frozen_ /\ x.failure = "none" /\ x.last_change_ = saved.last_change_
  BY <1>15
<1>17. x.h.data = D /\ x.h.maps = h.maps
  BY <1>2, <1>16 DEF H
<1>18. Typed(x)
  <2>1. saved.frozen_ \in BOOLEAN /\ saved.last_change_ \in Nat
    BY DEF SavedRecords
  <2>2. x.indices_ \in Seq(IndexRecords)
    BY <1>16
  <2> QED
    BY <1>11, <1>13, <1>15, <1>16, <2>1, <2>2 DEF Typed
<1>19. ASSUME NEW r \in RoleSet, NEW i \in 1..Len(saved.cols[r])
       PROVE  /\ x.cols[r][i].name = saved.cols[r][i].name
              /\ x.cols[r][i].data \in DOMAIN x.h.data
              /\ x.cols[r][i].data \in Nat \ DOMAIN h.data
              /\ ValuesOf(x, x.cols[r][i]) = saved.cols[r][i].values
  <2> DEFINE p == <<r, i>>
  <2>1. /\ p \in P /\ id[p] \in Nat /\ C[r][i].name = saved.cols[r][i].name
        /\ C[r][i].data = id[p] /\ D[id[p]] = saved.cols[r][i].values
    BY <1>12
  <2> HIDE DEF p
  <2>2. id[p] \notin DOMAIN h.data /\ id[p] \in DOMAIN D
    BY <1>2, <1>5, <1>10, <2>1
  <2> QED
    <3>1. x.cols[r][i].name = saved.cols[r][i].name /\ x.cols[r][i].data = id[p]
      BY <1>16, <2>1
    <3>2. ValuesOf(x, x.cols[r][i]) = D[id[p]]
      BY <1>17, <3>1 DEF ValuesOf
    <3>3. x.cols[r][i].data \in DOMAIN x.h.data
      BY <1>17, <2>2, <3>1
    <3>4. x.cols[r][i].data \in Nat \ DOMAIN h.data
      BY <2>1, <2>2, <3>1
    <3> QED
      BY <2>1, <3>1, <3>2, <3>3, <3>4
<1>20. ASSUME NEW r \in RoleSet, NEW s \in RoleSet,
              NEW i \in 1..Len(saved.cols[r]), NEW j \in 1..Len(saved.cols[s]),
              x.cols[r][i].data = x.cols[s][j].data
       PROVE  r = s /\ i = j
  <2>1. id[<<r, i>>] = id[<<s, j>>] /\ <<r, i>> \in P /\ <<s, j>> \in P
    BY <1>12, <1>16, <1>20
  <2>2. <<r, i>> = <<s, j>>
    BY <1>5, <2>1
  <2> QED
    BY <2>2
<1>21. HasFiles(h, x, saved)
  BY <1>2, <1>10, <1>13, <1>16, <1>17, <1>18, <1>19, <1>20 DEF HasFiles
<1> QED
  BY <1>16, <1>21 DEF x

\* The loaded columns are good once they are plausible.
LEMMA FilesAreGood ==
  ASSUME NEW h, NEW x, NEW saved \in SavedRecords, HasFiles(h, x, saved), DifferentNames(saved),
         \A c \in AllColumns(x) : Len(ValuesOf(x, c)) = nrows(x)
  PROVE  GoodColumns(x)
<1> SUFFICES ASSUME NEW r \in RoleSet, NEW s \in RoleSet,
                    NEW i \in 1..Len(x.cols[r]), NEW j \in 1..Len(x.cols[s])
             PROVE  /\ x.cols[r][i].data \in DOMAIN x.h.data
                    /\ x.cols[r][i].data = x.cols[s][j].data => r = s /\ i = j
                    /\ x.cols[r][i].name = x.cols[s][j].name => r = s /\ i = j
                    /\ Len(ValuesOf(x, x.cols[r][i])) = Len(ValuesOf(x, x.cols[s][j]))
  BY DEF GoodColumns
<1>1. i \in 1..Len(saved.cols[r]) /\ j \in 1..Len(saved.cols[s])
  BY DEF HasFiles
<1>2. /\ x.cols[r][i].data \in DOMAIN x.h.data
      /\ x.cols[r][i].data = x.cols[s][j].data => r = s /\ i = j
  BY <1>1 DEF HasFiles
<1>3. x.cols[r][i].name = x.cols[s][j].name => r = s /\ i = j
  <2>1. x.cols[r][i].name = saved.cols[r][i].name /\ x.cols[s][j].name = saved.cols[s][j].name
    BY <1>1 DEF HasFiles
  <2>2. saved.cols[r][i].name = saved.cols[s][j].name => r = s /\ i = j
    BY <1>1 DEF DifferentNames
  <2> QED
    BY <2>1, <2>2
<1>4. \A t \in RoleSet : \A k \in 1..Len(x.cols[t]) : x.cols[t][k] \in AllColumns(x)
  <2> SUFFICES ASSUME NEW t \in RoleSet, NEW k \in 1..Len(x.cols[t])
               PROVE  x.cols[t][k] \in AllColumns(x)
    OBVIOUS
  <2>1. x.cols[t] \in Seq(ColumnRecords)
    BY DEF HasFiles, Typed
  <2>2. x.cols[t][k] \in Range(x.cols[t])
    BY <2>1 DEF Range
  <2> QED
    BY <2>2 DEF AllColumns
<1>5. Len(ValuesOf(x, x.cols[r][i])) = nrows(x) /\ Len(ValuesOf(x, x.cols[s][j])) = nrows(x)
  BY <1>4
<1> QED
  BY <1>2, <1>3, <1>5

\* The copies of one new index share its map; a single one has it for itself.
LEMMA SizedIsGood ==
  ASSUME NEW x, Typed(x), GoodColumns(x), x.indices_ = <<>>
  PROVE  LET s == SizedIndices(x)
         IN /\ Typed(s) /\ GoodColumns(s) /\ GoodIndices(s)
            /\ s.cols = x.cols /\ s.h.data = x.h.data /\ s.name_ = x.name_ /\ s.failure = x.failure
            /\ s.last_change_ = x.last_change_
            /\ DOMAIN x.h.maps \subseteq DOMAIN s.h.maps
            /\ \A m \in DOMAIN x.h.maps : s.h.maps[m] = x.h.maps[m]
            /\ MapIds(s) \subseteq Nat \ DOMAIN x.h.maps
            /\ create_indices(x) = create_indices(s)
<1> DEFINE N == Len(x.cols["join_key"])
           m == Fresh(x.h.maps)
           X == [i \in 1..N |-> NewIndex(x.h, N = 1)]
           M == With(x.h.maps, m, << >>)
           H == WithMap(x.h)
           s == SizedIndices(x)
<1>1. N \in Nat
  BY JoinKeyIsRole DEF Typed
<1>2. create_indices(x) = create_indices(s)
  <2>1. Len(s.indices_) = Len(s.cols["join_key"])
    <3>1. CASE Len(x.indices_) = Len(x.cols["join_key"])
      BY <3>1 DEF SizedIndices
    <3>2. CASE Len(x.indices_) # Len(x.cols["join_key"])
      <4>1. s = [x EXCEPT !.indices_ = X, !.h = H]
        BY <3>2 DEF SizedIndices
      <4>2. x = [name_ |-> x.name_, cols |-> x.cols, indices_ |-> x.indices_, frozen_ |-> x.frozen_,
                 last_change_ |-> x.last_change_, h |-> x.h, failure |-> x.failure]
        BY DEF Typed
      <4>3. Len(X) = N
        BY <1>1
      <4> HIDE DEF s, X, H
      <4>4. s.indices_ = X /\ s.cols = x.cols
        BY <4>1, <4>2
      <4> QED
        BY <4>3, <4>4
    <3> QED
      BY <3>1, <3>2
  <2>2. SizedIndices(s) = s
    BY <2>1 DEF SizedIndices
  <2> HIDE DEF s
  <2>3. create_indices(x) = create_indices(s)
    BY <2>2 DEF create_indices, s
  <2> QED
    BY <2>3 DEF s
<1>3. CASE N = 0
  <2>1. s = x
    BY <1>3 DEF SizedIndices
  <2>2. \A i : i \notin 1..Len(x.indices_)
    OBVIOUS
  <2>3. GoodIndices(x)
    BY <1>3, <2>2 DEF GoodIndices
  <2>4. MapIds(x) = {}
    BY <2>2 DEF MapIds
  <2> QED
    BY <1>2, <2>1, <2>3, <2>4
<1>4. CASE N # 0
  <2>1. s = [x EXCEPT !.indices_ = X, !.h = H]
    BY <1>4 DEF SizedIndices
  <2>2. /\ x = [name_ |-> x.name_, cols |-> x.cols, indices_ |-> x.indices_, frozen_ |-> x.frozen_,
                last_change_ |-> x.last_change_, h |-> x.h, failure |-> x.failure]
        /\ x.h = [data |-> x.h.data, maps |-> x.h.maps] /\ GoodHeap(x.h)
    BY DEF Typed, GoodHeap
  <2>3. m \in Nat /\ m \notin DOMAIN x.h.maps
    BY <2>2, FreshIsNew DEF GoodHeap
  <2>4. M = [y \in DOMAIN x.h.maps \cup {m} |-> IF y = m THEN << >> ELSE x.h.maps[y]]
    BY DEF With
  <2>5. H = [data |-> x.h.data, maps |-> M]
    BY <2>2 DEF WithMap
  <2>6. NewIndex(x.h, N = 1) = [begin_ |-> 0, map |-> m, own |-> (N = 1)]
    BY DEF NewIndex
  <2> HIDE DEF m, M, H, s
  <2>7. /\ DOMAIN M = DOMAIN x.h.maps \cup {m} /\ M[m] = << >>
        /\ \A y \in DOMAIN x.h.maps : M[y] = x.h.maps[y]
        /\ M = [y \in DOMAIN M |-> M[y]]
    BY <2>3, <2>4
  <2>8. /\ X \in Seq(IndexRecords) /\ Len(X) = N
        /\ \A i \in 1..N : X[i] = [begin_ |-> 0, map |-> m, own |-> (N = 1)]
    <3>1. NewIndex(x.h, N = 1) \in IndexRecords
      <4> DEFINE one == N = 1
                 index == NewIndex(x.h, N = 1)
      <4>1. index = [begin_ |-> 0, map |-> m, own |-> one] /\ one \in BOOLEAN
        BY <2>6
      <4>2. m \in Nat /\ 0 \in Nat
        BY <2>3
      <4> HIDE DEF one, index
      <4>3. index \in [begin_ : Nat, map : Nat, own : BOOLEAN]
        BY <4>1, <4>2
      <4> QED
        BY <4>3 DEF IndexRecords, index
    <3>2. N \in Nat
      BY <1>1
    <3>3. X = [i \in 1..N |-> NewIndex(x.h, N = 1)]
      OBVIOUS
    <3> HIDE DEF X, N
    <3>4. X \in Seq(IndexRecords) /\ Len(X) = N /\ \A i \in 1..N : X[i] = NewIndex(x.h, N = 1)
      BY <3>1, <3>2, <3>3
    <3> QED
      BY <2>6, <3>4
  <2> HIDE DEF X, N
  <2>9. s = [name_ |-> x.name_, cols |-> x.cols, indices_ |-> X, frozen_ |-> x.frozen_,
             last_change_ |-> x.last_change_, h |-> H, failure |-> x.failure]
    BY <2>1, <2>2, IndicesChanged
  <2>10. /\ s.cols = x.cols /\ s.indices_ = X /\ s.h = H /\ s.name_ = x.name_
         /\ s.frozen_ = x.frozen_ /\ s.failure = x.failure /\ s.last_change_ = x.last_change_
    BY <2>9
  <2>11. s.h.data = x.h.data /\ s.h.maps = M /\ s.h = [data |-> s.h.data, maps |-> s.h.maps]
    BY <2>5, <2>10
  <2>12. GoodHeap(s.h)
    <3>1. IsFiniteSet(DOMAIN x.h.maps \cup {m})
      <4>1. IsFiniteSet(DOMAIN x.h.maps)
        BY <2>2 DEF GoodHeap
      <4> QED
        BY <4>1, FS_AddElement
    <3>2. DOMAIN M \subseteq Nat /\ IsFiniteSet(DOMAIN M)
      BY <2>2, <2>3, <2>7, <3>1 DEF GoodHeap
    <3> QED
      BY <2>2, <2>7, <2>11, <3>2 DEF GoodHeap
  <2>13. Typed(s)
    BY <2>8, <2>9, <2>10, <2>12 DEF Typed
  <2>14. GoodColumns(s)
    <3>1. \A c : ValuesOf(s, c) = ValuesOf(x, c)
      BY <2>11 DEF ValuesOf
    <3> QED
      BY <2>10, <2>11, <3>1 DEF GoodColumns
  <2>15. ASSUME NEW i \in 1..N PROVE KeyValues(s, i) \in Seq(Int) /\ Len(KeyValues(s, i)) \in Nat
    <3>1. i \in 1..Len(s.cols["join_key"])
      BY <2>10 DEF N
    <3> QED
      BY <2>13, <2>14, <3>1, ColumnFacts, JoinKeyIsRole DEF KeyValues
  <2>16. GoodIndices(s)
    <3> SUFFICES ASSUME NEW i \in 1..N
                 PROVE  /\ s.indices_[i].map \in DOMAIN s.h.maps
                        /\ s.indices_[i].begin_ <= Len(KeyValues(s, i))
                        /\ s.indices_[i].own =>
                             /\ \A j \in 1..N : s.indices_[i].map = s.indices_[j].map => i = j
                             /\ Exact(s.h.maps[s.indices_[i].map], KeyValues(s, i), s.indices_[i].begin_)
      BY <2>8, <2>10 DEF GoodIndices, N
    <3>1. s.indices_[i] = [begin_ |-> 0, map |-> m, own |-> (N = 1)] /\ s.h.maps[m] = << >> /\ m \in DOMAIN s.h.maps
      BY <2>7, <2>8, <2>10, <2>11
    <3>2. Exact(s.h.maps[s.indices_[i].map], KeyValues(s, i), 0)
      BY <3>1, EmptyMap
    <3>3. s.indices_[i].own => \A j \in 1..N : i = j
      <4>1. s.indices_[i].own = (N = 1)
        BY <3>1
      <4>2. N = 1 => \A j \in 1..N : i = j
        BY <1>1
      <4> QED
        BY <4>1, <4>2
    <3>4. s.indices_[i].begin_ = 0 /\ s.indices_[i].map = m
      BY <3>1
    <3>5. s.indices_[i].begin_ <= Len(KeyValues(s, i))
      BY <2>15, <3>4
    <3> QED
      BY <3>1, <3>2, <3>3, <3>4, <3>5
  <2>17. MapIds(s) \subseteq Nat \ DOMAIN x.h.maps
    BY <2>3, <2>8, <2>10 DEF MapIds
  <2>18. /\ DOMAIN x.h.maps \subseteq DOMAIN s.h.maps
         /\ \A y \in DOMAIN x.h.maps : s.h.maps[y] = x.h.maps[y]
    BY <2>7, <2>11
  <2> QED
    BY <1>2, <2>10, <2>11, <2>13, <2>14, <2>16, <2>17, <2>18 DEF s
<1> QED
  BY <1>3, <1>4

\* What loading a data frame comes to: the content that was saved, under its time.
LoadedAs(h, e, name, saved) ==
  /\ GoodFrame(e) /\ Extends(h, e.h)
  /\ DataIds(e) \subseteq Nat \ DOMAIN h.data /\ MapIds(e) \subseteq Nat \ DOMAIN h.maps
  /\ e.name_ = name /\ e.last_change_ = saved.last_change_ /\ Content(e) = SavedContent(saved)

\* Loading gives the content that was saved, under its time, or an exception.
LEMMA Loaded ==
  ASSUME NEW name \in Names, NEW h, GoodHeap(h), time \in Nat, NEW saved \in SavedRecords,
         DifferentNames(saved)
  PROVE  LET e == load(name, h, saved)
         IN /\ GoodHeap(e.h) /\ Extends(h, e.h)
            /\ e.failure = "none" => LoadedAs(h, e, name, saved)
<1> DEFINE x == FilesOf(name, h, saved)
           p == check_plausibility(x)
           e == load(name, h, saved)
<1>1. /\ HasFiles(h, x, saved) /\ x.name_ = name /\ x.failure = "none"
      /\ x.last_change_ = saved.last_change_
  BY FilesLoaded
<1>2. e = IF p.failure # "none" THEN p ELSE create_indices(p)
  BY DEF load, Then, FilesOf
<1> HIDE DEF x, e
<1>3. Typed(x) /\ x.indices_ = <<>> /\ x.h.maps = h.maps
  BY <1>1 DEF HasFiles
<1>4. Extends(h, x.h) /\ GoodHeap(x.h)
  BY <1>1 DEF HasFiles, Extends, Typed
<1>5. CASE ~ \A c \in AllColumns(x) : Len(ValuesOf(x, c)) = nrows(x)
  <2>1. p = [x EXCEPT !.failure = "number of rows"]
    BY <1>5 DEF check_plausibility, Fail
  <2>2. x = [name_ |-> x.name_, cols |-> x.cols, indices_ |-> x.indices_, frozen_ |-> x.frozen_,
             last_change_ |-> x.last_change_, h |-> x.h, failure |-> x.failure]
    BY <1>3 DEF Typed
  <2> HIDE DEF p
  <2>3. p.h = x.h /\ p.failure = "number of rows"
    BY <2>1, <2>2
  <2>4. e.h = x.h /\ e.failure # "none"
    BY <1>2, <2>3
  <2> QED
    BY <1>4, <2>4 DEF e
<1>6. CASE \A c \in AllColumns(x) : Len(ValuesOf(x, c)) = nrows(x)
  <2>1. p = x
    BY <1>6 DEF check_plausibility
  <2> DEFINE s == SizedIndices(x)
  <2>2. GoodColumns(x)
    BY <1>1, <1>6, FilesAreGood
  <2>4. /\ Typed(s) /\ GoodColumns(s) /\ GoodIndices(s)
        /\ s.cols = x.cols /\ s.h.data = x.h.data /\ s.name_ = x.name_ /\ s.failure = x.failure
        /\ s.last_change_ = x.last_change_
        /\ DOMAIN x.h.maps \subseteq DOMAIN s.h.maps
        /\ \A m \in DOMAIN x.h.maps : s.h.maps[m] = x.h.maps[m]
        /\ MapIds(s) \subseteq Nat \ DOMAIN x.h.maps
        /\ create_indices(x) = create_indices(s)
    BY <1>3, <2>2, SizedIsGood
  <2> HIDE DEF s, p
  <2>5. e = create_indices(s)
    BY <1>1, <1>2, <2>1, <2>4
  <2>6. GoodFrame(e) /\ Reindexed(s, e)
    BY <2>4, <2>5, CreateIndices
  <2>7. Extends(h, e.h)
    <3>1. DOMAIN h.data \subseteq DOMAIN e.h.data /\ \A i \in DOMAIN h.data : e.h.data[i] = h.data[i]
      BY <1>4, <2>4, <2>6 DEF Reindexed, Extends
    <3>2. DOMAIN h.maps \subseteq DOMAIN e.h.maps
      BY <1>3, <2>4, <2>6 DEF Reindexed
    <3>3. ASSUME NEW m \in DOMAIN h.maps PROVE e.h.maps[m] = h.maps[m]
      <4>1. \A i \in 1..Len(s.indices_) : s.indices_[i].map # m
        BY <1>3, <2>4, <3>3 DEF MapIds
      <4>2. e.h.maps[m] = s.h.maps[m]
        BY <1>3, <2>4, <2>6, <3>3, <4>1 DEF Reindexed
      <4> QED
        BY <1>3, <2>4, <4>2
    <3> QED
      BY <3>1, <3>2, <3>3 DEF Extends
  <2>8. e.cols = x.cols /\ e.h.data = x.h.data
    BY <2>4, <2>6 DEF Reindexed
  <2>9. DataIds(e) \subseteq Nat \ DOMAIN h.data
    <3> SUFFICES ASSUME NEW id \in DataIds(e) PROVE id \in Nat \ DOMAIN h.data
      OBVIOUS
    <3>1. PICK r \in RoleSet : \E i \in 1..Len(e.cols[r]) : id = e.cols[r][i].data
      BY ColumnOfId
    <3>2. PICK i \in 1..Len(x.cols[r]) : id = x.cols[r][i].data
      BY <2>8, <3>1
    <3> QED
      BY <1>1, <3>2 DEF HasFiles
  <2>10. MapIds(e) \subseteq Nat \ DOMAIN h.maps
    <3>1. MapIds(e) = MapIds(s)
      BY <2>6 DEF Reindexed, MapIds
    <3> QED
      BY <1>3, <2>4, <3>1
  <2>11. Content(e) = SavedContent(saved)
    <3> SUFFICES ASSUME NEW r \in RoleSet
                 PROVE  [i \in 1..Len(e.cols[r]) |->
                           [name |-> e.cols[r][i].name, values |-> ValuesOf(e, e.cols[r][i])]]
                          = [i \in 1..Len(saved.cols[r]) |->
                               [name |-> saved.cols[r][i].name, values |-> saved.cols[r][i].values]]
      BY DEF Content, SavedContent
    <3>1. Len(e.cols[r]) = Len(saved.cols[r])
      BY <1>1, <2>8 DEF HasFiles
    <3>2. \A i \in 1..Len(saved.cols[r]) : /\ e.cols[r][i].name = saved.cols[r][i].name
                                          /\ ValuesOf(e, e.cols[r][i]) = saved.cols[r][i].values
      BY <1>1, <2>8 DEF HasFiles, ValuesOf
    <3> QED
      BY <3>1, <3>2
  <2>12. e.name_ = name /\ e.last_change_ = saved.last_change_
    BY <1>1, <2>4, <2>6 DEF Reindexed
  <2>13. GoodHeap(e.h)
    BY <2>6 DEF GoodFrame, Typed
  <2>14. LoadedAs(h, e, name, saved)
    BY <2>6, <2>7, <2>9, <2>10, <2>11, <2>12 DEF LoadedAs
  <2> QED
    BY <2>7, <2>13, <2>14 DEF e
<1> QED
  BY <1>5, <1>6

\* What is saved of a data frame: its content, under its time.
LEMMA SavedAs ==
  ASSUME NEW d, GoodFrame(d)
  PROVE  /\ Saved(d) \in SavedRecords /\ DifferentNames(Saved(d))
         /\ SavedContent(Saved(d)) = Content(d) /\ Saved(d).last_change_ = d.last_change_
<1> DEFINE inFile(r, i) == [name |-> d.cols[r][i].name, unit |-> d.cols[r][i].unit,
                          values |-> ValuesOf(d, d.cols[r][i])]
           C == [r \in RoleSet |-> [i \in 1..Len(d.cols[r]) |-> inFile(r, i)]]
           s == Saved(d)
           S == [name : STRING, unit : Units, values : Seq(Int)]
<1>1. s = [cols |-> C, frozen_ |-> d.frozen_, last_change_ |-> d.last_change_]
  BY DEF Saved
<1>2. ASSUME NEW r \in RoleSet, NEW i \in 1..Len(d.cols[r])
      PROVE  /\ inFile(r, i) \in S /\ inFile(r, i).name = d.cols[r][i].name
             /\ inFile(r, i).values = ValuesOf(d, d.cols[r][i])
  <2>1. d.cols[r][i] \in ColumnRecords /\ ValuesOf(d, d.cols[r][i]) \in Seq(Int)
    BY ColumnFacts DEF GoodFrame
  <2>2. d.cols[r][i].name \in STRING /\ d.cols[r][i].unit \in Units
    BY <2>1 DEF ColumnRecords
  <2> QED
    BY <2>1, <2>2
<1> HIDE DEF inFile, S
<1>3. /\ C \in [RoleSet -> Seq(S)]
      /\ \A r \in RoleSet : /\ Len(C[r]) = Len(d.cols[r])
                            /\ \A i \in 1..Len(d.cols[r]) : C[r][i] = inFile(r, i)
  <2> SUFFICES ASSUME NEW r \in RoleSet
               PROVE  /\ C[r] \in Seq(S) /\ Len(C[r]) = Len(d.cols[r])
                      /\ \A i \in 1..Len(d.cols[r]) : C[r][i] = inFile(r, i)
    OBVIOUS
  <2>1. Len(d.cols[r]) \in Nat
    BY DEF GoodFrame, Typed
  <2>2. C[r] = [i \in 1..Len(d.cols[r]) |-> inFile(r, i)]
    OBVIOUS
  <2>3. \A i \in 1..Len(d.cols[r]) : inFile(r, i) \in S
    BY <1>2
  <2> HIDE DEF C
  <2> QED
    BY <2>1, <2>2, <2>3
<1> HIDE DEF C, s
<1>4. s.cols = C /\ s.last_change_ = d.last_change_
  BY <1>1
<1>5. s \in SavedRecords
  <2>1. d.frozen_ \in BOOLEAN /\ d.last_change_ \in Nat
    BY DEF GoodFrame, Typed
  <2> QED
    BY <1>1, <1>3, <2>1 DEF SavedRecords, S
<1>6. DifferentNames(s)
  <2> SUFFICES ASSUME NEW r \in RoleSet, NEW t \in RoleSet,
                      NEW i \in 1..Len(d.cols[r]), NEW j \in 1..Len(d.cols[t]),
                      C[r][i].name = C[t][j].name
               PROVE  r = t /\ i = j
    BY <1>3, <1>4 DEF DifferentNames
  <2>1. d.cols[r][i].name = d.cols[t][j].name
    BY <1>2, <1>3
  <2> QED
    BY <2>1, TwoColumns DEF GoodFrame
<1>7. SavedContent(s) = Content(d)
  <2> SUFFICES ASSUME NEW r \in RoleSet
               PROVE  [i \in 1..Len(s.cols[r]) |->
                         [name |-> s.cols[r][i].name, values |-> s.cols[r][i].values]]
                        = [i \in 1..Len(d.cols[r]) |->
                             [name |-> d.cols[r][i].name, values |-> ValuesOf(d, d.cols[r][i])]]
    BY DEF Content, SavedContent
  <2>1. \A i \in 1..Len(d.cols[r]) : /\ s.cols[r][i].name = d.cols[r][i].name
                                    /\ s.cols[r][i].values = ValuesOf(d, d.cols[r][i])
    BY <1>2, <1>3, <1>4
  <2> QED
    BY <1>3, <1>4, <2>1
<1> QED
  BY <1>4, <1>5, <1>6, <1>7 DEF s

-----------------------------------------------------------------------------
(* DataFrame: the data frames of a project *)

\* What d points to is on the heap h as well.
HeldBy(d, h) ==
  /\ DataIds(d) \subseteq DOMAIN h.data /\ \A id \in DataIds(d) : h.data[id] = d.h.data[id]
  /\ MapIds(d) \subseteq DOMAIN h.maps
  /\ \A id \in MapIds(d) : h.maps[id] = d.h.maps[id]

\* A frame is as good on any heap that holds what it points to.
LEMMA OnNewHeap ==
  ASSUME NEW d, GoodFrame(d), NEW h, GoodHeap(h), HeldBy(d, h)
  PROVE  LET e == OnHeap(d, h)
         IN /\ GoodFrame(e) /\ e.h = h /\ e.cols = d.cols /\ e.indices_ = d.indices_ /\ e.name_ = d.name_
            /\ e.failure = "none" /\ e.last_change_ = d.last_change_ /\ e.frozen_ = d.frozen_
            /\ DataIds(e) = DataIds(d) /\ MapIds(e) = MapIds(d) /\ SeenAs(e) = SeenAs(d)
<1> DEFINE e == OnHeap(d, h)
<1>1. e = [name_ |-> d.name_, cols |-> d.cols, indices_ |-> d.indices_, frozen_ |-> d.frozen_,
           last_change_ |-> d.last_change_, h |-> h, failure |-> "none"]
  BY DEF OnHeap
<1> HIDE DEF e
<1>2. /\ e.cols = d.cols /\ e.indices_ = d.indices_ /\ e.h = h /\ e.name_ = d.name_
      /\ e.frozen_ = d.frozen_ /\ e.failure = "none" /\ e.last_change_ = d.last_change_
  BY <1>1
<1>3. Typed(e)
  BY <1>1, <1>2 DEF GoodFrame, Typed
<1>4. ASSUME NEW r \in RoleSet, NEW i \in 1..Len(d.cols[r])
      PROVE  /\ d.cols[r][i].data \in DOMAIN h.data
             /\ ValuesOf(e, d.cols[r][i]) = ValuesOf(d, d.cols[r][i])
  <2>1. d.cols[r][i].data \in DataIds(d)
    BY IdOfColumn
  <2> QED
    BY <1>2, <2>1 DEF HeldBy, ValuesOf
<1>5. GoodColumns(e)
  <2> SUFFICES ASSUME NEW r \in RoleSet, NEW s \in RoleSet,
                      NEW i \in 1..Len(d.cols[r]), NEW j \in 1..Len(d.cols[s])
               PROVE  /\ d.cols[r][i].data \in DOMAIN h.data
                      /\ d.cols[r][i].data = d.cols[s][j].data => r = s /\ i = j
                      /\ d.cols[r][i].name = d.cols[s][j].name => r = s /\ i = j
                      /\ Len(ValuesOf(e, d.cols[r][i])) = Len(ValuesOf(e, d.cols[s][j]))
    BY <1>2 DEF GoodColumns
  <2> QED
    BY <1>4, TwoColumns DEF GoodFrame
<1>6. Len(d.indices_) = Len(d.cols["join_key"])
  BY DEF GoodFrame, GoodIndices
<1>7. \A i \in 1..Len(d.indices_) : KeyValues(e, i) = KeyValues(d, i)
  BY <1>2, <1>4, <1>6, JoinKeyIsRole DEF KeyValues
<1>8. ASSUME NEW i \in 1..Len(d.indices_)
      PROVE  /\ d.indices_[i].map \in DOMAIN h.maps
             /\ h.maps[d.indices_[i].map] = d.h.maps[d.indices_[i].map]
  BY DEF HeldBy, MapIds
<1>9. GoodIndices(e)
  BY <1>2, <1>6, <1>7, <1>8 DEF GoodFrame, GoodIndices
<1>10. Complete(e)
  BY <1>2, <1>7 DEF GoodFrame, Complete
<1>11. DataIds(e) = DataIds(d) /\ MapIds(e) = MapIds(d)
  BY <1>2 DEF DataIds, MapIds
<1>12. SeenAs(e) = SeenAs(d)
  <2>1. Content(e) = Content(d)
    <3> SUFFICES ASSUME NEW r \in RoleSet
                 PROVE  [i \in 1..Len(e.cols[r]) |->
                           [name |-> e.cols[r][i].name, values |-> ValuesOf(e, e.cols[r][i])]]
                          = [i \in 1..Len(d.cols[r]) |->
                               [name |-> d.cols[r][i].name, values |-> ValuesOf(d, d.cols[r][i])]]
      BY DEF Content
    <3> QED
      BY <1>2, <1>4
  <2> QED
    BY <1>2, <2>1 DEF SeenAs, fingerprint
<1> QED
  BY <1>2, <1>3, <1>5, <1>9, <1>10, <1>11, <1>12 DEF GoodFrame, e

\* The ids that the code reaches through the columns and the indices.
LEMMA ReachedIds ==
  ASSUME NEW f \in FrameRecords
  PROVE  /\ {c.data : c \in AllColumns(f)} = DataIds(f)
         /\ {x.map : x \in Range(f.indices_)} = MapIds(f)
<1>1. /\ f.cols \in [RoleSet -> Seq(ColumnRecords)] /\ f.indices_ \in Seq(IndexRecords)
  BY DEF FrameRecords, IndexRecords
<1>2. \A r \in RoleSet : Range(f.cols[r]) = {f.cols[r][i] : i \in 1..Len(f.cols[r])}
  <2> TAKE r \in RoleSet
  <2>1. DOMAIN f.cols[r] = 1..Len(f.cols[r])
    BY <1>1
  <2> QED
    BY <2>1 DEF Range
<1>3. Range(f.indices_) = {f.indices_[i] : i \in 1..Len(f.indices_)}
  <2>1. DOMAIN f.indices_ = 1..Len(f.indices_)
    BY <1>1
  <2> QED
    BY <2>1 DEF Range
<1>4. MapIds(f) = {x.map : x \in Range(f.indices_)}
  BY <1>3 DEF MapIds
<1>5. ASSUME NEW c \in AllColumns(f) PROVE c.data \in DataIds(f)
  <2>1. PICK r \in RoleSet : c \in Range(f.cols[r])
    BY DEF AllColumns
  <2>2. PICK i \in 1..Len(f.cols[r]) : c = f.cols[r][i]
    BY <1>2, <2>1
  <2> QED
    BY <2>2, IdOfColumn
<1>6. ASSUME NEW id \in DataIds(f) PROVE \E c \in AllColumns(f) : id = c.data
  <2>1. PICK r \in RoleSet : \E i \in 1..Len(f.cols[r]) : id = f.cols[r][i].data
    BY ColumnOfId
  <2>2. PICK i \in 1..Len(f.cols[r]) : id = f.cols[r][i].data
    BY <2>1
  <2>3. f.cols[r][i] \in AllColumns(f)
    BY <1>2 DEF AllColumns
  <2> QED
    BY <2>2, <2>3
<1> QED
  BY <1>4, <1>5, <1>6

\* What is left on the heap: what data frames point to, unchanged.
LEMMA ReachableHeap ==
  ASSUME NEW h, GoodHeap(h), NEW dfs,
         \A n \in Names : dfs[n] # NoFrame =>
           /\ dfs[n] \in FrameRecords /\ DataIds(dfs[n]) \subseteq DOMAIN h.data
           /\ MapIds(dfs[n]) \subseteq DOMAIN h.maps
  PROVE  LET g == Reachable(h, dfs)
         IN /\ GoodHeap(g)
            /\ \A i \in DOMAIN g.data : g.data[i] = h.data[i]
            /\ \A i \in DOMAIN g.maps : g.maps[i] = h.maps[i]
            /\ \A n \in Names : dfs[n] # NoFrame => /\ DataIds(dfs[n]) \subseteq DOMAIN g.data
                                                   /\ MapIds(dfs[n]) \subseteq DOMAIN g.maps
<1> DEFINE live == {n \in Names : dfs[n] # NoFrame}
           I == UNION {{c.data : c \in AllColumns(dfs[n])} : n \in live}
           J == UNION {{x.map : x \in Range(dfs[n].indices_)} : n \in live}
           D == [i \in I |-> h.data[i]]
           M == [i \in J |-> h.maps[i]]
           g == Reachable(h, dfs)
<1>1. g = [data |-> D, maps |-> M]
  BY DEF Reachable
<1>2. \A n \in live : /\ {c.data : c \in AllColumns(dfs[n])} = DataIds(dfs[n])
                      /\ {x.map : x \in Range(dfs[n].indices_)} = MapIds(dfs[n])
  BY ReachedIds
<1>3. I \subseteq DOMAIN h.data /\ \A n \in live : DataIds(dfs[n]) \subseteq I
  <2>1. \A n \in live : DataIds(dfs[n]) \subseteq DOMAIN h.data
    OBVIOUS
  <2>2. I = UNION {DataIds(dfs[n]) : n \in live}
    BY <1>2
  <2> HIDE DEF I, live
  <2> QED
    BY <2>1, <2>2
<1>4. J \subseteq DOMAIN h.maps /\ \A n \in live : MapIds(dfs[n]) \subseteq J
  <2>1. \A n \in live : MapIds(dfs[n]) \subseteq DOMAIN h.maps
    OBVIOUS
  <2>2. J = UNION {MapIds(dfs[n]) : n \in live}
    BY <1>2
  <2> HIDE DEF J, live
  <2> QED
    BY <2>1, <2>2
<1> HIDE DEF I, J
<1>5. /\ DOMAIN D = I /\ D = [i \in DOMAIN D |-> D[i]] /\ \A i \in I : D[i] = h.data[i]
      /\ DOMAIN M = J /\ M = [i \in DOMAIN M |-> M[i]] /\ \A i \in J : M[i] = h.maps[i]
  OBVIOUS
<1>6. /\ IsFiniteSet(DOMAIN h.data) /\ DOMAIN h.data \subseteq Nat
      /\ \A i \in DOMAIN h.data : h.data[i] \in Seq(Int)
      /\ IsFiniteSet(DOMAIN h.maps) /\ DOMAIN h.maps \subseteq Nat
  BY DEF GoodHeap
<1>7. IsFiniteSet(I) /\ IsFiniteSet(J)
  BY <1>3, <1>4, <1>6, FS_Subset
<1>8. I \subseteq Nat /\ J \subseteq Nat /\ \A i \in I : h.data[i] \in Seq(Int)
  BY <1>3, <1>4, <1>6
<1> HIDE DEF D, M, g
<1>9. g.data = D /\ g.maps = M /\ g = [data |-> g.data, maps |-> g.maps]
  BY <1>1
<1>10. GoodHeap(g)
  <2>1. \A i \in DOMAIN g.data : g.data[i] \in Seq(Int)
    BY <1>5, <1>8, <1>9
  <2> QED
    BY <1>5, <1>7, <1>8, <1>9, <2>1 DEF GoodHeap
<1> QED
  BY <1>3, <1>4, <1>5, <1>9, <1>10 DEF g

\* A data frame that is called n, is not newer than t and has been seen.
FrameOf(d, n, t, seen) ==
  GoodFrame(d) /\ d.name_ = n /\ d.last_change_ <= t /\ SeenAs(d) \in seen

\* Each data frame of a project is good, on a heap that is held by h.
AllHeld(h, dfs, t, seen) ==
  \A n \in Names : dfs[n] # NoFrame =>
    \E d : FrameOf(d, n, t, seen) /\ HeldBy(d, h) /\ dfs[n] = WithoutHeap(d)

\* Each data frame of a project is good on the heap h.
AllGood(h, dfs, t, seen) ==
  /\ GoodHeap(h)
  /\ \A n \in Names : dfs[n] # NoFrame =>
       /\ dfs[n] \in FrameRecords /\ FrameOf(OnHeap(dfs[n], h), n, t, seen)
       /\ dfs[n].name_ = n /\ dfs[n].last_change_ <= t
       /\ DataIds(OnHeap(dfs[n], h)) = DataIds(dfs[n])
       /\ MapIds(OnHeap(dfs[n], h)) = MapIds(dfs[n])

\* The data frames after a request: each of them was good and is held by the heap.
LEMMA FramesOnHeap ==
  ASSUME NEW h, GoodHeap(h), NEW dfs, NEW t, NEW seen, AllHeld(h, dfs, t, seen)
  PROVE  AllGood(Reachable(h, dfs), dfs, t, seen)
<1> DEFINE g == Reachable(h, dfs)
<1>1. ASSUME NEW d, GoodFrame(d), NEW f, f = WithoutHeap(d)
      PROVE  /\ f \in FrameRecords /\ DataIds(f) = DataIds(d) /\ MapIds(f) = MapIds(d)
             /\ f.name_ = d.name_ /\ f.last_change_ = d.last_change_
             /\ OnHeap(f, g) = OnHeap(d, g)
  <2>1. f = [name_ |-> d.name_, cols |-> d.cols, indices_ |-> d.indices_, frozen_ |-> d.frozen_,
             last_change_ |-> d.last_change_]
    BY <1>1 DEF WithoutHeap
  <2>2. /\ f.name_ = d.name_ /\ f.cols = d.cols /\ f.indices_ = d.indices_ /\ f.frozen_ = d.frozen_
        /\ f.last_change_ = d.last_change_
    BY <2>1
  <2>3. /\ d.name_ \in Names /\ d.cols \in [RoleSet -> Seq(ColumnRecords)]
        /\ d.indices_ \in Seq(IndexRecords) /\ d.frozen_ \in BOOLEAN /\ d.last_change_ \in Nat
    BY <1>1 DEF GoodFrame, Typed
  <2>4. f \in FrameRecords
    BY <2>1, <2>3 DEF FrameRecords, IndexRecords
  <2> QED
    BY <2>2, <2>4 DEF DataIds, MapIds, OnHeap
<1>2. \A n \in Names : dfs[n] # NoFrame =>
           /\ dfs[n] \in FrameRecords /\ DataIds(dfs[n]) \subseteq DOMAIN h.data
           /\ MapIds(dfs[n]) \subseteq DOMAIN h.maps
  <2> SUFFICES ASSUME NEW n \in Names, dfs[n] # NoFrame
               PROVE  /\ dfs[n] \in FrameRecords /\ DataIds(dfs[n]) \subseteq DOMAIN h.data
                      /\ MapIds(dfs[n]) \subseteq DOMAIN h.maps
    OBVIOUS
  <2>1. PICK d : FrameOf(d, n, t, seen) /\ HeldBy(d, h) /\ dfs[n] = WithoutHeap(d)
    BY DEF AllHeld
  <2> QED
    BY <1>1, <2>1 DEF FrameOf, HeldBy
<1>3. /\ GoodHeap(g)
      /\ \A i \in DOMAIN g.data : g.data[i] = h.data[i]
      /\ \A i \in DOMAIN g.maps : g.maps[i] = h.maps[i]
      /\ \A n \in Names : dfs[n] # NoFrame => /\ DataIds(dfs[n]) \subseteq DOMAIN g.data
                                             /\ MapIds(dfs[n]) \subseteq DOMAIN g.maps
  BY <1>2, ReachableHeap
<1> HIDE DEF g
<1>4. ASSUME NEW n \in Names, dfs[n] # NoFrame
      PROVE  /\ dfs[n] \in FrameRecords /\ FrameOf(OnHeap(dfs[n], g), n, t, seen)
             /\ dfs[n].name_ = n /\ dfs[n].last_change_ <= t
             /\ DataIds(OnHeap(dfs[n], g)) = DataIds(dfs[n])
             /\ MapIds(OnHeap(dfs[n], g)) = MapIds(dfs[n])
  <2>1. PICK d : FrameOf(d, n, t, seen) /\ HeldBy(d, h) /\ dfs[n] = WithoutHeap(d)
    BY <1>4 DEF AllHeld
  <2>2. GoodFrame(d)
    BY <2>1 DEF FrameOf
  <2>3. /\ DataIds(dfs[n]) = DataIds(d) /\ MapIds(dfs[n]) = MapIds(d)
        /\ dfs[n].name_ = d.name_ /\ dfs[n].last_change_ = d.last_change_
        /\ OnHeap(dfs[n], g) = OnHeap(d, g)
    BY <1>1, <2>1, <2>2
  <2>4. HeldBy(d, g)
    BY <1>3, <1>4, <2>1, <2>3 DEF HeldBy
  <2>5. LET e == OnHeap(d, g)
        IN /\ GoodFrame(e) /\ e.name_ = d.name_ /\ e.last_change_ = d.last_change_
           /\ DataIds(e) = DataIds(d) /\ MapIds(e) = MapIds(d) /\ SeenAs(e) = SeenAs(d)
    BY <1>3, <2>2, <2>4, OnNewHeap
  <2> QED
    BY <1>2, <1>4, <2>1, <2>3, <2>5 DEF FrameOf
<1> QED
  BY <1>3, <1>4 DEF g, AllGood

\* What a request leaves that answers with e: the other data frames are held by
\* its heap and share nothing with e, and e has not been seen differently.
Answered(e, name) ==
  /\ GoodHeap(e.h)
  /\ \A n \in Live : n # name \/ e.failure # "none" => HeldBy(Get(n), e.h)
  /\ e.failure = "none" =>
       /\ GoodFrame(e) /\ e.name_ = name /\ e.last_change_ <= time + 1
       /\ \A n \in Live : n # name => /\ DataIds(e) \cap DataIds(Get(n)) = {}
                                      /\ MapIds(e) \cap MapIds(Get(n)) = {}
       /\ \A s \in known : s[1] = fingerprint(e) => s = SeenAs(e)

\* The frame is the record that the project keeps of it.
LEMMA FrameOfProject ==
  ASSUME FrameInv, NEW n \in Live
  PROVE  /\ n \in Names /\ data_frames[n] # NoFrame /\ data_frames[n] \in FrameRecords
         /\ data_frames[n] = WithoutHeap(Get(n)) /\ Get(n) = OnHeap(data_frames[n], heap)
         /\ FrameOf(Get(n), n, time, known) /\ Get(n).failure = "none" /\ Get(n).h = heap
         /\ Get(n).cols = data_frames[n].cols /\ Get(n).last_change_ = data_frames[n].last_change_
<1> DEFINE f == data_frames[n]
<1>1. n \in Names /\ f # NoFrame /\ f \in FrameRecords
  BY DEF FrameInv, Live, IsFrame
<1>2. f = [name_ |-> f.name_, cols |-> f.cols, indices_ |-> f.indices_, frozen_ |-> f.frozen_,
           last_change_ |-> f.last_change_]
  BY <1>1 DEF FrameRecords
<1>3. Get(n) = [name_ |-> f.name_, cols |-> f.cols, indices_ |-> f.indices_, frozen_ |-> f.frozen_,
                last_change_ |-> f.last_change_, h |-> heap, failure |-> "none"]
  BY DEF Get, OnHeap
<1> HIDE DEF f
<1>4. /\ Get(n).name_ = f.name_ /\ Get(n).cols = f.cols /\ Get(n).indices_ = f.indices_
      /\ Get(n).frozen_ = f.frozen_ /\ Get(n).last_change_ = f.last_change_ /\ Get(n).h = heap
      /\ Get(n).failure = "none"
  BY <1>3
<1>5. f = WithoutHeap(Get(n))
  BY <1>2, <1>4 DEF WithoutHeap
<1>6. FrameOf(Get(n), n, time, known)
  BY <1>4 DEF FrameInv, FrameOf, f
<1> QED
  BY <1>1, <1>4, <1>5, <1>6 DEF f, Get

\* A heap that was extended holds what it held.
LEMMA HeldByItsHeap ==
  ASSUME NEW d, GoodFrame(d), NEW h, Extends(d.h, h)
  PROVE  HeldBy(d, h)
<1>1. DataIds(d) \subseteq DOMAIN d.h.data
  <2> SUFFICES ASSUME NEW id \in DataIds(d) PROVE id \in DOMAIN d.h.data
    OBVIOUS
  <2>1. PICK r \in RoleSet : \E i \in 1..Len(d.cols[r]) : id = d.cols[r][i].data
    BY ColumnOfId
  <2>2. PICK i \in 1..Len(d.cols[r]) : id = d.cols[r][i].data
    BY <2>1
  <2> QED
    BY <2>2, TwoColumns DEF GoodFrame
<1>2. MapIds(d) \subseteq DOMAIN d.h.maps
  BY DEF MapIds, GoodFrame, GoodIndices
<1> QED
  BY <1>1, <1>2 DEF HeldBy, Extends

\* A good answer keeps the invariant.
LEMMA AnswerKeeps ==
  ASSUME FrameInv, NEW name \in Names, NEW asked, NEW e, Answered(e, name),
         Answer(asked, name, e), UNCHANGED disk
  PROVE  FrameInv'
<1>1. /\ time \in 0..MaxSteps /\ MaxSteps \in Nat /\ time < MaxSteps /\ time' = time + 1
      /\ time' \in 0..MaxSteps /\ time' \in Nat /\ time \in Nat /\ time <= time'
  BY DataFrameAssumption DEF FrameInv, Answer
<1>2. /\ data_frames' = IF e.failure # "none" THEN data_frames
                        ELSE [data_frames EXCEPT ![name] = WithoutHeap(e)]
      /\ heap' = Reachable(e.h, data_frames')
      /\ known' = IF e.failure # "none" THEN known ELSE known \cup {SeenAs(e)}
  BY DEF Answer
<1>3. data_frames \in [Names -> FrameRecords \cup {NoFrame}]
  BY DEF FrameInv
<1>4. \A n \in Names : n # name \/ e.failure # "none" => data_frames'[n] = data_frames[n]
  BY <1>2, <1>3
<1>5. e.failure = "none" => data_frames'[name] = WithoutHeap(e)
  BY <1>2, <1>3
<1>6. e.failure = "none" => FrameOf(e, name, time', known')
  BY <1>1, <1>2 DEF FrameOf, Answered
<1>7. known \subseteq known'
  BY <1>2
<1>8. AllHeld(e.h, data_frames', time', known')
  <2> SUFFICES ASSUME NEW n \in Names, data_frames'[n] # NoFrame
               PROVE  \E d : FrameOf(d, n, time', known') /\ HeldBy(d, e.h)
                             /\ data_frames'[n] = WithoutHeap(d)
    BY DEF AllHeld
  <2>1. CASE n = name /\ e.failure = "none"
    <3>1. Extends(e.h, e.h)
      BY DEF Extends
    <3>2. HeldBy(e, e.h)
      BY <2>1, <3>1, HeldByItsHeap DEF Answered
    <3> QED
      BY <1>5, <1>6, <2>1, <3>2
  <2>2. CASE n # name \/ e.failure # "none"
    <3>1. data_frames'[n] = data_frames[n] /\ n \in Live
      BY <1>4, <2>2 DEF Live, IsFrame
    <3>2. FrameOf(Get(n), n, time, known) /\ data_frames[n] = WithoutHeap(Get(n))
      BY <3>1, FrameOfProject
    <3>3. Get(n).last_change_ \in Nat
      BY <3>2 DEF FrameOf, GoodFrame, Typed
    <3>4. FrameOf(Get(n), n, time', known')
      BY <1>1, <1>7, <3>2, <3>3 DEF FrameOf
    <3>5. HeldBy(Get(n), e.h)
      BY <2>2, <3>1 DEF Answered
    <3> QED
      BY <3>1, <3>2, <3>4, <3>5
  <2> QED
    BY <2>1, <2>2
<1>9. AllGood(heap', data_frames', time', known')
  <2>1. GoodHeap(e.h)
    BY DEF Answered
  <2> QED
    BY <1>2, <1>8, <2>1, FramesOnHeap
<1>10. data_frames' \in [Names -> FrameRecords \cup {NoFrame}]
  <2>1. DOMAIN data_frames' = Names /\ data_frames' = [n \in Names |-> data_frames'[n]]
    BY <1>2, <1>3
  <2>2. \A n \in Names : data_frames'[n] \in FrameRecords \cup {NoFrame}
    BY <1>9 DEF AllGood
  <2> QED
    BY <2>1, <2>2
<1>11. ASSUME NEW m \in Names, NEW n \in Names, data_frames'[m] # NoFrame, data_frames'[n] # NoFrame, m # n
       PROVE  /\ DataIds(data_frames'[m]) \cap DataIds(data_frames'[n]) = {}
              /\ MapIds(data_frames'[m]) \cap MapIds(data_frames'[n]) = {}
  <2>1. ASSUME NEW k \in Names, data_frames'[k] # NoFrame, k # name \/ e.failure # "none"
        PROVE  /\ k \in Live
               /\ DataIds(data_frames'[k]) = DataIds(Get(k)) /\ MapIds(data_frames'[k]) = MapIds(Get(k))
    <3>1. data_frames'[k] = data_frames[k] /\ k \in Live
      BY <1>4, <2>1 DEF Live, IsFrame
    <3>2. Get(k) = OnHeap(data_frames[k], heap)
      BY <3>1, FrameOfProject
    <3>3. Get(k).cols = data_frames[k].cols /\ Get(k).indices_ = data_frames[k].indices_
      BY <3>2 DEF OnHeap
    <3> QED
      BY <3>1, <3>3 DEF DataIds, MapIds
  <2>2. ASSUME e.failure = "none", NEW k \in Names, data_frames'[k] # NoFrame, k # name
        PROVE  /\ DataIds(data_frames'[name]) \cap DataIds(data_frames'[k]) = {}
               /\ MapIds(data_frames'[name]) \cap MapIds(data_frames'[k]) = {}
    <3>1. k \in Live /\ DataIds(data_frames'[k]) = DataIds(Get(k)) /\ MapIds(data_frames'[k]) = MapIds(Get(k))
      BY <2>1, <2>2
    <3>2. data_frames'[name].cols = e.cols /\ data_frames'[name].indices_ = e.indices_
      BY <1>5, <2>2 DEF WithoutHeap
    <3>3. DataIds(data_frames'[name]) = DataIds(e) /\ MapIds(data_frames'[name]) = MapIds(e)
      BY <3>2 DEF DataIds, MapIds
    <3> QED
      BY <2>2, <3>1, <3>3 DEF Answered
  <2>3. CASE e.failure = "none" /\ (m = name \/ n = name)
    BY <1>11, <2>2, <2>3
  <2>4. CASE ~ (e.failure = "none" /\ (m = name \/ n = name))
    <3>1. /\ m \in Live /\ DataIds(data_frames'[m]) = DataIds(Get(m)) /\ MapIds(data_frames'[m]) = MapIds(Get(m))
          /\ n \in Live /\ DataIds(data_frames'[n]) = DataIds(Get(n)) /\ MapIds(data_frames'[n]) = MapIds(Get(n))
      BY <1>11, <2>1, <2>4
    <3> QED
      BY <1>11, <3>1 DEF FrameInv
  <2> QED
    BY <2>3, <2>4
<1>12. \A s \in known' : s[1][2] \in 0..time'
  <2>1. ASSUME NEW s \in known PROVE s[1][2] \in 0..time'
    <3>1. s[1][2] \in 0..time
      BY DEF FrameInv
    <3> QED
      BY <1>1, <3>1
  <2>2. ASSUME e.failure = "none" PROVE SeenAs(e)[1][2] \in 0..time'
    <3>1. e.last_change_ \in Nat /\ e.last_change_ <= time'
      BY <1>1, <2>2 DEF Answered, GoodFrame, Typed
    <3>2. SeenAs(e)[1][2] = e.last_change_
      BY DEF SeenAs, fingerprint
    <3> QED
      BY <1>1, <3>1, <3>2
  <2> QED
    BY <1>2, <2>1, <2>2
<1>13. \A s, t \in known' : s[1] = t[1] => s = t
  <2>1. \A s, t \in known : s[1] = t[1] => s = t
    BY DEF FrameInv
  <2>2. ASSUME e.failure = "none", NEW s \in known, s[1] = SeenAs(e)[1] PROVE s = SeenAs(e)
    <3>1. SeenAs(e)[1] = fingerprint(e)
      BY DEF SeenAs
    <3> QED
      BY <2>2, <3>1 DEF Answered
  <2> QED
    BY <1>2, <2>1, <2>2
<1>14. disk' = disk /\ \A n \in Names : disk[n] # NoFrame => GoodSaved(n, disk[n])
  BY DEF FrameInv
<1> QED
  BY <1>1, <1>7, <1>9, <1>10, <1>11, <1>12, <1>13, <1>14
     DEF FrameInv, Live, IsFrame, Get, FrameOf, GoodSaved, AllGood

-----------------------------------------------------------------------------
(* DataFrame: the requests *)

\* What the data frames of a project point to is on an extended heap too.
LEMMA LiveAreHeld ==
  ASSUME FrameInv, NEW h, Extends(heap, h)
  PROVE  \A n \in Live : /\ HeldBy(Get(n), h)
                         /\ DataIds(Get(n)) \subseteq DOMAIN heap.data
                         /\ MapIds(Get(n)) \subseteq DOMAIN heap.maps
<1> SUFFICES ASSUME NEW n \in Live
             PROVE  /\ HeldBy(Get(n), h) /\ DataIds(Get(n)) \subseteq DOMAIN heap.data
                    /\ MapIds(Get(n)) \subseteq DOMAIN heap.maps
  OBVIOUS
<1>1. GoodFrame(Get(n)) /\ Get(n).h = heap
  BY FrameOfProject DEF FrameOf
<1>2. HeldBy(Get(n), h)
  BY <1>1, HeldByItsHeap
<1>3. HeldBy(Get(n), heap)
  BY <1>1, HeldByItsHeap DEF Extends
<1> QED
  BY <1>2, <1>3 DEF HeldBy

\* No data frame has been seen at the time to come.
LEMMA NotYetSeen ==
  ASSUME FrameInv, NEW e, e.last_change_ = time + 1
  PROVE  \A s \in known : s[1] # fingerprint(e)
<1> SUFFICES ASSUME NEW s \in known, s[1] = fingerprint(e) PROVE FALSE
  OBVIOUS
<1>1. s[1][2] = time + 1
  BY DEF fingerprint
<1>2. s[1][2] \in 0..time /\ time \in Nat
  BY DEF FrameInv
<1> QED
  BY <1>1, <1>2

\* A data frame of its own is a good answer under any name.
LEMMA OwnAnswer ==
  ASSUME FrameInv, NEW name \in Names, NEW e, OfItsOwn(heap, e, name)
  PROVE  Answered(e, name)
<1>1. /\ GoodFrame(e) /\ GoodHeap(e.h) /\ Extends(heap, e.h) /\ e.name_ = name
      /\ e.last_change_ = time + 1
      /\ DataIds(e) \subseteq Nat \ DOMAIN heap.data /\ MapIds(e) \subseteq Nat \ DOMAIN heap.maps
  BY DEF OfItsOwn, GoodFrame, Typed
<1>2. \A n \in Live : /\ HeldBy(Get(n), e.h) /\ DataIds(Get(n)) \subseteq DOMAIN heap.data
                      /\ MapIds(Get(n)) \subseteq DOMAIN heap.maps
  BY <1>1, LiveAreHeld
<1>3. \A n \in Live : /\ DataIds(e) \cap DataIds(Get(n)) = {}
                      /\ MapIds(e) \cap MapIds(Get(n)) = {}
  BY <1>1, <1>2
<1>4. e.last_change_ <= time + 1
  BY <1>1 DEF FrameInv
<1>5. \A s \in known : s[1] # fingerprint(e)
  BY <1>1, NotYetSeen
<1> QED
  BY <1>1, <1>2, <1>3, <1>4, <1>5 DEF Answered

\* So is a data frame that grew out of the one of this name.
LEMMA GrownAnswer ==
  ASSUME FrameInv, NEW name \in Live, NEW e, Grown(Get(name), e),
         e.failure = "none" => e.last_change_ = time + 1
  PROVE  Answered(e, name)
<1>1. name \in Names /\ Get(name).h = heap /\ Get(name).name_ = name
  BY FrameOfProject DEF FrameOf
<1>2. /\ GoodFrame(e) /\ GoodHeap(e.h) /\ Extends(heap, e.h) /\ e.name_ = name
      /\ DataIds(e) \subseteq DataIds(Get(name)) \cup (Nat \ DOMAIN heap.data)
      /\ MapIds(e) \subseteq MapIds(Get(name)) \cup (Nat \ DOMAIN heap.maps)
  BY <1>1 DEF Grown, GoodFrame, Typed
<1>3. \A n \in Live : /\ HeldBy(Get(n), e.h) /\ DataIds(Get(n)) \subseteq DOMAIN heap.data
                      /\ MapIds(Get(n)) \subseteq DOMAIN heap.maps
  BY <1>2, LiveAreHeld
<1>4. ASSUME NEW n \in Live, n # name
      PROVE  DataIds(e) \cap DataIds(Get(n)) = {} /\ MapIds(e) \cap MapIds(Get(n)) = {}
  <2>1. /\ DataIds(Get(name)) \cap DataIds(Get(n)) = {}
        /\ MapIds(Get(name)) \cap MapIds(Get(n)) = {}
    BY <1>4 DEF FrameInv
  <2> QED
    BY <1>2, <1>3, <2>1
<1>5. e.failure = "none" => /\ e.last_change_ <= time + 1
                            /\ \A s \in known : s[1] # fingerprint(e)
  BY NotYetSeen DEF FrameInv
<1> QED
  BY <1>2, <1>3, <1>4, <1>5 DEF Answered

\* Create keeps the invariant.
LEMMA CreateKeeps ==
  ASSUME FrameInv, NEW name \in Names, Create(name)
  PROVE  FrameInv'
<1>1. PICK table \in Tables : Answer("Create", name, AddAll(NewFrame(name, heap), table))
  BY DEF Create
<1>2. table \in Seq(Uploads) /\ GoodHeap(heap) /\ time \in Nat
  BY DataFrameAssumption DEF FrameInv
<1>3. OfItsOwn(heap, AddAll(NewFrame(name, heap), table), name)
  BY <1>2, NewTable
<1> QED
  BY <1>1, <1>3, OwnAnswer, AnswerKeeps DEF Create

\* AddColumn keeps the invariant, also where the column is refused.
LEMMA AddColumnKeeps ==
  ASSUME FrameInv, NEW name \in Names, AddColumn(name)
  PROVE  FrameInv'
<1>1. PICK c \in Additions : Answer("AddColumn", name, add(Get(name), c))
  BY DEF AddColumn
<1>2. c \in Uploads /\ time \in Nat /\ name \in Live
  BY DataFrameAssumption DEF FrameInv, AddColumn, Live
<1>3. GoodFrame(Get(name)) /\ Get(name).failure = "none"
  BY <1>2, FrameOfProject DEF FrameOf
<1>4. /\ Grown(Get(name), add(Get(name), c))
      /\ add(Get(name), c).failure = "none" => add(Get(name), c).last_change_ = time + 1
  BY <1>2, <1>3, Added
<1>5. Answered(add(Get(name), c), name)
  BY <1>2, <1>4, GrownAnswer
<1> QED
  BY <1>1, <1>5, AnswerKeeps DEF AddColumn

\* RemoveColumn keeps the invariant.
LEMMA RemoveColumnKeeps ==
  ASSUME FrameInv, NEW name \in Names, RemoveColumn(name)
  PROVE  FrameInv'
<1> DEFINE d == Get(name)
<1>1. PICK c \in AllColumns(data_frames[name]) :
        Answer("RemoveColumn", name, remove_column(Get(name), c.name))
  BY DEF RemoveColumn
<1>2. time \in Nat /\ name \in Live
  BY DEF FrameInv, RemoveColumn, Live
<1>3. GoodFrame(d) /\ d.failure = "none" /\ d.cols = data_frames[name].cols
  BY <1>2, FrameOfProject DEF FrameOf
<1>4. HasColumn(d, c.name)
  <2>1. PICK r \in RoleSet : c \in Range(d.cols[r])
    BY <1>3 DEF AllColumns
  <2>2. d.cols[r] \in Seq(ColumnRecords)
    BY <1>3 DEF GoodFrame, Typed
  <2>3. PICK i \in 1..Len(d.cols[r]) : c = d.cols[r][i]
    BY <2>1, <2>2 DEF Range
  <2> QED
    BY <2>3 DEF HasColumn
<1> DEFINE e == remove_column(d, c.name)
<1>5. Grown(d, e) /\ (HasColumn(d, c.name) /\ e.failure = "none" => e.last_change_ = time + 1)
  BY <1>2, <1>3, RemovedIsGrown
<1> HIDE DEF e
<1>6. Answered(e, name)
  BY <1>2, <1>4, <1>5, GrownAnswer
<1> QED
  BY <1>1, <1>6, AnswerKeeps DEF RemoveColumn, e

\* Appending to a data frame changes its own columns and indices only.
LEMMA AppendedAnswer ==
  ASSUME FrameInv, NEW name \in Live, NEW x, OfItsOwn(heap, x, name)
  PROVE  Answered(append_frame([Get(name) EXCEPT !.h = x.h], x), name)
<1> DEFINE c == Get(name)
           d == [c EXCEPT !.h = x.h]
           e == append_frame(d, x)
<1>1. /\ name \in Names /\ GoodFrame(c) /\ c.failure = "none" /\ c.name_ = name /\ c.h = heap
      /\ time \in Nat
  BY FrameOfProject DEF FrameOf, FrameInv
<1>2. GoodFrame(x) /\ GoodHeap(x.h) /\ Extends(heap, x.h)
  BY DEF OfItsOwn, GoodFrame, Typed
<1>3. \A n \in Live : /\ HeldBy(Get(n), x.h) /\ DataIds(Get(n)) \subseteq DOMAIN heap.data
                      /\ MapIds(Get(n)) \subseteq DOMAIN heap.maps
  BY <1>2, LiveAreHeld
<1>4. d = OnHeap(c, x.h)
  <2>1. c = [name_ |-> c.name_, cols |-> c.cols, indices_ |-> c.indices_, frozen_ |-> c.frozen_,
             last_change_ |-> c.last_change_, h |-> c.h, failure |-> c.failure]
    BY <1>1 DEF GoodFrame, Typed
  <2> HIDE DEF c
  <2> QED
    BY <1>1, <2>1 DEF OnHeap
<1>5. /\ GoodFrame(d) /\ d.h = x.h /\ d.name_ = name /\ d.failure = "none"
      /\ DataIds(d) = DataIds(c) /\ MapIds(d) = MapIds(c)
  <2>1. HeldBy(c, x.h)
    BY <1>3
  <2> HIDE DEF d, c
  <2> QED
    BY <1>1, <1>2, <1>4, <2>1, OnNewHeap
<1> HIDE DEF d
<1>6. \/ Failed(d, e)
      \/ /\ GoodFrame(e) /\ ChangedOwn(d, e) /\ e.name_ = d.name_ /\ e.failure = "none"
         /\ e.last_change_ = time + 1
  BY <1>1, <1>2, <1>5, Appended
<1> HIDE DEF e
<1>7. CASE Failed(d, e)
  <2>1. e.h = x.h /\ e.failure # "none"
    BY <1>5, <1>7, FailedIsGood
  <2> QED
    BY <1>2, <1>3, <2>1 DEF Answered, e, d, c
<1>8. CASE /\ GoodFrame(e) /\ ChangedOwn(d, e) /\ e.name_ = d.name_ /\ e.failure = "none"
           /\ e.last_change_ = time + 1
  <2>1. /\ DataIds(e) = DataIds(c) /\ MapIds(e) = MapIds(c)
        /\ DOMAIN e.h.data = DOMAIN x.h.data
        /\ \A id \in DOMAIN x.h.data : id \notin DataIds(c) => e.h.data[id] = x.h.data[id]
        /\ DOMAIN e.h.maps = DOMAIN x.h.maps
        /\ \A id \in DOMAIN x.h.maps : id \notin MapIds(c) => e.h.maps[id] = x.h.maps[id]
    BY <1>5, <1>8 DEF ChangedOwn
  <2>2. ASSUME NEW n \in Live, n # name
        PROVE  /\ HeldBy(Get(n), e.h)
               /\ DataIds(e) \cap DataIds(Get(n)) = {} /\ MapIds(e) \cap MapIds(Get(n)) = {}
    <3>1. DataIds(c) \cap DataIds(Get(n)) = {} /\ MapIds(c) \cap MapIds(Get(n)) = {}
      BY <2>2 DEF FrameInv
    <3>2. HeldBy(Get(n), x.h)
      BY <1>3
    <3> HIDE DEF c
    <3>3. HeldBy(Get(n), e.h)
      BY <2>1, <3>1, <3>2 DEF HeldBy
    <3> QED
      BY <2>1, <3>1, <3>3
  <2>3. GoodHeap(e.h)
    BY <1>8 DEF GoodFrame, Typed
  <2>4. e.last_change_ <= time + 1 /\ \A s \in known : s[1] # fingerprint(e)
    BY <1>1, <1>8, NotYetSeen
  <2> QED
    BY <1>5, <1>8, <2>2, <2>3, <2>4 DEF Answered, e, d, c
<1> QED
  BY <1>6, <1>7, <1>8

\* AppendTo keeps the invariant: the other table is built on the same heap.
LEMMA AppendToKeeps ==
  ASSUME FrameInv, NEW name \in Names, AppendTo(name)
  PROVE  FrameInv'
<1>1. name \in Live
  BY DEF AppendTo, Live
<1> DEFINE other(table) == AddAll(NewFrame(name, Get(name).h), table)
           e(table) == Then(other(table), LAMBDA x : append_frame([Get(name) EXCEPT !.h = x.h], x))
<1>2. PICK table \in Tables : Answer("AppendTo", name, e(table)) /\ UNCHANGED disk
  BY DEF AppendTo
<1>3. table \in Seq(Uploads) /\ GoodHeap(heap) /\ time \in Nat /\ Get(name).h = heap
  BY <1>1, DataFrameAssumption, FrameOfProject DEF FrameInv
<1>4. OfItsOwn(heap, other(table), name)
  BY <1>3, NewTable
<1> DEFINE x == other(table)
<1>5. e(table) = IF x.failure # "none" THEN x ELSE append_frame([Get(name) EXCEPT !.h = x.h], x)
  BY DEF Then
<1> HIDE DEF x
<1>6. OfItsOwn(heap, x, name)
  BY <1>4 DEF x
<1> HIDE DEF e
<1>7. Answered(x, name) /\ Answered(append_frame([Get(name) EXCEPT !.h = x.h], x), name)
  BY <1>1, <1>6, OwnAnswer, AppendedAnswer
<1>8. Answered(e(table), name)
  BY <1>5, <1>7
<1> QED
  BY <1>2, <1>8, AnswerKeeps

\* The record of a data frame that is frozen.
LEMMA FrozenFrame ==
  ASSUME NEW d, Typed(d), NEW e, e = [d EXCEPT !.frozen_ = TRUE]
  PROVE  e = [name_ |-> d.name_, cols |-> d.cols, indices_ |-> d.indices_, frozen_ |-> TRUE,
              last_change_ |-> d.last_change_, h |-> d.h, failure |-> d.failure]
  BY DEF Typed

\* Freeze keeps the invariant: the content, and so what was seen, is the same.
LEMMA FreezeKeeps ==
  ASSUME FrameInv, NEW name \in Names, Freeze(name)
  PROVE  FrameInv'
<1> DEFINE d == Get(name)
           e == [d EXCEPT !.frozen_ = TRUE]
<1>1. name \in Live /\ Answer("Freeze", name, e) /\ UNCHANGED disk
  BY DEF Freeze, Live
<1>2. /\ GoodFrame(d) /\ d.failure = "none" /\ d.name_ = name /\ d.h = heap /\ SeenAs(d) \in known
      /\ d.last_change_ <= time /\ d.last_change_ \in Nat /\ time \in Nat
  BY <1>1, FrameOfProject DEF FrameOf, FrameInv, GoodFrame, Typed
<1>3. d = [name_ |-> d.name_, cols |-> d.cols, indices_ |-> d.indices_, frozen_ |-> d.frozen_,
           last_change_ |-> d.last_change_, h |-> d.h, failure |-> d.failure]
  BY <1>2 DEF GoodFrame, Typed
<1> HIDE DEF d
<1>4. /\ e = [name_ |-> d.name_, cols |-> d.cols, indices_ |-> d.indices_, frozen_ |-> TRUE,
              last_change_ |-> d.last_change_, h |-> d.h, failure |-> d.failure]
      /\ e.name_ = d.name_ /\ e.frozen_ = TRUE /\ e.last_change_ = d.last_change_ /\ e.h = d.h
      /\ e.failure = "none" /\ e.cols = d.cols /\ e.indices_ = d.indices_
  <2>1. e = [d EXCEPT !.frozen_ = TRUE] /\ Typed(d)
    BY <1>2 DEF GoodFrame
  <2> HIDE DEF e
  <2>2. e = [name_ |-> d.name_, cols |-> d.cols, indices_ |-> d.indices_, frozen_ |-> TRUE,
             last_change_ |-> d.last_change_, h |-> d.h, failure |-> d.failure]
    BY <2>1, FrozenFrame
  <2> QED
    BY <1>2, <2>2
<1> HIDE DEF e
<1>5. GoodFrame(e) /\ DataIds(e) = DataIds(d) /\ MapIds(e) = MapIds(d)
  <2>1. d.name_ \in Names /\ d.last_change_ \in Nat
    BY <1>2
  <2> QED
    BY <1>2, <1>4, <2>1, Relabelled
<1>6. SeenAs(e) = SeenAs(d) /\ SeenAs(e) \in known /\ SeenAs(e)[1] = fingerprint(e)
  <2>1. SeenAs(e) = SeenAs(d)
    BY <1>4 DEF SeenAs, fingerprint, Content, ValuesOf
  <2> QED
    BY <1>2, <2>1 DEF SeenAs
<1>7. \A s \in known : s[1] = fingerprint(e) => s = SeenAs(e)
  BY <1>6 DEF FrameInv
<1>8. \A n \in Live : HeldBy(Get(n), heap)
  BY LiveAreHeld DEF Extends
<1>9. \A n \in Live : n # name => /\ DataIds(d) \cap DataIds(Get(n)) = {}
                                  /\ MapIds(d) \cap MapIds(Get(n)) = {}
  BY <1>1 DEF FrameInv, d
<1>10. GoodHeap(heap) /\ e.last_change_ <= time + 1
  BY <1>2, <1>4 DEF FrameInv
<1>11. Answered(e, name)
  BY <1>2, <1>4, <1>5, <1>7, <1>8, <1>9, <1>10 DEF Answered
<1> QED
  BY <1>1, <1>11, AnswerKeeps

\* FromView keeps the invariant: the clone shares nothing with its base.
LEMMA FromViewKeeps ==
  ASSUME FrameInv, NEW name \in Names, NEW base \in Names, NEW view \in Views,
         FromView(name, base, view)
  PROVE  FrameInv'
<1> DEFINE d == Get(base)
           e == Then(parse(d, view), LAMBDA x : clone(x, name))
<1>1. base \in Live /\ Answer("FromView", name, e) /\ UNCHANGED disk
  BY DEF FromView, Live
<1>2. GoodFrame(d) /\ d.failure = "none" /\ d.h = heap /\ time \in Nat
  BY <1>1, FrameOfProject DEF FrameOf, FrameInv
<1>3. OnTopOf(heap, e) /\ (e.failure = "none" => OfItsOwn(heap, e, name))
  BY <1>2, OfView
<1> HIDE DEF e
<1>4. ASSUME e.failure = "none" PROVE Answered(e, name)
  BY <1>3, <1>4, OwnAnswer
<1>5. ASSUME e.failure # "none" PROVE Answered(e, name)
  <2>1. GoodHeap(e.h) /\ Extends(heap, e.h)
    BY <1>3 DEF OnTopOf, GoodFrame, Typed
  <2> QED
    BY <1>5, <2>1, LiveAreHeld DEF Answered
<1>6. Answered(e, name)
  BY <1>4, <1>5
<1> QED
  BY <1>1, <1>6, AnswerKeeps

\* Load keeps the invariant: what comes back has been seen.
LEMMA LoadKeeps ==
  ASSUME FrameInv, NEW name \in Names, Load(name)
  PROVE  FrameInv'
<1> DEFINE saved == disk[name]
           e == load(name, heap, saved)
<1>1. /\ saved # NoFrame
      /\ Answer("Load", name, e) /\ UNCHANGED disk
  BY DEF Load
<1>2. /\ saved \in SavedRecords /\ GoodHeap(heap) /\ time \in Nat
      /\ GoodSaved(name, saved)
  BY <1>1 DEF FrameInv
<1> HIDE DEF saved
<1>3. /\ DifferentNames(saved) /\ saved.last_change_ <= time
      /\ <<<<name, saved.last_change_>>, SavedContent(saved)>> \in known
      /\ saved.last_change_ \in Nat
  BY <1>2 DEF GoodSaved, SavedRecords
<1>4. /\ GoodHeap(e.h) /\ Extends(heap, e.h)
      /\ e.failure = "none" => LoadedAs(heap, e, name, saved)
  BY <1>1, <1>2, <1>3, Loaded
<1> HIDE DEF e
<1>5. \A n \in Live : /\ HeldBy(Get(n), e.h) /\ DataIds(Get(n)) \subseteq DOMAIN heap.data
                      /\ MapIds(Get(n)) \subseteq DOMAIN heap.maps
  BY <1>4, LiveAreHeld
<1>6. ASSUME e.failure = "none"
      PROVE  /\ GoodFrame(e) /\ e.name_ = name /\ e.last_change_ <= time + 1
             /\ \A n \in Live : /\ DataIds(e) \cap DataIds(Get(n)) = {}
                                /\ MapIds(e) \cap MapIds(Get(n)) = {}
             /\ \A s \in known : s[1] = fingerprint(e) => s = SeenAs(e)
  <2>1. LoadedAs(heap, e, name, saved)
    BY <1>4, <1>6
  <2>2. SeenAs(e) = <<<<name, saved.last_change_>>, SavedContent(saved)>>
    BY <2>1 DEF LoadedAs, SeenAs, fingerprint
  <2>3. SeenAs(e) \in known /\ SeenAs(e)[1] = fingerprint(e)
    BY <1>3, <2>2 DEF SeenAs
  <2>4. \A s \in known : s[1] = fingerprint(e) => s = SeenAs(e)
    BY <2>3 DEF FrameInv
  <2> QED
    BY <1>2, <1>3, <1>5, <2>1, <2>4 DEF LoadedAs
<1>7. Answered(e, name)
  BY <1>4, <1>5, <1>6 DEF Answered
<1> QED
  BY <1>1, <1>7, AnswerKeeps

\* Save keeps the invariant.
LEMMA SaveKeeps ==
  ASSUME FrameInv, NEW name \in Names, Save(name)
  PROVE  FrameInv'
<1> DEFINE d == Get(name)
<1>1. /\ name \in Live /\ disk' = [disk EXCEPT ![name] = Saved(d)] /\ time' = time + 1 /\ time < MaxSteps
      /\ data_frames' = data_frames /\ heap' = heap /\ known' = known
  BY DEF Save, Live
<1>2. /\ GoodFrame(d) /\ d.name_ = name /\ SeenAs(d) \in known
      /\ d.last_change_ <= time /\ d.last_change_ \in Nat /\ time \in Nat /\ MaxSteps \in Nat
  BY <1>1, FrameOfProject, DataFrameAssumption DEF FrameOf, FrameInv, GoodFrame, Typed
<1>3. /\ Saved(d) \in SavedRecords /\ DifferentNames(Saved(d))
      /\ SavedContent(Saved(d)) = Content(d) /\ Saved(d).last_change_ = d.last_change_
  BY <1>2, SavedAs
<1> HIDE DEF d
<1> DEFINE new == Saved(d)
<1>4. <<<<name, new.last_change_>>, SavedContent(new)>> \in known
  BY <1>2, <1>3 DEF SeenAs, fingerprint
<1>5. disk \in [Names -> SavedRecords \cup {NoFrame}]
  BY DEF FrameInv
<1> HIDE DEF new
<1>6. disk' \in [Names -> SavedRecords \cup {NoFrame}]
  BY <1>1, <1>3, <1>5 DEF new
<1>7. time' \in 0..MaxSteps /\ time <= time' /\ time' \in Nat
  BY <1>1, <1>2
<1>8. ASSUME NEW n \in Names, disk'[n] # NoFrame PROVE GoodSaved(n, disk[n])'
  <2>1. CASE n = name
    <3>1. disk'[n] = new
      BY <1>1, <1>5, <2>1 DEF new
    <3>2. new.last_change_ <= time' /\ DifferentNames(new)
      BY <1>2, <1>3, <1>7 DEF new
    <3>3. <<<<n, new.last_change_>>, SavedContent(new)>> \in known'
      BY <1>1, <1>4, <2>1
    <3> QED
      BY <3>1, <3>2, <3>3 DEF GoodSaved
  <2>2. CASE n # name
    <3>1. disk'[n] = disk[n]
      BY <1>1, <1>5, <2>2
    <3>2. GoodSaved(n, disk[n]) /\ disk[n] \in SavedRecords
      BY <1>5, <1>8, <3>1 DEF FrameInv
    <3>3. disk[n].last_change_ <= time'
      <4>1. disk[n].last_change_ \in Nat /\ disk[n].last_change_ <= time
        BY <3>2 DEF GoodSaved, SavedRecords
      <4> QED
        BY <1>2, <1>7, <4>1
    <3> QED
      BY <1>1, <3>1, <3>2, <3>3 DEF GoodSaved
  <2> QED
    BY <2>1, <2>2
<1>9. Live' = Live /\ \A n : Get(n)' = Get(n)
  BY <1>1 DEF Live, IsFrame, Get
<1>10. ASSUME NEW n \in Live
       PROVE  /\ GoodFrame(Get(n)) /\ data_frames[n].name_ = n
              /\ data_frames[n].last_change_ <= time' /\ SeenAs(Get(n)) \in known
  <2>1. FrameOf(Get(n), n, time, known) /\ data_frames[n].name_ = n
        /\ Get(n).last_change_ = data_frames[n].last_change_
    BY FrameOfProject DEF FrameInv
  <2>2. Get(n).last_change_ \in Nat /\ Get(n).last_change_ <= time
    BY <2>1 DEF FrameOf, GoodFrame, Typed
  <2> QED
    BY <1>2, <1>7, <2>1, <2>2 DEF FrameOf
<1>11. \A s \in known : s[1][2] \in 0..time'
  <2>1. \A s \in known : s[1][2] \in 0..time
    BY DEF FrameInv
  <2> QED
    BY <1>2, <1>7, <2>1
<1> QED
  BY <1>1, <1>6, <1>7, <1>8, <1>9, <1>10, <1>11 DEF FrameInv, Live, IsFrame, Get

-----------------------------------------------------------------------------
(* DataFrame: what the requests preserve, and what follows from it *)

\* The invariant holds before the first request.
LEMMA FrameInitGood ==
  ASSUME FrameInit
  PROVE  FrameInv
<1>1. Live = {}
  BY DEF FrameInit, Live, IsFrame
<1>2. DOMAIN << >> = {}
  OBVIOUS
<1>3. heap = [data |-> << >>, maps |-> << >>]
  BY DEF FrameInit, NoHeap
<1>4. GoodHeap(heap)
  <2>1. << >> = [i \in {} |-> << >>[i]]
    OBVIOUS
  <2>2. IsFiniteSet({})
    BY FS_EmptySet
  <2> QED
    BY <1>2, <1>3, <2>1, <2>2 DEF GoodHeap
<1>5. 0 \in 0..MaxSteps
  BY DataFrameAssumption
<1> QED
  BY <1>1, <1>4, <1>5 DEF FrameInit, FrameInv

\* Every request keeps the invariant.
LEMMA FrameNextKeeps ==
  ASSUME FrameInv, [FrameNext]_frameVars
  PROVE  FrameInv'
<1>1. CASE UNCHANGED frameVars
  <2>1. /\ data_frames' = data_frames /\ heap' = heap /\ disk' = disk /\ time' = time /\ known' = known
    BY <1>1 DEF frameVars
  <2> QED
    BY <2>1 DEF FrameInv, Live, IsFrame, Get, GoodSaved
<1>2. CASE Done
  BY <1>1, <1>2 DEF Done
<1>3. ASSUME NEW n \in Names, \/ Create(n) \/ AddColumn(n) \/ RemoveColumn(n)
                              \/ AppendTo(n) \/ Freeze(n) \/ Save(n) \/ Load(n)
      PROVE  FrameInv'
  BY <1>3, CreateKeeps, AddColumnKeeps, RemoveColumnKeeps, AppendToKeeps, FreezeKeeps,
     SaveKeeps, LoadKeeps
<1>4. ASSUME NEW n \in Names, NEW b \in Names, NEW v \in Views, FromView(n, b, v)
      PROVE  FrameInv'
  BY <1>4, FromViewKeeps
<1> QED
  BY <1>1, <1>2, <1>3, <1>4 DEF FrameNext

\* What the columns of data frames point to.
LEMMA TypeOfFrames ==
  ASSUME FrameInv
  PROVE  FrameTypeOK
<1>1. ASSUME NEW n \in Live
      PROVE  /\ DOMAIN data_frames[n].cols = RoleSet
             /\ \A c \in AllColumns(data_frames[n]) : c.data \in DOMAIN heap.data
             /\ Len(data_frames[n].indices_) = Len(data_frames[n].cols["join_key"])
             /\ \A x \in Range(data_frames[n].indices_) : x.map \in DOMAIN heap.maps
  <2> DEFINE f == data_frames[n]
             d == Get(n)
  <2>1. /\ f \in FrameRecords /\ GoodFrame(d) /\ d.h = heap /\ d = OnHeap(f, heap)
    BY FrameOfProject DEF FrameOf
  <2>2. d.cols = f.cols /\ d.indices_ = f.indices_
    BY <2>1 DEF OnHeap
  <2> HIDE DEF d, f
  <2>3. HeldBy(d, heap)
    BY <2>1, HeldByItsHeap DEF Extends
  <2>4. DataIds(d) = DataIds(f) /\ MapIds(d) = MapIds(f)
    BY <2>2 DEF DataIds, MapIds
  <2>5. /\ {c.data : c \in AllColumns(f)} = DataIds(f)
        /\ {x.map : x \in Range(f.indices_)} = MapIds(f)
    BY <2>1, ReachedIds
  <2>6. DOMAIN d.cols = RoleSet /\ Len(d.indices_) = Len(d.cols["join_key"])
    BY <2>1 DEF GoodFrame, Typed, GoodIndices
  <2> QED
    BY <2>2, <2>3, <2>4, <2>5, <2>6 DEF HeldBy, f
<1>2. \A n \in Names : disk[n] = NoFrame \/ disk[n].last_change_ <= time
  BY DEF FrameInv, GoodSaved
<1>3. time \in 0..MaxSteps
  BY DEF FrameInv
<1> QED
  BY <1>1, <1>2, <1>3 DEF FrameTypeOK

\* What has been seen under the fingerprint of a data frame is its content.
LEMMA FingerprintTells ==
  ASSUME FrameInv
  PROVE  FingerprintTellsContent
<1> SUFFICES ASSUME NEW n \in Live, NEW s \in known, s[1] = fingerprint(data_frames[n])
             PROVE  s = SeenAs(Get(n))
  BY DEF FingerprintTellsContent
<1>1. SeenAs(Get(n)) \in known
  BY DEF FrameInv
<1>2. SeenAs(Get(n))[1] = fingerprint(data_frames[n])
  BY DEF SeenAs, fingerprint, Get, OnHeap
<1> QED
  BY <1>1, <1>2 DEF FrameInv

\* Columns have different names and as many rows as the data frame.
LEMMA TablesAreRectangular ==
  ASSUME FrameInv
  PROVE  FramesAreTables
<1> SUFFICES ASSUME NEW n \in Live, NEW p \in Places(Get(n).cols), NEW q \in Places(Get(n).cols)
             PROVE  LET d == Get(n)
                        At(z) == d.cols[z[1]][z[2]]
                    IN /\ Len(ValuesOf(d, At(p))) = nrows(d)
                       /\ At(p).name = At(q).name => p = q
  BY DEF FramesAreTables
<1> DEFINE d == Get(n)
<1>1. GoodFrame(d)
  BY FrameOfProject DEF FrameOf
<1> HIDE DEF d
<1>2. ASSUME NEW z \in Places(d.cols)
      PROVE  z = <<z[1], z[2]>> /\ z[1] \in RoleSet /\ z[2] \in 1..Len(d.cols[z[1]])
  BY DEF Places
<1>3. Len(ValuesOf(d, d.cols[p[1]][p[2]])) = nrows(d)
  <2>1. p[1] \in RoleSet /\ p[2] \in 1..Len(d.cols[p[1]])
    BY <1>2 DEF d
  <2> QED
    BY <1>1, <2>1, NumRows DEF GoodFrame
<1>4. d.cols[p[1]][p[2]].name = d.cols[q[1]][q[2]].name => p = q
  <2>1. /\ p = <<p[1], p[2]>> /\ p[1] \in RoleSet /\ p[2] \in 1..Len(d.cols[p[1]])
        /\ q = <<q[1], q[2]>> /\ q[1] \in RoleSet /\ q[2] \in 1..Len(d.cols[q[1]])
    BY <1>2 DEF d
  <2>2. d.cols[p[1]][p[2]].name = d.cols[q[1]][q[2]].name => p[1] = q[1] /\ p[2] = q[2]
    BY <1>1, <2>1, TwoColumns DEF GoodFrame
  <2> QED
    BY <2>1, <2>2
<1> QED
  BY <1>3, <1>4 DEF d

\* An exact map finds the rows of every key that is not null.
LEMMA ExactFinds ==
  ASSUME NEW map, NEW values \in Seq(Int), Exact(map, values, Len(values)), NEW key, ~ is_null(key)
  PROVE  AreRowsOf(IF key \in DOMAIN map THEN map[key] ELSE <<>>, key, values)
<1>1. CASE key \in DOMAIN map
  <2> DEFINE rows == map[key]
  <2>1. /\ rows \in Seq(Nat)
        /\ \A a, b \in 1..Len(rows) : a < b => rows[a] < rows[b]
        /\ \A a \in 1..Len(rows) : rows[a] + 1 \in 1..Len(values) /\ values[rows[a] + 1] = key
    BY <1>1 DEF Exact
  <2>2. \A j \in 1..Len(values) : values[j] = key => \E a \in 1..Len(rows) : rows[a] = j - 1
    BY DEF Exact
  <2> HIDE DEF rows
  <2>3. Range(rows) = {rows[a] : a \in 1..Len(rows)}
    <3>1. DOMAIN rows = 1..Len(rows)
      BY <2>1
    <3> QED
      BY <3>1 DEF Range
  <2>4. ASSUME NEW a \in 1..Len(rows)
        PROVE  rows[a] \in {j - 1 : j \in {j \in 1..Len(values) : values[j] = key}}
    <3>1. rows[a] \in Nat /\ rows[a] = (rows[a] + 1) - 1
      BY <2>1
    <3> QED
      BY <2>1, <3>1
  <2>5. Range(rows) = {j - 1 : j \in {j \in 1..Len(values) : values[j] = key}}
    BY <2>2, <2>3, <2>4
  <2> QED
    BY <1>1, <2>1, <2>5 DEF AreRowsOf, rows
<1>2. CASE key \notin DOMAIN map
  <2>1. \A j \in 1..Len(values) : values[j] # key
    BY <1>2 DEF Exact
  <2>2. Range(<<>>) = {} /\ Len(<<>>) = 0
    BY DEF Range
  <2>3. {j - 1 : j \in {j \in 1..Len(values) : values[j] = key}} = {}
    BY <2>1
  <2>4. AreRowsOf(<<>>, key, values)
    BY <2>2, <2>3 DEF AreRowsOf
  <2> QED
    BY <1>2, <2>4
<1> QED
  BY <1>1, <1>2

\* The indices with maps of their own find exactly the rows of every key that is not null.
LEMMA IndicesFind ==
  ASSUME FrameInv
  PROVE  IndexFindsRows
<1> SUFFICES ASSUME NEW n \in Live, NEW i \in 1..Len(Get(n).indices_), Get(n).indices_[i].own,
                    NEW key, ~ is_null(key)
             PROVE  LET d == Get(n)
                    IN AreRowsOf(find(heap, d.indices_[i], key), key,
                                 ValuesOf(d, d.cols["join_key"][i]))
  <2>1. \A n \in Live : Get(n).indices_ = data_frames[n].indices_ /\ Get(n).h = heap
    BY DEF Get, OnHeap
  <2> QED
    BY <2>1 DEF IndexFindsRows, FindsRows
<1> DEFINE d == Get(n)
           values == ValuesOf(d, d.cols["join_key"][i])
           map == heap.maps[d.indices_[i].map]
<1>1. GoodFrame(d) /\ d.h = heap
  BY FrameOfProject DEF FrameOf
<1>2. Len(d.indices_) = Len(d.cols["join_key"])
  BY <1>1 DEF GoodFrame, GoodIndices
<1>3. values \in Seq(Int)
  <2>1. i \in 1..Len(d.cols["join_key"])
    BY <1>2
  <2> HIDE DEF d
  <2> QED
    BY <1>1, <2>1, ColumnFacts, JoinKeyIsRole DEF GoodFrame
<1>4. Exact(map, values, Len(values))
  <2>1. /\ Exact(d.h.maps[d.indices_[i].map], KeyValues(d, i), d.indices_[i].begin_)
        /\ d.indices_[i].begin_ = Len(KeyValues(d, i))
    BY <1>1 DEF GoodFrame, GoodIndices, Complete
  <2>2. KeyValues(d, i) = values /\ d.h.maps[d.indices_[i].map] = map
    BY <1>1 DEF KeyValues
  <2> HIDE DEF d, values, map
  <2> QED
    BY <2>1, <2>2
<1>5. find(heap, d.indices_[i], key) = IF key \in DOMAIN map THEN map[key] ELSE <<>>
  BY DEF find
<1> HIDE DEF values, map, d
<1>6. AreRowsOf(find(heap, d.indices_[i], key), key, values)
  BY <1>3, <1>4, <1>5, ExactFinds
<1> QED
  BY <1>6 DEF d, values

-----------------------------------------------------------------------------
(* DataFrame: headers and cells, in the same order *)

\* A sequence, of whatever elements.
Tuple(a) == a = [k \in 1..Len(a) |-> a[k]] /\ Len(a) \in Nat

\* Two sequences that hold, at the same positions, what f and g hold of some roles.
Aligned(roles, f, g, a, b) ==
  /\ Tuple(a) /\ Tuple(b) /\ Len(b) = Len(a)
  /\ \A r \in roles : \A i \in 1..Len(f[r]) :
       \E k \in 1..Len(a) : a[k] = f[r][i] /\ b[k] = g[r][i]

\* One after the other.
LEMMA JoinedSequences ==
  ASSUME NEW a, NEW b, Tuple(a), Tuple(b)
  PROVE  /\ Tuple(a \o b) /\ Len(a \o b) = Len(a) + Len(b)
         /\ \A k \in 1..Len(a) : (a \o b)[k] = a[k]
         /\ \A k \in 1..Len(b) : (a \o b)[Len(a) + k] = b[k]
<1> DEFINE S == {a[k] : k \in 1..Len(a)} \cup {b[k] : k \in 1..Len(b)}
<1>1. a \in Seq(S) /\ b \in Seq(S)
  <2>1. \A k \in 1..Len(a) : a[k] \in S
    OBVIOUS
  <2>2. \A k \in 1..Len(b) : b[k] \in S
    OBVIOUS
  <2>3. a \in [1..Len(a) -> S] /\ b \in [1..Len(b) -> S]
    BY <2>1, <2>2 DEF Tuple
  <2> QED
    BY <2>3, SeqDef DEF Tuple
<1> HIDE DEF S
<1>2. a \o b \in Seq(S) /\ Len(a \o b) = Len(a) + Len(b)
  BY <1>1
<1>3. Tuple(a \o b)
  <2> DEFINE c == a \o b
  <2>1. c \in Seq(S)
    BY <1>2
  <2> HIDE DEF c
  <2>2. Tuple(c)
    BY <2>1 DEF Tuple
  <2> QED
    BY <2>2 DEF c
<1>4. \A k \in 1..Len(a) : (a \o b)[k] = a[k]
  BY <1>1
<1>5. \A k \in 1..Len(b) : (a \o b)[Len(a) + k] = b[k]
  BY <1>1
<1> QED
  BY <1>2, <1>3, <1>4, <1>5

\* The next role.
LEMMA AlignedNext ==
  ASSUME NEW roles, NEW f, NEW g, NEW a, NEW b, Aligned(roles, f, g, a, b), NEW s,
         Tuple(f[s]), Tuple(g[s]), Len(g[s]) = Len(f[s])
  PROVE  Aligned(roles \cup {s}, f, g, a \o f[s], b \o g[s])
<1> DEFINE u == f[s]
           v == g[s]
           aa == a \o u
           bb == b \o v
<1>1. /\ Tuple(a) /\ Tuple(b) /\ Tuple(u) /\ Tuple(v)
      /\ Len(a) \in Nat /\ Len(b) = Len(a) /\ Len(u) \in Nat /\ Len(v) = Len(u)
      /\ \A r \in roles : \A i \in 1..Len(f[r]) :
           \E k \in 1..Len(a) : a[k] = f[r][i] /\ b[k] = g[r][i]
  BY DEF Aligned, Tuple
<1> HIDE DEF u, v
<1>2. /\ Len(aa) = Len(a) + Len(u) /\ Tuple(aa)
      /\ \A k \in 1..Len(a) : aa[k] = a[k]
      /\ \A k \in 1..Len(u) : aa[Len(a) + k] = u[k]
  BY <1>1, JoinedSequences
<1>3. /\ Len(bb) = Len(b) + Len(v) /\ Tuple(bb)
      /\ \A k \in 1..Len(b) : bb[k] = b[k]
      /\ \A k \in 1..Len(v) : bb[Len(b) + k] = v[k]
  BY <1>1, JoinedSequences
<1> USE DEF u, v
<1> HIDE DEF aa, bb
<1>4. ASSUME NEW r \in roles \cup {s}, NEW i \in 1..Len(f[r])
      PROVE  \E k \in 1..Len(aa) : aa[k] = f[r][i] /\ bb[k] = g[r][i]
  <2>1. CASE r \in roles
    <3>1. PICK k \in 1..Len(a) : a[k] = f[r][i] /\ b[k] = g[r][i]
      BY <1>1, <2>1
    <3>2. k \in 1..Len(aa) /\ aa[k] = a[k] /\ bb[k] = b[k]
      BY <1>1, <1>2, <1>3
    <3> QED
      BY <3>1, <3>2
  <2>2. CASE r = s
    <3>1. i \in 1..Len(u)
      BY <2>2
    <3>2. Len(a) + i \in 1..Len(aa)
      BY <1>1, <1>2, <3>1
    <3>3. aa[Len(a) + i] = u[i] /\ bb[Len(a) + i] = v[i]
      BY <1>1, <1>2, <1>3, <3>1
    <3> QED
      BY <2>2, <3>2, <3>3
  <2> QED
    BY <2>1, <2>2
<1>5. Len(aa) \in Nat /\ Len(bb) = Len(aa)
  BY <1>1, <1>2, <1>3
<1>6. Aligned(roles \cup {s}, f, g, aa, bb)
  BY <1>2, <1>3, <1>4, <1>5 DEF Aligned
<1> QED
  BY <1>6 DEF aa, bb

\* All roles, in the order of the headers.
InOrder(f) ==
  f["time_stamp"] \o f["join_key"] \o f["target"] \o f["categorical"]
    \o f["numerical"] \o f["text"] \o f["unused_float"] \o f["unused_string"]

Parallel(f, g) == \A r \in RoleSet : Tuple(f[r]) /\ Tuple(g[r]) /\ Len(g[r]) = Len(f[r])

\* Names and values that go role by role stay aligned in the order of the headers.
LEMMA AlignedInOrder ==
  ASSUME NEW f, NEW g, Parallel(f, g)
  PROVE  Aligned(RoleSet, f, g, InOrder(f), InOrder(g))
<1>0. \A r \in RoleSet : Tuple(f[r]) /\ Tuple(g[r]) /\ Len(g[r]) = Len(f[r])
  BY DEF Parallel
<1>1. Aligned({"time_stamp"}, f, g, f["time_stamp"], g["time_stamp"])
  BY <1>0, RolesAre DEF Aligned
<1> DEFINE A1(x) == x["time_stamp"]
           A2(x) == A1(x) \o x["join_key"]
           A3(x) == A2(x) \o x["target"]
           A4(x) == A3(x) \o x["categorical"]
           A5(x) == A4(x) \o x["numerical"]
           A6(x) == A5(x) \o x["text"]
           A7(x) == A6(x) \o x["unused_float"]
           A8(x) == A7(x) \o x["unused_string"]
           R1 == {"time_stamp"}
           R2 == R1 \cup {"join_key"}
           R3 == R2 \cup {"target"}
           R4 == R3 \cup {"categorical"}
           R5 == R4 \cup {"numerical"}
           R6 == R5 \cup {"text"}
           R7 == R6 \cup {"unused_float"}
           R8 == R7 \cup {"unused_string"}
<1>2. Aligned(R1, f, g, A1(f), A1(g))
  BY <1>1
<1>3. Aligned(R2, f, g, A2(f), A2(g))
  <2>1. "join_key" \in RoleSet
    BY RolesAre
  <2> HIDE DEF A1, R1
  <2> QED
    BY <1>0, <1>2, <2>1, AlignedNext
<1>4. Aligned(R3, f, g, A3(f), A3(g))
  <2>1. "target" \in RoleSet
    BY RolesAre
  <2> HIDE DEF A2, R2
  <2> QED
    BY <1>0, <1>3, <2>1, AlignedNext
<1>5. Aligned(R4, f, g, A4(f), A4(g))
  <2>1. "categorical" \in RoleSet
    BY RolesAre
  <2> HIDE DEF A3, R3
  <2> QED
    BY <1>0, <1>4, <2>1, AlignedNext
<1>6. Aligned(R5, f, g, A5(f), A5(g))
  <2>1. "numerical" \in RoleSet
    BY RolesAre
  <2> HIDE DEF A4, R4
  <2> QED
    BY <1>0, <1>5, <2>1, AlignedNext
<1>7. Aligned(R6, f, g, A6(f), A6(g))
  <2>1. "text" \in RoleSet
    BY RolesAre
  <2> HIDE DEF A5, R5
  <2> QED
    BY <1>0, <1>6, <2>1, AlignedNext
<1>8. Aligned(R7, f, g, A7(f), A7(g))
  <2>1. "unused_float" \in RoleSet
    BY RolesAre
  <2> HIDE DEF A6, R6
  <2> QED
    BY <1>0, <1>7, <2>1, AlignedNext
<1>9. Aligned(R8, f, g, A8(f), A8(g))
  <2>1. "unused_string" \in RoleSet
    BY RolesAre
  <2> HIDE DEF A7, R7
  <2> QED
    BY <1>0, <1>8, <2>1, AlignedNext
<1>10. R8 = RoleSet
  BY RolesAre
<1>11. A8(f) = InOrder(f) /\ A8(g) = InOrder(g)
  BY DEF InOrder
<1> HIDE DEF A8, R8
<1> QED
  BY <1>9, <1>10, <1>11 

\* Cells stand below the header of their column.
LEMMA CellsBelowHeaders ==
  ASSUME FrameInv
  PROVE  ContentUnderItsHeader
<1> SUFFICES ASSUME NEW n \in Live, NEW c \in AllColumns(Get(n))
             PROVE  LET d == Get(n)
                    IN \E i \in 1..Len(get_headers(d)) :
                         get_headers(d)[i] = c.name /\ cells(d)[i] = ValuesOf(d, c)
  BY DEF ContentUnderItsHeader
<1> DEFINE d == Get(n)
           f == [r \in RoleSet |-> [i \in 1..Len(d.cols[r]) |-> d.cols[r][i].name]]
           g == [r \in RoleSet |-> [i \in 1..Len(d.cols[r]) |-> ValuesOf(d, d.cols[r][i])]]
<1>1. GoodFrame(d)
  BY FrameOfProject DEF FrameOf
<1> HIDE DEF d
<1>2. \A r \in RoleSet : d.cols[r] \in Seq(ColumnRecords) /\ Len(d.cols[r]) \in Nat
  BY <1>1 DEF GoodFrame, Typed
<1>3. get_headers(d) = InOrder(f) /\ cells(d) = InOrder(g)
  BY RolesAre DEF get_headers, cells, InOrder
<1>4. \A r \in RoleSet : /\ Tuple(f[r]) /\ Len(f[r]) = Len(d.cols[r])
                         /\ Tuple(g[r]) /\ Len(g[r]) = Len(d.cols[r])
                         /\ \A i \in 1..Len(d.cols[r]) : /\ f[r][i] = d.cols[r][i].name
                                                        /\ g[r][i] = ValuesOf(d, d.cols[r][i])
  BY <1>2 DEF Tuple
<1>5. PICK r \in RoleSet : c \in Range(d.cols[r])
  BY DEF AllColumns, d
<1>6. PICK i \in 1..Len(d.cols[r]) : c = d.cols[r][i]
  BY <1>2, <1>5 DEF Range
<1> HIDE DEF f, g
<1>7. PICK k \in 1..Len(InOrder(f)) : InOrder(f)[k] = f[r][i] /\ InOrder(g)[k] = g[r][i]
  <2>1. Parallel(f, g)
    BY <1>4 DEF Parallel
  <2>2. Aligned(RoleSet, f, g, InOrder(f), InOrder(g))
    BY <2>1, AlignedInOrder
  <2>3. i \in 1..Len(f[r])
    BY <1>4
  <2> QED
    BY <2>2, <2>3 DEF Aligned
<1> QED
  BY <1>3, <1>4, <1>6, <1>7 DEF d

-----------------------------------------------------------------------------
(* DataFrame: what a asked changes *)

\* The data frame of this name is what it was, under the same fingerprint.
StaysAsItIs(n) == IsFrame(n)' /\ SeenAs(Get(n))' = SeenAs(Get(n))

\* A request changes one data frame at most, and none if it ends with an
\* exception, whatever grew in place or was shared before that.
RequestsKeepToOneFrame ==
  \A m, n \in Live : ~ StaysAsItIs(m) /\ ~ StaysAsItIs(n) => m = n /\ outcome'[2] = "none"

\* An answer leaves all other records of the project.
LEMMA OneRecordChanges ==
  ASSUME FrameInv, NEW name \in Names, NEW asked, NEW e, Answer(asked, name, e)
  PROVE  \A n \in Live : n # name \/ outcome'[2] # "none" => data_frames'[n] = data_frames[n]
<1>1. /\ outcome' = <<asked, e.failure>>
      /\ data_frames' = IF e.failure # "none" THEN data_frames
                        ELSE [data_frames EXCEPT ![name] = WithoutHeap(e)]
  BY DEF Answer
<1>2. outcome'[2] = e.failure
  BY <1>1
<1>3. data_frames \in [Names -> FrameRecords \cup {NoFrame}] /\ Live \subseteq Names
  BY DEF FrameInv, Live
<1> QED
  BY <1>1, <1>2, <1>3

\* A data frame whose record is left has the content that it had: what its
\* fingerprint has been seen with does not change.
LEMMA LeftIsAsItWas ==
  ASSUME FrameInv, FrameInv', known \subseteq known', NEW n \in Live, data_frames'[n] = data_frames[n]
  PROVE  StaysAsItIs(n)
<1>1. IsFrame(n)' /\ n \in Live'
  BY DEF Live, IsFrame
<1>2. SeenAs(Get(n)) \in known' /\ SeenAs(Get(n))' \in known'
  BY <1>1 DEF FrameInv
<1>3. SeenAs(Get(n))[1] = fingerprint(data_frames[n])
  BY DEF SeenAs, fingerprint, Get, OnHeap
<1>4. SeenAs(Get(n))'[1] = fingerprint(data_frames'[n])
  BY DEF SeenAs, fingerprint, Get, OnHeap
<1>5. SeenAs(Get(n))' = SeenAs(Get(n))
  BY <1>2, <1>3, <1>4 DEF FrameInv
<1> QED
  BY <1>1, <1>5 DEF StaysAsItIs

\* An answer keeps to its data frame.
LEMMA AnswerKeepsToOne ==
  ASSUME FrameInv, FrameInv', NEW name \in Names, NEW asked, NEW e, Answer(asked, name, e)
  PROVE  RequestsKeepToOneFrame
<1>1. known \subseteq known'
  BY DEF Answer
<1>2. \A n \in Live : n # name \/ outcome'[2] # "none" => data_frames'[n] = data_frames[n]
  BY OneRecordChanges
<1>3. \A n \in Live : n # name \/ outcome'[2] # "none" => StaysAsItIs(n)
  BY <1>1, <1>2, LeftIsAsItWas
<1> QED
  BY <1>3 DEF RequestsKeepToOneFrame

\* So does every request.
LEMMA NextKeepsToOne ==
  ASSUME FrameInv, FrameInv', FrameNext
  PROVE  RequestsKeepToOneFrame
<1>1. CASE data_frames' = data_frames /\ known' = known
  <2>1. \A n \in Live : StaysAsItIs(n)
    BY <1>1, LeftIsAsItWas
  <2> QED
    BY <2>1 DEF RequestsKeepToOneFrame
<1>2. CASE \E name \in Names : \E asked, e : Answer(asked, name, e)
  BY <1>2, AnswerKeepsToOne
<1>3. ASSUME NEW n \in Names, Create(n) \/ AddColumn(n) \/ RemoveColumn(n)
      PROVE  \E asked, e : Answer(asked, n, e)
  BY <1>3 DEF Create, AddColumn, RemoveColumn
<1>4. ASSUME NEW n \in Names, AppendTo(n) \/ Freeze(n) \/ Load(n)
      PROVE  \E asked, e : Answer(asked, n, e)
  BY <1>4 DEF AppendTo, Freeze, Load
<1>5. ASSUME NEW n \in Names, NEW b \in Names, NEW v \in Views, FromView(n, b, v)
      PROVE  \E asked, e : Answer(asked, n, e)
  BY <1>5 DEF FromView
<1>6. ASSUME NEW n \in Names, Save(n)
      PROVE  data_frames' = data_frames /\ known' = known
  BY <1>6 DEF Save
<1>7. Done => data_frames' = data_frames /\ known' = known
  BY DEF Done, frameVars
<1> QED
  BY <1>1, <1>2, <1>3, <1>4, <1>5, <1>6, <1>7 DEF FrameNext

-----------------------------------------------------------------------------
(* DataFrame: the theorems *)

\* FrameInv is an invariant of the requests on data frames: each data frame is
\* good on the heap, none shares a column or an index with another one, and
\* what is saved has been seen under its fingerprint.
THEOREM FramesStayGood == FrameSpec => []FrameInv
<1>1. FrameInit => FrameInv
  BY FrameInitGood
<1>2. FrameInv /\ [FrameNext]_frameVars => FrameInv'
  BY FrameNextKeeps
<1> QED
  BY <1>1, <1>2, PTL DEF FrameSpec

\* Columns and indices point to something that is on the heap (DataFrame.hpp).
THEOREM FrameTypes == FrameSpec => []FrameTypeOK
<1>1. FrameInv => FrameTypeOK
  BY TypeOfFrames
<1> QED
  BY <1>1, FramesStayGood, PTL

\* A fingerprint stands for one content for good, whatever requests come
\* (DataFrame::fingerprint, update_last_change).
THEOREM FingerprintsTellContent == FrameSpec => []FingerprintTellsContent
<1>1. FrameInv => FingerprintTellsContent
  BY FingerprintTells
<1> QED
  BY <1>1, FramesStayGood, PTL

\* Indices find exactly the rows of their column, except those that a data frame
\* with several join keys got when it was loaded; cells stand below their header
\* and data frames are tables (Index::calculate, DataFrame::get_content).
THEOREM FramesAlwaysFindTheirRows == FrameSpec => []FramesFindTheirRows
<1>1. FrameInv => FramesFindTheirRows
  BY IndicesFind, CellsBelowHeaders, TablesAreRectangular DEF FramesFindTheirRows
<1> QED
  BY <1>1, FramesStayGood, PTL

\* No request changes a data frame that it did not name, and no failed request
\* any at all (DataFrameManager.cpp: the data frame is replaced last, while its
\* columns were shared and grew in place before).
THEOREM EveryRequestKeepsToOneFrame == FrameSpec => [][RequestsKeepToOneFrame]_frameVars
<1>1. FrameInv /\ FrameInv' /\ [FrameNext]_frameVars => [RequestsKeepToOneFrame]_frameVars
  BY NextKeepsToOne
<1> QED
  BY <1>1, FramesStayGood, PTL DEF FrameSpec

================================================================================
