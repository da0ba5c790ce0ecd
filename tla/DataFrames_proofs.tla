--------------------------- MODULE DataFrames_proofs ---------------------------
(***************************************************************************)
(* Proofs about DataFrames: what every variable holds, and that readers    *)
(* and restarts find behind every id the string that was sent.             *)
(*                                                                         *)
(* The inductive invariant has two parts.  Control says what each thread   *)
(* holds at its place in the handler: the lock, a request, an encoding on  *)
(* top of the global one.  Meaning says in which encoding the ids of every *)
(* frame stand for what was sent: in the global one; while a thread is     *)
(* halfway through a commit, in the global one as it will be; on the disk, *)
(* in the saved one, which is a beginning of the global one.               *)
(***************************************************************************)
EXTENDS DataFrames, RecursionTheorems, SequenceTheorems

Categories == Strings \cup {CutString}

\* No string has two ids.
NoDuplicates(s) == \A i, j \in 1 .. Len(s) : s[i] = s[j] => i = j

-----------------------------------------------------------------------------
\* The look-up in a vector finds a place of the string, or it is not there.
LEMMA IdInFinds ==
  ASSUME NEW S, NEW s \in Seq(S), NEW x
  PROVE  /\ IdIn(s, x) \in -1 .. Len(s) - 1
         /\ IdIn(s, x) = -1 => \A i \in 1 .. Len(s) : s[i] # x
         /\ IdIn(s, x) # -1 => s[IdIn(s, x) + 1] = x
<1> DEFINE I == {i \in 1 .. Len(s) : s[i] = x}
<1>1. IdIn(s, x) = IF I # {} THEN Min(I) - 1 ELSE -1
  BY DEF IdIn, SelectInSeq
<1>2. CASE I = {}
  BY <1>1, <1>2
<1>3. CASE I # {}
  <2>1. I \subseteq Nat
    OBVIOUS
  <2>2. Min(I) \in I
    BY <1>3, <2>1, LeastNumber DEF Min
  <2> QED
    BY <1>1, <1>3, <2>2
<1> QED
  BY <1>2, <1>3

\* Of two vectors, one inserted behind the other, the elements keep their order.
LEMMA JoinedElements ==
  ASSUME NEW S, NEW s \in Seq(S), NEW u \in Seq(S)
  PROVE  /\ s \o u \in Seq(S)
         /\ Len(s) \in Nat /\ Len(u) \in Nat /\ Len(s \o u) = Len(s) + Len(u)
         /\ \A i \in 1 .. Len(s) : (s \o u)[i] = s[i]
         /\ \A i \in 1 .. Len(u) : (s \o u)[Len(s) + i] = u[i]
OBVIOUS

\* NULL gets no id.
LEMMA NullIsNoCategory == NULL \notin Categories
BY DataFramesAssumption DEF Categories

\* Inserting into the global encoding appends a string that is new.
LEMMA InsertGlobal ==
  ASSUME NEW g \in Seq(Categories), NEW x \in Categories
  PROVE  LET h == insert(AsEncoding(g), <<>>, x).vector_
         IN  \/ h = g /\ \E i \in 1 .. Len(g) : g[i] = x
             \/ h = Append(g, x) /\ \A i \in 1 .. Len(g) : g[i] # x
<1>1. x # NULL
  BY NullIsNoCategory
<1>2. IdIn(<<>>, x) = -1
  <2>1. <<>> \in Seq(Categories) /\ Len(<<>>) = 0
    OBVIOUS
  <2>2. IdIn(<<>>, x) \in -1 .. Len(<<>>) - 1
    BY <2>1, IdInFinds
  <2> QED
    BY <2>1, <2>2
<1>3. string_to_int(AsEncoding(g), <<>>, x) = IdIn(g, x)
  BY <1>1, <1>2, IdInFinds DEF string_to_int, AsEncoding
<1>4. CASE IdIn(g, x) = -1
  <2>1. insert(AsEncoding(g), <<>>, x).vector_ = Append(g, x)
    BY <1>1, <1>3, <1>4 DEF insert, AsEncoding
  <2> QED
    BY <2>1, <1>4, IdInFinds
<1>5. CASE IdIn(g, x) # -1
  <2>1. insert(AsEncoding(g), <<>>, x).vector_ = g
    BY <1>1, <1>3, <1>5 DEF insert, AsEncoding
  <2>2. IdIn(g, x) + 1 \in 1 .. Len(g) /\ g[IdIn(g, x) + 1] = x
    BY <1>5, IdInFinds
  <2> QED
    BY <2>1, <2>2
<1> QED
  BY <1>4, <1>5

\* A sequence without duplicates has none when something it does not hold
\* comes after its end.
LEMMA NewWithoutDuplicate ==
  ASSUME NEW S, NEW h \in Seq(S), NEW x \in S,
         NoDuplicates(h), \A i \in 1 .. Len(h) : h[i] # x
  PROVE  NoDuplicates(Append(h, x))
<1> DEFINE r == Append(h, x)
<1>1. Len(h) \in Nat /\ Len(r) = Len(h) + 1 /\ r[Len(h) + 1] = x
  OBVIOUS
<1>2. \A i \in 1 .. Len(h) : r[i] = h[i]
  OBVIOUS
<1> HIDE DEF r
<1>3. ASSUME NEW i \in 1 .. Len(r), NEW j \in 1 .. Len(r), r[i] = r[j] PROVE i = j
  <2>1. CASE i \in 1 .. Len(h) /\ j \in 1 .. Len(h)
    BY <1>2, <1>3, <2>1 DEF NoDuplicates
  <2>2. CASE i = Len(h) + 1 \/ j = Len(h) + 1
    BY <1>1, <1>2, <1>3, <2>2
  <2> QED
    BY <1>1, <2>1, <2>2
<1> QED
  BY <1>3 DEF NoDuplicates, r

\* Appending an encoding to the global one gives no string two ids, and when
\* its strings are new they follow in their order.
LEMMA AppendAddsWhatIsNew ==
  ASSUME NEW g \in Seq(Categories), NoDuplicates(g),
         NEW v \in Seq(Categories), NEW e, e.vector_ = v
  PROVE  /\ append(g, e) \in Seq(Categories)
         /\ NoDuplicates(append(g, e))
         /\ NoDuplicates(g \o v) => append(g, e) = g \o v
<1> DEFINE N == Len(v)
           next(h, n) == insert(AsEncoding(h), <<>>, v[n]).vector_
           step == [n \in 1 .. N |-> [h \in Seq(Categories) |-> next(h, n)]]
           appended == CHOOSE f : f = [n \in 0 .. N |-> IF n = 0 THEN g ELSE next(f[n - 1], n)]
<1>1. N \in Nat /\ N = Len(v) /\ \A n \in 1 .. N : v[n] \in Categories
  OBVIOUS
<1>2. ASSUME NEW h \in Seq(Categories), NEW n \in 1 .. N
      PROVE  \/ next(h, n) = h /\ \E i \in 1 .. Len(h) : h[i] = v[n]
             \/ next(h, n) = Append(h, v[n]) /\ \A i \in 1 .. Len(h) : h[i] # v[n]
  BY <1>1, InsertGlobal
<1>3. append(g, e) = appended[N]
  BY DEF append
<1> HIDE DEF next, N
<1>4. ASSUME NEW h \in Seq(Categories), NEW n \in 1 .. N PROVE next(h, n) \in Seq(Categories)
  <2>1. next(h, n) = h \/ next(h, n) = Append(h, v[n])
    BY <1>2
  <2>2. Append(h, v[n]) \in Seq(Categories)
    BY <1>1
  <2> QED
    BY <2>1, <2>2
<1>5. appended = [n \in 0 .. N |-> IF n = 0 THEN g ELSE next(appended[n - 1], n)]
  <2>1. step \in [1 .. N -> [Seq(Categories) -> Seq(Categories)]]
    BY <1>4
  <2>2. ASSUME NEW h \in Seq(Categories), NEW n \in 1 .. N PROVE step[n][h] = next(h, n)
    OBVIOUS
  <2> HIDE DEF step
  <2> DEFINE S == Seq(Categories)
  <2> HIDE DEF S
  <2>3. g \in S /\ step \in [1 .. N -> [S -> S]]
    BY <2>1 DEF S
  <2>4. PICK f : Repeats(f, N, S, g, step)
    BY <1>1, <2>3, RecursiveFunctionExists
  <2>5. f = [n \in 0 .. N |-> IF n = 0 THEN g ELSE next(f[n - 1], n)]
    <3>1. ASSUME NEW n \in 0 .. N PROVE f[n] = IF n = 0 THEN g ELSE next(f[n - 1], n)
      <4>1. CASE n = 0
        BY <2>4, <4>1 DEF Repeats
      <4>2. CASE n # 0
        <5>1. n \in 1 .. N /\ n - 1 \in 0 .. N
          BY <1>1, <4>2
        <5>2. f[n - 1] \in Seq(Categories)
          BY <2>4, <5>1 DEF Repeats, S
        <5>3. f[n] = next(f[n - 1], n)
          BY <2>2, <2>4, <5>1, <5>2 DEF Repeats
        <5> QED
          BY <4>2, <5>3
      <4> QED
        BY <4>1, <4>2
    <3> QED
      BY <2>4, <3>1 DEF Repeats
  <2> QED
    BY <2>5
<1> HIDE DEF appended
<1> DEFINE P(n) == /\ appended[n] \in Seq(Categories)
                   /\ NoDuplicates(appended[n])
                   /\ NoDuplicates(g \o v) => appended[n] = g \o SubSeq(v, 1, n)
           T == {n \in 0 .. N : P(n)}
<1>6. 0 \in T
  <2>1. appended[0] = g /\ SubSeq(v, 1, 0) = <<>>
    BY <1>1, <1>5
  <2> QED
    BY <1>1, <2>1
<1>7. ASSUME NEW n \in 0 .. N - 1, n \in T PROVE n + 1 \in T
  <2> DEFINE h == appended[n]
             new == v[n + 1]
  <2>1. /\ h \in Seq(Categories) /\ new \in Categories /\ n + 1 \in 1 .. N
        /\ NoDuplicates(h) /\ (NoDuplicates(g \o v) => h = g \o SubSeq(v, 1, n))
    <3>1. P(n) /\ n + 1 \in 1 .. N
      BY <1>7, <1>1
    <3>2. new \in Categories
      BY <1>1, <3>1
    <3> QED
      BY <3>1, <3>2, Zenon
  <2>2. appended[n + 1] = next(h, n + 1)
    <3>1. (n + 1) - 1 = n /\ n + 1 # 0 /\ n + 1 \in 0 .. N
      BY <1>1
    <3> QED
      BY <1>5, <3>1
  <2>3. CASE appended[n + 1] = h /\ \E i \in 1 .. Len(h) : h[i] = new
    <3>1. ~ NoDuplicates(g \o v)
      <4>1. SUFFICES ASSUME NoDuplicates(g \o v) PROVE FALSE
        OBVIOUS
      <4>2. PICK i \in 1 .. Len(h) : h[i] = new
        BY <2>3
      <4>3. h = g \o SubSeq(v, 1, n)
        BY <2>1, <4>1
      <4>4. i \in 1 .. Len(g) + n /\ (g \o v)[i] = h[i]
        BY <1>1, <4>2, <4>3
      <4>5. Len(g) + n + 1 \in 1 .. Len(g \o v) /\ (g \o v)[Len(g) + n + 1] = new
        BY <1>1
      <4> QED
        BY <4>1, <4>2, <4>4, <4>5, <1>1 DEF NoDuplicates
    <3>2. P(n + 1)
      <4> HIDE DEF h
      <4> QED
        BY <2>1, <2>3, <3>1, Zenon
    <3> HIDE DEF P
    <3> QED
      BY <1>1, <2>1, <3>2
  <2>4. CASE appended[n + 1] = Append(h, new) /\ \A i \in 1 .. Len(h) : h[i] # new
    <3>1. NoDuplicates(appended[n + 1])
      <4> HIDE DEF h, new
      <4>1. NoDuplicates(Append(h, new))
        BY <2>1, <2>4, NewWithoutDuplicate
      <4> QED
        BY <2>4, <4>1
    <3>2. SubSeq(v, 1, n + 1) = Append(SubSeq(v, 1, n), new)
      BY <1>1, <2>1
    <3>3. g \o Append(SubSeq(v, 1, n), new) = Append(g \o SubSeq(v, 1, n), new)
      BY <1>1, <2>1
    <3>4. Append(h, new) \in Seq(Categories)
      BY <2>1
    <3>5. P(n + 1)
      <4> HIDE DEF h
      <4> QED
        BY <2>1, <2>4, <3>1, <3>2, <3>3, <3>4, Zenon
    <3> HIDE DEF P
    <3> QED
      BY <1>1, <2>1, <3>5
  <2> QED
    BY <2>1, <2>2, <2>3, <2>4, <1>2
<1>8. N \in T
  <2> HIDE DEF T
  <2>1. 0 .. N \subseteq T
    BY <1>1, <1>6, <1>7, BoundedInduction
  <2> QED
    BY <1>1, <2>1
<1>9. SubSeq(v, 1, N) = v
  BY <1>1
<1> QED
  BY <1>3, <1>8, <1>9

-----------------------------------------------------------------------------
(* Parsing a column *)

\* An encoding that a request builds on the global encoding g.
OnTopOf(e, g) ==
  e \in LocalEncodings /\ e.subsize_ = Len(g) /\ NoDuplicates(g \o e.vector_)

\* The id is the one string x has, or will have, in g.
IdStandsFor(id, x, g) ==
  \/ id = -1 /\ x = NULL
  \/ id \in 0 .. Len(g) - 1 /\ g[id + 1] = x

\* The ids of a column stand for the strings that were sent.
Stands(rows, sent, g) == \A i \in DOMAIN rows : IdStandsFor(rows[i], sent[i], g)

\* h is g, or g and something behind it.
Begins(g, h) == Len(g) <= Len(h) /\ \A k \in 1 .. Len(g) : h[k] = g[k]

\* An id stands for the same string when the encoding grows.
LEMMA IdsKeepTheirMeaning ==
  ASSUME NEW g, Len(g) \in Nat, NEW h, Len(h) \in Nat, Begins(g, h),
         NEW id, NEW x, IdStandsFor(id, x, g)
  PROVE  IdStandsFor(id, x, h)
BY DEF Begins, IdStandsFor

\* What begins a vector still does so behind another.
LEMMA ConcatBegins ==
  ASSUME NEW S, NEW g \in Seq(S), NEW v \in Seq(S), NEW w \in Seq(S), Begins(v, w)
  PROVE  Begins(g \o v, g \o w) /\ Begins(g, g \o v)
BY JoinedElements DEF Begins

\* A string that is inserted into the encoding of a request gets the id it will
\* have once that encoding is appended to the global one.
LEMMA InsertLocal ==
  ASSUME NEW g \in Seq(Categories), NEW e, OnTopOf(e, g), NEW x \in Strings \cup {NULL}
  PROVE  LET h == insert(e, g, x)
         IN  /\ OnTopOf(h, g)
             /\ h = e \/ h.vector_ = Append(e.vector_, x)
             /\ IdStandsFor(string_to_int(h, g, x), x, g \o h.vector_)
<1> DEFINE v == e.vector_
           h == insert(e, g, x)
           id == string_to_int(h, g, x)
<1>1. /\ v \in Seq(Categories) /\ e.subsize_ = Len(g) /\ NoDuplicates(g \o v)
      /\ e \in [subsize_ : Nat, vector_ : Seq(Categories)]
  BY DEF OnTopOf, LocalEncodings, Categories
<1>2. CASE x = NULL
  <2>1. h = e
    BY <1>2 DEF insert
  <2>2. id = -1
    BY <1>2 DEF string_to_int
  <2> QED
    BY <1>2, <2>1, <2>2 DEF IdStandsFor
<1>3. CASE x # NULL /\ IdIn(g, x) # -1
  <2>1. string_to_int(e, g, x) = IdIn(g, x)
    BY <1>3 DEF string_to_int
  <2>2. h = e
    BY <1>3, <2>1 DEF insert
  <2>3. IdIn(g, x) \in 0 .. Len(g) - 1 /\ g[IdIn(g, x) + 1] = x
    BY <1>3, IdInFinds
  <2>4. IdStandsFor(IdIn(g, x), x, g \o v)
    BY <1>1, <2>3 DEF IdStandsFor
  <2> QED
    BY <2>1, <2>2, <2>4
<1>4. CASE x # NULL /\ IdIn(g, x) = -1 /\ IdIn(v, x) # -1
  <2>1. string_to_int(e, g, x) = IdIn(v, x) + Len(g)
    BY <1>1, <1>4 DEF string_to_int
  <2>2. IdIn(v, x) \in 0 .. Len(v) - 1 /\ v[IdIn(v, x) + 1] = x
    BY <1>1, <1>4, IdInFinds
  <2>3. h = e
    BY <1>4, <2>1, <2>2 DEF insert
  <2>4. IdStandsFor(IdIn(v, x) + Len(g), x, g \o v)
    <3>1. /\ Len(g) \in Nat /\ Len(v) \in Nat /\ Len(g \o v) = Len(g) + Len(v)
          /\ (g \o v)[Len(g) + (IdIn(v, x) + 1)] = x
      BY <1>1, <2>2, JoinedElements
    <3>2. Len(g) + (IdIn(v, x) + 1) = (IdIn(v, x) + Len(g)) + 1
      BY <2>2, <3>1
    <3>3. IdIn(v, x) + Len(g) \in 0 .. Len(g \o v) - 1
      BY <2>2, <3>1
    <3> QED
      BY <3>1, <3>2, <3>3 DEF IdStandsFor
  <2> QED
    BY <2>1, <2>3, <2>4
<1>5. CASE x # NULL /\ IdIn(g, x) = -1 /\ IdIn(v, x) = -1
  <2> DEFINE w == Append(v, x)
  <2>1. string_to_int(e, g, x) = -1
    BY <1>5 DEF string_to_int
  <2>2. h = [e EXCEPT !.vector_ = w]
    BY <1>5, <2>1 DEF insert
  <2>3. x \in Categories
    BY <1>5 DEF Categories
  <2>4. w \in Seq(Categories) /\ Len(w) \in 1 .. Len(w) /\ w[Len(w)] = x
    BY <1>1, <2>3
  <2>9. h.vector_ = w /\ h.subsize_ = Len(g) /\ h \in [subsize_ : Nat, vector_ : Seq(Categories)]
    BY <1>1, <2>2, <2>4
  <2>5. NoDuplicates(g \o w)
    <3>1. /\ \A i \in 1 .. Len(g) : g[i] # x
          /\ \A i \in 1 .. Len(v) : v[i] # x
      BY <1>1, <1>5, IdInFinds
    <3>2. g \o w = Append(g \o v, x)
      BY <1>1, <2>3
    <3>3. \A i \in 1 .. Len(g \o v) : (g \o v)[i] # x
      BY <1>1, <3>1
    <3> QED
      BY <1>1, <2>3, <3>2, <3>3 DEF NoDuplicates
  <2> HIDE DEF w
  <2>6. IdIn(w, x) \in 0 .. Len(w) - 1 /\ w[IdIn(w, x) + 1] = x
    <3>1. IdIn(w, x) # -1
      BY <2>4, IdInFinds
    <3> QED
      BY <2>4, <3>1, IdInFinds
  <2>7. id = IdIn(w, x) + Len(g)
    BY <1>5, <2>6, <2>9 DEF string_to_int
  <2>8. IdStandsFor(IdIn(w, x) + Len(g), x, g \o w)
    <3>1. /\ IdIn(w, x) + Len(g) \in 0 .. Len(g \o w) - 1
          /\ (g \o w)[IdIn(w, x) + Len(g) + 1] = w[IdIn(w, x) + 1]
      <4> DEFINE k == IdIn(w, x)
      <4>1. /\ Len(g) \in Nat /\ Len(w) \in Nat /\ Len(g \o w) = Len(g) + Len(w)
            /\ \A i \in 1 .. Len(w) : (g \o w)[Len(g) + i] = w[i]
        BY <2>4, JoinedElements
      <4>2. k \in 0 .. Len(w) - 1
        BY <2>6
      <4> HIDE DEF k
      <4>3. /\ k + 1 \in 1 .. Len(w) /\ Len(g) + (k + 1) = k + Len(g) + 1
            /\ k + Len(g) \in 0 .. (Len(g) + Len(w)) - 1
        BY <4>1, <4>2
      <4>4. (g \o w)[Len(g) + (k + 1)] = w[k + 1]
        BY <4>1, <4>3
      <4> QED
        BY <4>1, <4>3, <4>4 DEF k
    <3> QED
      BY <2>6, <3>1 DEF IdStandsFor
  <2> QED
    BY <2>5, <2>7, <2>8, <2>9 DEF OnTopOf, LocalEncodings, Categories, w
<1> QED
  BY <1>2, <1>3, <1>4, <1>5

\* After a column was parsed its ids are, in order, those of the strings that
\* were sent, in the global encoding once the request's own is appended to it.
LEMMA ParsedStands ==
  ASSUME categories_ \in Seq(Categories), NEW e, OnTopOf(e, categories_),
         NEW column \in Seq(Strings \cup {NULL})
  PROVE  LET p == Parsed(e, column)
         IN  /\ OnTopOf(p.encoding, categories_)
             /\ p.ids \in Seq(Nat \cup {-1}) /\ Len(p.ids) = Len(column)
             /\ Stands(p.ids, column, categories_ \o p.encoding.vector_)
<1> DEFINE N == Len(column)
           g == categories_
           S == {p \in [encoding : LocalEncodings, ids : Seq(Nat \cup {-1})] : OnTopOf(p.encoding, g)}
           start == [encoding |-> e, ids |-> <<>>]
           next(p, n) ==
             LET grown == insert(p.encoding, g, column[n])
                 id == string_to_int(grown, g, column[n])
             IN  [encoding |-> grown, ids |-> Append(p.ids, id)]
           step == [n \in 1 .. N |-> [p \in S |-> next(p, n)]]
           parsed == CHOOSE f : f = [n \in 0 .. N |-> IF n = 0 THEN start ELSE next(f[n - 1], n)]
<1>1. N \in Nat /\ N = Len(column) /\ \A n \in 1 .. N : column[n] \in Strings \cup {NULL}
  OBVIOUS
<1>2. Parsed(e, column) = parsed[N]
  BY DEF Parsed
<1>3. start \in S
  BY DEF OnTopOf
<1> HIDE DEF N
<1>4. ASSUME NEW p \in S, NEW n \in 1 .. N
      PROVE  /\ next(p, n) \in S
             /\ LET v == p.encoding.vector_
                    w == next(p, n).encoding.vector_
                IN  w = v \/ w = Append(v, column[n])
             /\ next(p, n).ids = Append(p.ids, next(p, n).ids[Len(p.ids) + 1])
             /\ IdStandsFor(next(p, n).ids[Len(p.ids) + 1], column[n], g \o next(p, n).encoding.vector_)
  <2> DEFINE h == insert(p.encoding, g, column[n])
             id == string_to_int(h, g, column[n])
  <2>1. /\ OnTopOf(h, g)
        /\ h = p.encoding \/ h.vector_ = Append(p.encoding.vector_, column[n])
        /\ IdStandsFor(id, column[n], g \o h.vector_)
    BY <1>1, InsertLocal
  <2>2. id \in Nat \cup {-1}
    BY <2>1 DEF IdStandsFor
  <2> HIDE DEF h, id
  <2>3. next(p, n) = [encoding |-> h, ids |-> Append(p.ids, id)]
    BY DEF h, id
  <2>4. p.ids \in Seq(Nat \cup {-1})
    OBVIOUS
  <2>5. Append(p.ids, id) \in Seq(Nat \cup {-1}) /\ Append(p.ids, id)[Len(p.ids) + 1] = id
    BY <2>2, <2>4
  <2> HIDE DEF next
  <2>6. next(p, n) \in S
    BY <2>1, <2>3, <2>5 DEF OnTopOf
  <2> QED
    BY <2>1, <2>3, <2>5, <2>6
<1> HIDE DEF next, start
<1>5. parsed = [n \in 0 .. N |-> IF n = 0 THEN start ELSE next(parsed[n - 1], n)]
  <2>1. step \in [1 .. N -> [S -> S]]
    BY <1>4
  <2>2. ASSUME NEW p \in S, NEW n \in 1 .. N PROVE step[n][p] = next(p, n)
    OBVIOUS
  <2> HIDE DEF step, S
  <2>3. PICK f : Repeats(f, N, S, start, step)
    BY <1>1, <1>3, <2>1, RecursiveFunctionExists
  <2>4. f = [n \in 0 .. N |-> IF n = 0 THEN start ELSE next(f[n - 1], n)]
    <3>1. ASSUME NEW n \in 0 .. N PROVE f[n] = IF n = 0 THEN start ELSE next(f[n - 1], n)
      <4>1. CASE n = 0
        BY <2>3, <4>1 DEF Repeats
      <4>2. CASE n # 0
        <5>1. n \in 1 .. N /\ n - 1 \in 0 .. N
          BY <1>1, <4>2
        <5>2. f[n - 1] \in S
          BY <2>3, <5>1 DEF Repeats
        <5>3. f[n] = next(f[n - 1], n)
          BY <2>2, <2>3, <5>1, <5>2 DEF Repeats
        <5> QED
          BY <4>2, <5>3
      <4> QED
        BY <4>1, <4>2
    <3> QED
      BY <2>3, <3>1 DEF Repeats
  <2> QED
    BY <2>4
<1> HIDE DEF parsed
<1> DEFINE P(n) == /\ parsed[n] \in S
                   /\ Len(parsed[n].ids) = n
                   /\ \A i \in 1 .. n :
                        IdStandsFor(parsed[n].ids[i], column[i], g \o parsed[n].encoding.vector_)
           T == {n \in 0 .. N : P(n)}
<1>6. 0 \in T
  <2>1. parsed[0] = start
    BY <1>1, <1>5
  <2>2. Len(start.ids) = 0
    BY DEF start
  <2> HIDE DEF S
  <2> QED
    BY <1>1, <1>3, <2>1, <2>2
<1>7. ASSUME NEW n \in 0 .. N - 1, n \in T PROVE n + 1 \in T
  <2> DEFINE p == parsed[n]
             q == parsed[n + 1]
             v == p.encoding.vector_
             w == q.encoding.vector_
  <2>1. /\ p \in S /\ Len(p.ids) = n /\ n + 1 \in 1 .. N
        /\ \A i \in 1 .. n : IdStandsFor(p.ids[i], column[i], g \o v)
    <3>1. P(n) /\ n + 1 \in 1 .. N
      BY <1>7, <1>1
    <3> QED
      BY <3>1, Zenon
  <2>2. q = next(p, n + 1)
    <3>1. (n + 1) - 1 = n /\ n + 1 # 0 /\ n + 1 \in 0 .. N
      BY <1>1
    <3> QED
      BY <1>5, <3>1
  <2>3. /\ q \in S
        /\ w = v \/ w = Append(v, column[n + 1])
        /\ q.ids = Append(p.ids, q.ids[n + 1])
        /\ IdStandsFor(q.ids[n + 1], column[n + 1], g \o w)
    <3> HIDE DEF S, p
    <3> DEFINE r == next(p, n + 1)
    <3>1. /\ r \in S
          /\ r.encoding.vector_ = v \/ r.encoding.vector_ = Append(v, column[n + 1])
          /\ r.ids = Append(p.ids, r.ids[Len(p.ids) + 1])
          /\ IdStandsFor(r.ids[Len(p.ids) + 1], column[n + 1], g \o r.encoding.vector_)
      BY <1>4, <2>1
    <3> HIDE DEF r, q
    <3>2. q = r /\ Len(p.ids) = n
      BY <2>1, <2>2 DEF r
    <3> QED
      BY <3>1, <3>2
  <2>4. /\ p.ids \in Seq(Nat \cup {-1}) /\ q.ids \in Seq(Nat \cup {-1})
        /\ v \in Seq(Categories) /\ w \in Seq(Categories)
        /\ column[n + 1] \in Strings \cup {NULL}
    BY <2>1, <2>3, <1>1 DEF LocalEncodings, Categories
  <2> HIDE DEF p, q
  <2>5. Len(q.ids) = n + 1 /\ \A i \in 1 .. n : q.ids[i] = p.ids[i]
    BY <2>1, <2>3, <2>4, AppendProperties
  <2>6. \A i \in 1 .. n : IdStandsFor(q.ids[i], column[i], g \o w)
    <3> SUFFICES ASSUME NEW i \in 1 .. n PROVE IdStandsFor(p.ids[i], column[i], g \o w)
      BY <2>5
    <3>1. IdStandsFor(p.ids[i], column[i], g \o v)
      BY <2>1
    <3>2. CASE w = v
      BY <3>1, <3>2
    <3>3. CASE w = Append(v, column[n + 1])
      <4>1. Begins(v, w)
        BY <2>4, <3>3, AppendProperties DEF Begins
      <4>2. Begins(g \o v, g \o w)
        BY <2>4, <4>1, ConcatBegins
      <4>3. Len(g \o v) \in Nat /\ Len(g \o w) \in Nat
        BY <2>4
      <4> QED
        BY <3>1, <4>2, <4>3, IdsKeepTheirMeaning
    <3> QED
      BY <2>3, <3>2, <3>3
  <2>7. P(n + 1)
    <3>1. ASSUME NEW i \in 1 .. n + 1 PROVE IdStandsFor(q.ids[i], column[i], g \o w)
      BY <2>1, <2>3, <2>6
    <3> HIDE DEF S
    <3> QED
      BY <2>3, <2>5, <3>1 DEF q
  <2> HIDE DEF P
  <2> QED
    BY <2>1, <2>7
<1>8. N \in T
  <2> HIDE DEF T
  <2>1. 0 .. N \subseteq T
    BY <1>1, <1>6, <1>7, BoundedInduction
  <2> QED
    BY <1>1, <2>1
<1>9. Stands(parsed[N].ids, column, g \o parsed[N].encoding.vector_)
  BY <1>1, <1>8 DEF Stands
<1> QED
  BY <1>1, <1>2, <1>8, <1>9

-----------------------------------------------------------------------------
(* Requests and the lock *)

BuildOps == {"from", "append", "add_column", "concat", "load"}

\* What a request of each kind carries.
LEMMA RequestFields ==
  ASSUME NEW r \in Requests
  PROVE  /\ r.op \in BuildOps \cup {"freeze", "save", "delete"} => r.name \in Names
         /\ r.op \in {"from", "append", "add_column"} => r.upload \in Seq(Strings \cup {NULL})
         /\ r.op = "from" => r.base \in Names \cup {NoFrame}
         /\ r.op = "concat" => r.base \in Names /\ r.other \in Names
BY DataFramesAssumption DEF Requests, FromRequests, BuildOps

\* Where each request starts, and what it holds of the lock there.
LEMMA FirstPlaces ==
  ASSUME NEW r \in Requests
  PROVE  \/ r.op = "get_content" /\ LockOf(r.op) = "read" /\ FirstStep(r.op) = "get_content"
         \/ r.op \in {"freeze", "delete"} /\ LockOf(r.op) = "write" /\ FirstStep(r.op) = r.op
         \/ r.op = "save" /\ LockOf(r.op) = "weak" /\ FirstStep(r.op) = "save_remove"
         \/ r.op = "save_pipeline" /\ LockOf(r.op) = "weak" /\ FirstStep(r.op) = "save_truncate"
         \/ r.op \in BuildOps /\ LockOf(r.op) = "weak" /\ FirstStep(r.op) = "build"
<1>1. r.op \in BuildOps \cup {"freeze", "save", "delete", "get_content", "save_pipeline"}
  BY DEF Requests, FromRequests, BuildOps
<1> QED
  BY <1>1 DEF BuildOps, LockOf, FirstStep

Places == {"idle", "get_content", "freeze", "delete", "build", "upgrade", "first", "last",
           "save_remove", "save_rename", "save_truncate", "save_write"}

TypeInv ==
  /\ categories_ \in Seq(Categories) /\ disk_categories \in Seq(Categories)
  /\ data_frames_ \in [Names -> Frames \cup {NoFrame}]
  /\ disk_frames \in [Names -> Frames \cup {NoFrame}]
  /\ \A n \in Names : /\ exists(n) => IsFrame(data_frames_[n])
                      /\ disk_frames[n] # NoFrame => IsFrame(disk_frames[n])
  /\ mode \in [Clients -> Lock!Modes]
  /\ pc \in [Clients -> Places]
  /\ req \in [Clients -> Requests \cup {Idle}]
  /\ local_categories \in [Clients -> LocalEncodings]
  /\ df \in [Clients -> Frames \cup {NoFrame}]

\* As many ids as strings were sent.
Paired(rows, sent) ==
  /\ rows \in Seq(Nat \cup {-1}) /\ sent \in Seq(Strings \cup {NULL})
  /\ Len(rows) = Len(sent)

Matched(f) == f \in Frames /\ Paired(f.rows, f.sent)

\* Before its encoding is appended to the global one, a request's encoding is
\* on top of the global one.
Before(t) ==
  \/ pc[t] \in {"build", "upgrade", "first"} /\ req[t].op # "load"
  \/ pc[t] = "last" /\ req[t].op # "load" /\ FrameFirst(req[t])

\* What thread t has, and what is true of its request, at its place.
PlaceOf(t) ==
  /\ mode[t] = "free" <=> pc[t] = "idle"
  /\ mode[t] = "weak" <=> pc[t] \in {"build", "upgrade"} \/ Saving(t)
  /\ mode[t] = "read" <=> pc[t] = "get_content"
  /\ pc[t] # "idle" => req[t] \in Requests
  /\ pc[t] \in {"build", "upgrade", "first", "last"} => req[t].op \in BuildOps
  /\ pc[t] = "first" => req[t].op # "load"
  /\ pc[t] \in {"freeze", "delete"} => req[t].op = pc[t]
  /\ pc[t] \in {"save_remove", "save_rename"} => req[t].op = "save"
  /\ pc[t] = "build" => local_categories[t] = New(categories_)
  /\ pc[t] \in {"upgrade", "first", "last"} =>
        Matched(df[t])
  /\ pc[t] = "save_rename" => exists(req[t].name)
  /\ pc[t] = "save_write" => Len(disk_categories) < Len(categories_)
  /\ pc[t] = "last" /\ FrameFirst(req[t]) => exists(req[t].name)
  /\ Before(t) => OnTopOf(local_categories[t], categories_)

Control ==
  /\ TypeInv
  /\ Lock!Exclusive
  /\ NoDuplicates(categories_)
  /\ \A t \in Clients : PlaceOf(t)

\* No step of the lock breaks its exclusion.
LEMMA LockStaysExclusive ==
  ASSUME mode \in [Clients -> Lock!Modes], Lock!Exclusive, NEW t \in Clients,
         \/ \E m \in {"read", "weak", "write"} : Lock!Acquire(t, m)
         \/ Lock!UpgradeWeak(t)
         \/ Lock!Release(t)
         \/ UNCHANGED mode
  PROVE  (mode \in [Clients -> Lock!Modes])' /\ Lock!Exclusive'
BY DEF Lock!Exclusive, Lock!Acquire, Lock!UpgradeWeak, Lock!Release, Lock!NobodyIs, Lock!Modes

\* While a thread holds the weak or the strong lock, the others do nothing to
\* the memory or the disk.
LEMMA OthersOnlyRead ==
  ASSUME Control, NEW t \in Clients, mode[t] \in {"weak", "write"},
         NEW s \in Clients, s # t
  PROVE  /\ pc[s] \in {"idle", "get_content"}
         /\ mode[t] = "write" => pc[s] = "idle"
BY DEF Control, TypeInv, PlaceOf, Lock!Exclusive, Lock!Modes, Saving, Places

Keeps(s) ==
  /\ pc'[s] = pc[s] /\ mode'[s] = mode[s] /\ req'[s] = req[s]
  /\ local_categories'[s] = local_categories[s] /\ df'[s] = df[s]

\* What holds of a client at its place is not disturbed by others, as long as the
\* frames and encodings it depends on stay.
LEMMA OthersKeepTheirPlace ==
  ASSUME Control, NEW s \in Clients, Keeps(s),
         pc[s] \in {"idle", "get_content"} \/ UNCHANGED <<memory, disk_categories>>
  PROVE  PlaceOf(s)'
<1>1. CASE pc[s] \in {"idle", "get_content"}
  BY <1>1 DEF Control, PlaceOf, Keeps, Before, Saving
<1>2. CASE UNCHANGED <<memory, disk_categories>>
  BY <1>2 DEF Control, PlaceOf, Keeps, Before, Saving, memory, exists, FrameFirst
<1> QED
  BY <1>1, <1>2

-----------------------------------------------------------------------------
(* Every step keeps the threads at their places *)

\* A new encoding of a request lies on the global one.
LEMMA NewIsOnTop ==
  ASSUME NEW g \in Seq(Categories), NoDuplicates(g)
  PROVE  New(g) \in LocalEncodings /\ OnTopOf(New(g), g)
<1>1. g \o <<>> = g /\ Len(g) \in Nat
  OBVIOUS
<1> QED
  BY <1>1 DEF New, OnTopOf, LocalEncodings, Categories

\* So it does when there are no strings yet.
LEMMA EmptyGlobal ==
  /\ <<>> \in Seq(Categories) /\ NoDuplicates(<<>>) /\ New(<<>>) \in LocalEncodings
<1>1. <<>> \in Seq(Categories) /\ NoDuplicates(<<>>)
  BY DEF NoDuplicates
<1> QED
  BY <1>1, NewIsOnTop

\* At the start every client is idle.
LEMMA InitControl == Init => Control
<1> SUFFICES ASSUME Init PROVE Control
  OBVIOUS
<1>1. TypeInv
  BY EmptyGlobal DEF Init, TypeInv, exists, Lock!Modes, Places
<1>2. Lock!Exclusive
  BY DEF Init, Lock!Exclusive
<1>3. NoDuplicates(categories_)
  BY EmptyGlobal DEF Init
<1>4. ASSUME NEW t \in Clients PROVE PlaceOf(t)
  BY DEF Init, PlaceOf, Before, Saving
<1> QED
  BY <1>1, <1>2, <1>3, <1>4 DEF Control

\* The end of a request.
LEMMA DoneControl ==
  ASSUME Control, NEW t \in Clients, Done(t)
  PROVE  /\ mode' \in [Clients -> Lock!Modes] /\ Lock!Exclusive'
         /\ pc' \in [Clients -> Places] /\ req' \in [Clients -> Requests \cup {Idle}]
         /\ local_categories' \in [Clients -> LocalEncodings]
         /\ df' \in [Clients -> Frames \cup {NoFrame}]
         /\ PlaceOf(t)'
         /\ pc'[t] = "idle"
         /\ \A s \in Clients : s # t => Keeps(s)
<1>1. TypeInv /\ Lock!Exclusive
  BY DEF Control
<1>2. mode' \in [Clients -> Lock!Modes] /\ Lock!Exclusive'
  BY <1>1, LockStaysExclusive DEF Done, TypeInv
<1>3. /\ pc' \in [Clients -> Places] /\ req' \in [Clients -> Requests \cup {Idle}]
      /\ local_categories' \in [Clients -> LocalEncodings]
      /\ df' \in [Clients -> Frames \cup {NoFrame}]
  BY <1>1, EmptyGlobal DEF Done, Goto, TypeInv, Places
<1>4. pc'[t] = "idle" /\ mode'[t] = "free"
  BY <1>1 DEF Done, Goto, TypeInv, Lock!Release
<1>5. PlaceOf(t)'
  BY <1>4 DEF PlaceOf, Before, Saving
<1>6. \A s \in Clients : s # t => Keeps(s)
  BY <1>1 DEF Done, Goto, TypeInv, Lock!Release, Keeps
<1> QED
  BY <1>2, <1>3, <1>4, <1>5, <1>6

\* Receiving a request leads to its first place, with the lock it takes there.
LEMMA BeginControl ==
  ASSUME Control, NEW t \in Clients, NEW r \in Requests, Begin(t, r)
  PROVE  Control'
<1>1. TypeInv /\ Lock!Exclusive /\ NoDuplicates(categories_)
  BY DEF Control
<1>2. /\ OnTopOf(New(categories_), categories_) /\ New(categories_) \in LocalEncodings
      /\ UNCHANGED <<memory, df, disk>>
  BY <1>1, NewIsOnTop DEF Begin, TypeInv
<1>3. FirstStep(r.op) \in Places /\ LockOf(r.op) \in {"read", "weak", "write"}
  BY FirstPlaces DEF Places
<1>4. TypeInv'
  BY <1>1, <1>2, <1>3, LockStaysExclusive
  DEF TypeInv, Begin, Goto, memory, disk, exists
<1>5. Lock!Exclusive'
  BY <1>1, <1>3, LockStaysExclusive DEF TypeInv, Begin
<1>6. NoDuplicates(categories_)'
  BY <1>1, <1>2 DEF memory
<1>7. PlaceOf(t)'
  <2>1. /\ pc'[t] = FirstStep(r.op) /\ mode'[t] = LockOf(r.op) /\ req'[t] = r
        /\ local_categories'[t] = New(categories_)
    BY <1>1 DEF Begin, Goto, TypeInv, Lock!Acquire
  <2> QED
    BY <1>2, <2>1, FirstPlaces DEF PlaceOf, Before, Saving, BuildOps, memory
<1>8. ASSUME NEW s \in Clients, s # t PROVE PlaceOf(s)'
  <2>1. Keeps(s)
    BY <1>1, <1>2, <1>8 DEF Begin, Goto, TypeInv, Lock!Acquire, Keeps
  <2> QED
    BY <1>2, <2>1, OthersKeepTheirPlace DEF disk
<1> QED
  BY <1>4, <1>5, <1>6, <1>7, <1>8 DEF Control

\* Requests that end without changing the memory, or what it holds of strings.
LEMMA EndControl ==
  ASSUME Control, NEW t \in Clients, Done(t), UNCHANGED <<memory, disk>>
  PROVE  Control'
<1>1. TypeInv'
  BY DoneControl DEF Control, TypeInv, memory, disk, exists
<1>2. NoDuplicates(categories_)'
  BY DEF Control, memory
<1>3. \A s \in Clients : PlaceOf(s)'
  BY DoneControl, OthersKeepTheirPlace DEF disk
<1> QED
  BY <1>1, <1>2, <1>3, DoneControl DEF Control

\* A frame that is built has an id for every cell that was sent.
LEMMA FrameMatches ==
  ASSUME NEW rows, NEW sent, Paired(rows, sent)
  PROVE  Matched(Frame(rows, sent))
BY DEF Paired, Matched, Frame, Frames

\* So have the frames in memory.
LEMMA HeldFrameMatches ==
  ASSUME TypeInv, NEW n \in Names, exists(n)
  PROVE  Matched(data_frames_[n])
BY DEF TypeInv, Matched, Paired, IsFrame, exists, Frames

\* What a request builds on: a frame that exists, or nothing.
LEMMA BaseMatches ==
  ASSUME TypeInv, NEW n, n = NoFrame \/ (n \in Names /\ exists(n))
  PROVE  Paired(RowsOf(n), SentOf(n))
<1>1. CASE n = NoFrame
  BY <1>1 DEF RowsOf, SentOf, Paired
<1>2. CASE n # NoFrame
  BY <1>2, HeldFrameMatches DEF RowsOf, SentOf, Matched
<1> QED
  BY <1>1, <1>2

\* So have rows that are put behind others.
LEMMA JoinedMatches ==
  ASSUME NEW r1, NEW s1, Paired(r1, s1), NEW r2, NEW s2, Paired(r2, s2)
  PROVE  Paired(r1 \o r2, s1 \o s2)
BY DEF Paired

\* The column a building request parses, and the outcome.
Column(r) == IF r.op \in {"concat", "load"} THEN <<>> ELSE r.upload

\* Parsing the column of a request gives an id for every cell, which stands for the
\* string in the encoding as it will be.
LEMMA BuildParses ==
  ASSUME Control, NEW t \in Clients, pc[t] = "build"
  PROVE  /\ Column(req[t]) \in Seq(Strings \cup {NULL})
         /\ LET p == Parsed(local_categories[t], Column(req[t]))
            IN  /\ OnTopOf(p.encoding, categories_)
                /\ p.ids \in Seq(Nat \cup {-1}) /\ Len(p.ids) = Len(Column(req[t]))
                /\ Stands(p.ids, Column(req[t]), categories_ \o p.encoding.vector_)
<1>1. req[t] \in Requests /\ req[t].op \in BuildOps /\ local_categories[t] = New(categories_)
  BY DEF Control, PlaceOf
<1>2. OnTopOf(local_categories[t], categories_) /\ categories_ \in Seq(Categories)
  BY <1>1, NewIsOnTop DEF Control, TypeInv
<1>3. Column(req[t]) \in Seq(Strings \cup {NULL})
  BY <1>1, RequestFields DEF Column, BuildOps
<1> QED
  BY <1>2, <1>3, ParsedStands

\* The frame a handler builds has an id for every cell that was sent.
LEMMA BuiltMatches ==
  ASSUME Control, NEW t \in Clients, pc[t] = "build", CanBuild(req[t]), req[t].op # "load"
  PROVE  Matched(Built(req[t], Parsed(local_categories[t], Column(req[t]))))
<1> DEFINE r == req[t]
           p == Parsed(local_categories[t], Column(r))
<1>1. r \in Requests /\ r.op \in BuildOps \ {"load"} /\ TypeInv
  BY DEF Control, PlaceOf
<1>2. /\ Column(r) \in Seq(Strings \cup {NULL})
      /\ OnTopOf(p.encoding, categories_)
      /\ p.ids \in Seq(Nat \cup {-1}) /\ Len(p.ids) = Len(Column(r))
  BY BuildParses
<1> SUFFICES Matched(Built(r, p))
  OBVIOUS
<1> HIDE DEF p
<1>3. CASE r.op = "concat"
  <2>1. r.base \in Names /\ exists(r.base) /\ r.other \in Names /\ exists(r.other)
    BY <1>1, <1>3, RequestFields DEF CanBuild
  <2>2. Matched(Frame(RowsOf(r.base) \o RowsOf(r.other), SentOf(r.base) \o SentOf(r.other)))
    <3>1. Paired(RowsOf(r.base), SentOf(r.base)) /\ Paired(RowsOf(r.other), SentOf(r.other))
      BY <1>1, <2>1, BaseMatches
    <3> QED
      BY <3>1, JoinedMatches, FrameMatches
  <2>3. data_frames_[r.base].encoding \in LocalEncodings \cup {GLOBAL}
    BY <1>1, <2>1, HeldFrameMatches DEF Matched, Frames
  <2> QED
    BY <1>3, <2>2, <2>3 DEF Built, Matched, Frames
<1>4. CASE r.op = "append"
  <2>1. Column(r) = r.upload
    BY <1>4 DEF Column
  <2>2. Matched(Frame(p.ids, r.upload))
    BY <1>2, <2>1, FrameMatches DEF Paired
  <2> QED
    BY <1>2, <1>4, <2>2 DEF Built, Matched, Frames, OnTopOf
<1>5. CASE r.op = "from"
  <2>1. r.base = NoFrame \/ (r.base \in Names /\ exists(r.base))
    BY <1>1, <1>5, RequestFields DEF CanBuild
  <2>2. Column(r) = r.upload
    BY <1>5 DEF Column
  <2>3. Matched(Frame(RowsOf(r.base) \o p.ids, SentOf(r.base) \o r.upload))
    <3>1. Paired(RowsOf(r.base), SentOf(r.base)) /\ Paired(p.ids, r.upload)
      BY <1>1, <1>2, <2>1, <2>2, BaseMatches DEF Paired
    <3> QED
      BY <3>1, JoinedMatches, FrameMatches
  <2> QED
    BY <1>5, <2>3 DEF Built
<1>6. CASE r.op = "add_column"
  <2>1. Column(r) = r.upload
    BY <1>6 DEF Column
  <2>2. Matched(Frame(p.ids, r.upload))
    BY <1>2, <2>1, FrameMatches DEF Paired
  <2> QED
    BY <1>6, <2>2 DEF Built
<1> QED
  BY <1>1, <1>3, <1>4, <1>5, <1>6 DEF BuildOps

\* Building a frame under the weak lock keeps the handler in its place.
LEMMA BuildControl ==
  ASSUME Control, NEW t \in Clients, Build(t)
  PROVE  Control'
<1> DEFINE r == req[t]
           p == Parsed(local_categories[t], Column(r))
           built == IF r.op = "load" THEN disk_frames[r.name] ELSE Built(r, p)
<1>1. TypeInv /\ Lock!Exclusive /\ NoDuplicates(categories_) /\ PlaceOf(t)
  BY DEF Control
<1>2. /\ pc[t] = "build" /\ mode[t] = "weak" /\ CanBuild(r)
      /\ r \in Requests /\ r.op \in BuildOps
      /\ UNCHANGED <<memory, mode, req, disk>>
  BY <1>1 DEF Build, PlaceOf
<1>3. /\ local_categories' = [local_categories EXCEPT ![t] = p.encoding]
      /\ df' = [df EXCEPT ![t] = built]
      /\ pc' = [pc EXCEPT ![t] = "upgrade"]
  BY DEF Build, Column, Goto
<1>4. OnTopOf(p.encoding, categories_) /\ p.encoding \in LocalEncodings
  BY <1>2, BuildParses DEF OnTopOf
<1>5. Matched(built)
  <2>1. CASE r.op = "load"
    BY <1>1, <1>2, <2>1, RequestFields DEF CanBuild, TypeInv, IsFrame, Matched, Paired, Frames, BuildOps
  <2>2. CASE r.op # "load"
    BY <1>2, <2>2, BuiltMatches
  <2> QED
    BY <2>1, <2>2
<1> HIDE DEF p, built
<1>6. TypeInv'
  BY <1>1, <1>2, <1>3, <1>4, <1>5 DEF TypeInv, memory, disk, exists, Matched, Places
<1>7. Lock!Exclusive' /\ NoDuplicates(categories_)'
  BY <1>1, <1>2 DEF Lock!Exclusive, memory
<1>8. PlaceOf(t)'
  <2>1. /\ pc'[t] = "upgrade" /\ mode'[t] = "weak" /\ req'[t] = r /\ categories_' = categories_
        /\ local_categories'[t] = p.encoding /\ df'[t] = built
    BY <1>1, <1>2, <1>3 DEF TypeInv, memory
  <2> QED
    BY <1>2, <1>4, <1>5, <2>1 DEF PlaceOf, Before, Saving, Matched
<1>9. ASSUME NEW s \in Clients, s # t PROVE PlaceOf(s)'
  <2>1. Keeps(s)
    BY <1>1, <1>2, <1>3, <1>9 DEF TypeInv, Keeps
  <2> QED
    BY <1>2, <2>1, OthersKeepTheirPlace DEF disk
<1> QED
  BY <1>6, <1>7, <1>8, <1>9 DEF Control

\* So does the upgrade to the write lock.
LEMMA UpgradeControl ==
  ASSUME Control, NEW t \in Clients, Upgrade(t)
  PROVE  Control'
<1> DEFINE r == req[t]
           place == IF r.op = "load" THEN "last" ELSE "first"
<1>1. TypeInv /\ Lock!Exclusive /\ NoDuplicates(categories_) /\ PlaceOf(t)
  BY DEF Control
<1>2. /\ pc[t] = "upgrade" /\ r \in Requests /\ r.op \in BuildOps
      /\ pc' = [pc EXCEPT ![t] = place]
      /\ UNCHANGED <<memory, req, local_categories, df, disk>>
  BY <1>1 DEF Upgrade, PlaceOf, Goto, own
<1>3. mode' \in [Clients -> Lock!Modes] /\ Lock!Exclusive'
  BY <1>1, LockStaysExclusive DEF Upgrade, TypeInv
<1>4. mode'[t] = "write" /\ \A s \in Clients : s # t => mode'[s] = mode[s]
  BY <1>1 DEF Upgrade, Lock!UpgradeWeak, TypeInv
<1>5. TypeInv'
  BY <1>1, <1>2, <1>3 DEF TypeInv, memory, disk, exists, Places
<1>6. NoDuplicates(categories_)'
  BY <1>1, <1>2 DEF memory
<1>7. PlaceOf(t)'
  <2>1. /\ pc'[t] = place /\ req'[t] = r /\ UNCHANGED <<categories_, data_frames_>>
        /\ local_categories'[t] = local_categories[t] /\ df'[t] = df[t]
    BY <1>1, <1>2 DEF TypeInv, memory
  <2>2. place = "last" => r.op = "load"
    OBVIOUS
  <2> QED
    BY <1>1, <1>2, <1>4, <2>1, <2>2 DEF PlaceOf, Before, Saving, FrameFirst, BuildOps
<1>8. ASSUME NEW s \in Clients, s # t PROVE PlaceOf(s)'
  <2>1. Keeps(s)
    BY <1>1, <1>2, <1>4, <1>8 DEF TypeInv, Keeps
  <2> QED
    BY <1>2, <2>1, OthersKeepTheirPlace DEF disk
<1> QED
  BY <1>3, <1>5, <1>6, <1>7, <1>8 DEF Control

\* The commit of an encoding appends it as it is.
LEMMA CommitAppends ==
  ASSUME Control, NEW t \in Clients, CommitEncodings(t)
  PROVE  /\ pc[t] \in {"first", "last"} /\ mode[t] = "write" /\ Before(t)
         /\ categories_' = categories_ \o local_categories[t].vector_
         /\ categories_' \in Seq(Categories) /\ NoDuplicates(categories_')
         /\ OnTopOf(local_categories[t], categories_)
<1>1. /\ TypeInv /\ NoDuplicates(categories_) /\ PlaceOf(t)
      /\ pc[t] \in {"first", "last"} /\ Before(t)
  BY DEF Control, CommitEncodings, Before
<1>2. mode[t] = "write"
  BY <1>1 DEF TypeInv, PlaceOf, Lock!Modes, Saving
<1> DEFINE v == local_categories[t].vector_
<1>3. OnTopOf(local_categories[t], categories_) /\ v \in Seq(Categories)
  BY <1>1 DEF PlaceOf, OnTopOf, LocalEncodings, Categories
<1>4. NoDuplicates(categories_ \o v)
  BY <1>3 DEF OnTopOf
<1>5. categories_ \in Seq(Categories)
  BY <1>1 DEF TypeInv
<1>6. categories_' = append(categories_, local_categories[t])
  BY DEF CommitEncodings
<1>7. /\ append(categories_, local_categories[t]) = categories_ \o v
      /\ append(categories_, local_categories[t]) \in Seq(Categories)
      /\ NoDuplicates(append(categories_, local_categories[t]))
  <2> HIDE DEF v
  <2> QED
    BY <1>1, <1>3, <1>4, <1>5, AppendAddsWhatIsNew, local_categories[t].vector_ = v DEF v
<1> QED
  BY <1>1, <1>2, <1>3, <1>6, <1>7

\* So does appending the encoding of the request.
LEMMA CommitEncodingsControl ==
  ASSUME Control, NEW t \in Clients, CommitEncodings(t)
  PROVE  Control'
<1>1. /\ TypeInv /\ Lock!Exclusive /\ PlaceOf(t)
      /\ mode[t] = "write" /\ pc[t] \in {"first", "last"}
      /\ categories_' \in Seq(Categories) /\ NoDuplicates(categories_')
      /\ UNCHANGED <<data_frames_, disk>>
  BY CommitAppends DEF Control, CommitEncodings
<1>2. ASSUME NEW s \in Clients, s # t, Keeps(s) PROVE PlaceOf(s)'
  BY <1>1, <1>2, OthersOnlyRead, OthersKeepTheirPlace
<1>3. CASE pc[t] = "last"
  <2>1. Done(t)
    BY <1>3 DEF CommitEncodings
  <2>2. TypeInv'
    BY <1>1, <2>1, DoneControl DEF TypeInv, disk, exists
  <2> QED
    BY <1>1, <1>2, <2>1, <2>2, DoneControl DEF Control
<1>4. CASE pc[t] = "first"
  <2>1. /\ pc' = [pc EXCEPT ![t] = "last"] /\ UNCHANGED <<mode, req, local_categories, df>>
        /\ ~ FrameFirst(req[t])
    BY <1>4 DEF CommitEncodings, Goto, own
  <2>2. TypeInv'
    BY <1>1, <2>1 DEF TypeInv, disk, exists, Places
  <2>3. Lock!Exclusive'
    BY <1>1, <2>1 DEF Lock!Exclusive
  <2>4. PlaceOf(t)'
    <3>1. pc'[t] = "last" /\ ~ FrameFirst(req[t])'
      BY <1>1, <2>1 DEF TypeInv, FrameFirst, exists
    <3> QED
      BY <1>1, <1>4, <2>1, <3>1 DEF PlaceOf, Before, Saving
  <2>5. \A s \in Clients : s # t => PlaceOf(s)'
    BY <1>1, <1>2, <2>1 DEF TypeInv, Keeps
  <2> QED
    BY <1>1, <2>2, <2>3, <2>4, <2>5 DEF Control
<1> QED
  BY <1>1, <1>3, <1>4

\* What CommitFrame puts in the place of the frame of that name.
Committed(t) ==
  IF Appends(req[t]) THEN Extended(data_frames_[req[t].name], df[t]) ELSE df[t]

Throws(t) == Appends(req[t]) /\ data_frames_[req[t].name].frozen_

\* The frame that is committed has an id for every cell that was sent.
LEMMA CommittedMatches ==
  ASSUME Control, NEW t \in Clients, CommitFrame(t)
  PROVE  /\ pc[t] \in {"first", "last"} /\ mode[t] = "write"
         /\ req[t] \in Requests /\ req[t].op \in BuildOps /\ req[t].name \in Names
         /\ Matched(df[t]) /\ Matched(Committed(t)) /\ Len(Committed(t).rows) <= MaxRows
         /\ Committed(t) # NoFrame
<1> DEFINE r == req[t]
           old == data_frames_[r.name]
<1>1. TypeInv /\ PlaceOf(t) /\ pc[t] \in {"first", "last"}
  BY DEF Control, CommitFrame
<1>2. mode[t] = "write"
  BY <1>1 DEF TypeInv, PlaceOf, Lock!Modes, Saving
<1>3. r \in Requests /\ r.op \in BuildOps /\ Matched(df[t])
  BY <1>1 DEF PlaceOf, Matched
<1>4. r.name \in Names
  BY <1>3, RequestFields
<1>5. Len(Committed(t).rows) <= MaxRows
  BY DEF CommitFrame, Committed
<1>6. Matched(Committed(t))
  <2>1. CASE Appends(r)
    <3>1. Matched(old)
      BY <1>1, <1>4, <2>1, HeldFrameMatches DEF Appends
    <3>2. old \in Frames /\ Paired(old.rows \o df[t].rows, old.sent \o df[t].sent)
      BY <1>3, <3>1, JoinedMatches DEF Matched
    <3>3. Matched([old EXCEPT !.rows = @ \o df[t].rows, !.sent = @ \o df[t].sent])
      BY <3>2 DEF Matched, Frames, Paired
    <3> QED
      BY <2>1, <3>3 DEF Committed, Extended
  <2>2. CASE ~ Appends(r)
    BY <1>3, <2>2 DEF Committed
  <2> QED
    BY <2>1, <2>2
<1>7. Committed(t) # NoFrame
  BY <1>6, DataFramesAssumption DEF Matched
<1> QED
  BY <1>1, <1>2, <1>3, <1>4, <1>5, <1>6, <1>7

\* Assigning the frame keeps every client in its place: the others wait for the
\* lock.
LEMMA CommitFrameControl ==
  ASSUME Control, NEW t \in Clients, CommitFrame(t)
  PROVE  Control'
<1> DEFINE r == req[t]
           new == Committed(t)
<1>1. /\ TypeInv /\ Lock!Exclusive /\ NoDuplicates(categories_) /\ PlaceOf(t)
      /\ mode[t] = "write" /\ pc[t] \in {"first", "last"}
      /\ r.name \in Names /\ Matched(new) /\ Len(new.rows) <= MaxRows /\ new # NoFrame
      /\ UNCHANGED <<categories_, disk>>
  BY CommittedMatches DEF Control, CommitFrame
<1>2. data_frames_' = IF Throws(t) THEN data_frames_ ELSE [data_frames_ EXCEPT ![r.name] = new]
  BY DEF CommitFrame, Committed, Throws
<1> HIDE DEF new
<1>3. /\ data_frames_' \in [Names -> Frames \cup {NoFrame}]
      /\ \A n \in Names : exists(n)' => IsFrame(data_frames_'[n])
      /\ \A n \in Names : exists(n) => exists(n)'
      /\ ~ Throws(t) => data_frames_'[r.name] # NoFrame
  <2>1. CASE Throws(t)
    BY <1>1, <1>2, <2>1 DEF TypeInv, exists
  <2>2. CASE ~ Throws(t)
    <3>1. data_frames_' = [data_frames_ EXCEPT ![r.name] = new]
      BY <1>2, <2>2
    <3>2. new \in Frames /\ IsFrame(new)
      BY <1>1 DEF Matched, Paired, IsFrame
    <3>3. /\ data_frames_' \in [Names -> Frames \cup {NoFrame}]
          /\ \A n \in Names : data_frames_'[n] = IF n = r.name THEN new ELSE data_frames_[n]
      BY <1>1, <3>1, <3>2 DEF TypeInv
    <3>4. \A n \in Names : data_frames_'[n] # NoFrame => IsFrame(data_frames_'[n])
      BY <1>1, <3>2, <3>3 DEF TypeInv, exists
    <3>5. /\ \A n \in Names : exists(n) => data_frames_'[n] # NoFrame
          /\ data_frames_'[r.name] # NoFrame
      BY <1>1, <3>3 DEF exists
    <3> QED
      BY <3>3, <3>4, <3>5 DEF exists
  <2> QED
    BY <2>1, <2>2
<1>4. ASSUME NEW s \in Clients, s # t, Keeps(s) PROVE PlaceOf(s)'
  BY <1>1, <1>4, OthersOnlyRead, OthersKeepTheirPlace
<1>5. CASE Throws(t) \/ pc[t] = "last"
  <2>1. Done(t)
    BY <1>5 DEF CommitFrame, Throws
  <2>2. TypeInv'
    BY <1>1, <1>3, <2>1, DoneControl DEF TypeInv, disk, exists
  <2> QED
    BY <1>1, <1>4, <2>1, <2>2, DoneControl DEF Control
<1>6. CASE ~ Throws(t) /\ pc[t] = "first"
  <2>1. /\ pc' = [pc EXCEPT ![t] = "last"] /\ UNCHANGED <<mode, req, local_categories, df>>
        /\ FrameFirst(r)
    BY <1>6 DEF CommitFrame, Goto, own, Throws
  <2>2. TypeInv'
    BY <1>1, <1>3, <2>1 DEF TypeInv, disk, exists, Places
  <2>3. Lock!Exclusive'
    BY <1>1, <2>1 DEF Lock!Exclusive
  <2>4. PlaceOf(t)'
    <3>1. pc'[t] = "last" /\ exists(req[t].name)'
      BY <1>1, <1>3, <1>6, <2>1 DEF TypeInv, exists
    <3> QED
      BY <1>1, <1>6, <2>1, <3>1 DEF PlaceOf, Before, Saving
  <2>5. \A s \in Clients : s # t => PlaceOf(s)'
    BY <1>1, <1>4, <2>1 DEF TypeInv, Keeps
  <2> QED
    BY <1>1, <2>2, <2>3, <2>4, <2>5 DEF Control
<1> QED
  BY <1>1, <1>5, <1>6

\* So does freezing a frame.
LEMMA FreezeControl ==
  ASSUME Control, NEW t \in Clients, Freeze(t)
  PROVE  Control'
<1>1. /\ TypeInv /\ NoDuplicates(categories_) /\ PlaceOf(t) /\ pc[t] = "freeze" /\ mode[t] = "write"
      /\ req[t] \in Requests /\ req[t].op = "freeze" /\ Done(t) /\ UNCHANGED <<categories_, disk>>
  BY DEF Control, Freeze, TypeInv, PlaceOf, Lock!Modes, Saving
<1>2. req[t].name \in Names
  BY <1>1, RequestFields
<1>3. /\ data_frames_' \in [Names -> Frames \cup {NoFrame}]
      /\ \A n \in Names : exists(n)' => IsFrame(data_frames_'[n])
  <2> DEFINE n == req[t].name
             frozen == [data_frames_[n] EXCEPT !.frozen_ = TRUE]
  <2>1. CASE ~ exists(n)
    BY <1>1, <2>1 DEF Freeze, TypeInv, exists
  <2>2. CASE exists(n)
    <3>1. IsFrame(frozen)
      BY <1>1, <1>2, <2>2 DEF TypeInv, IsFrame, Frames
    <3>2. data_frames_' = [data_frames_ EXCEPT ![n] = frozen]
      BY <1>1, <1>2, <2>2 DEF Freeze, TypeInv
    <3> HIDE DEF frozen
    <3> QED
      BY <1>1, <1>2, <3>1, <3>2 DEF TypeInv, exists, IsFrame
  <2> QED
    BY <2>1, <2>2
<1>4. TypeInv'
  BY <1>1, <1>3, DoneControl DEF TypeInv, disk, exists
<1>5. \A s \in Clients : s # t => PlaceOf(s)'
  BY <1>1, DoneControl, OthersOnlyRead, OthersKeepTheirPlace
<1> QED
  BY <1>1, <1>4, <1>5, DoneControl DEF Control

\* So does deleting one.
LEMMA DeleteControl ==
  ASSUME Control, NEW t \in Clients, Delete(t)
  PROVE  Control'
<1>1. /\ TypeInv /\ NoDuplicates(categories_) /\ PlaceOf(t) /\ pc[t] = "delete" /\ mode[t] = "write"
      /\ Done(t) /\ UNCHANGED <<categories_, disk_categories>>
  BY DEF Control, Delete, TypeInv, PlaceOf, Lock!Modes, Saving
<1>2. /\ data_frames_' \in [Names -> Frames \cup {NoFrame}]
      /\ \A n \in Names : exists(n)' => IsFrame(data_frames_'[n])
      /\ disk_frames' \in [Names -> Frames \cup {NoFrame}]
      /\ \A n \in Names : disk_frames'[n] # NoFrame => IsFrame(disk_frames'[n])
  BY <1>1 DEF Delete, TypeInv, exists
<1>3. TypeInv'
  BY <1>1, <1>2, DoneControl DEF TypeInv, exists
<1>4. \A s \in Clients : s # t => PlaceOf(s)'
  BY <1>1, DoneControl, OthersOnlyRead, OthersKeepTheirPlace
<1> QED
  BY <1>1, <1>3, <1>4, DoneControl DEF Control

\* A step of a save that leaves the request where it holds the weak lock.
LEMMA SavingGoesOn ==
  ASSUME Control, NEW t \in Clients, Saving(t),
         NEW place \in {"save_rename", "save_truncate", "save_write"},
         pc' = [pc EXCEPT ![t] = place],
         place = "save_rename" => req[t].op = "save" /\ exists(req[t].name),
         place = "save_write" => Len(disk_categories') < Len(categories_),
         UNCHANGED <<memory, mode, req, own>>
  PROVE  /\ pc' \in [Clients -> Places] /\ Lock!Exclusive'
         /\ \A s \in Clients : PlaceOf(s)'
<1>1. /\ TypeInv /\ Lock!Exclusive /\ PlaceOf(t) /\ mode[t] = "weak" /\ pc[t] # "idle"
  BY DEF Control, PlaceOf, Saving
<1>2. pc' \in [Clients -> Places] /\ Lock!Exclusive'
  BY <1>1 DEF TypeInv, Places, Lock!Exclusive
<1>3. PlaceOf(t)'
  <2>1. /\ pc'[t] = place
        /\ UNCHANGED <<categories_, data_frames_, mode, req, local_categories, df>>
    BY <1>1 DEF TypeInv, memory, own
  <2> QED
    BY <1>1, <2>1 DEF PlaceOf, Before, Saving, exists
<1>4. ASSUME NEW s \in Clients, s # t PROVE PlaceOf(s)'
  BY <1>1, <1>4, OthersOnlyRead, OthersKeepTheirPlace DEF Keeps, TypeInv, own
<1> QED
  BY <1>2, <1>3, <1>4

\* So does removing the files of a frame.
LEMMA SaveRemoveControl ==
  ASSUME Control, NEW t \in Clients, SaveRemove(t)
  PROVE  Control'
<1>1. /\ TypeInv /\ NoDuplicates(categories_) /\ pc[t] = "save_remove"
      /\ req[t] \in Requests /\ req[t].op = "save" /\ UNCHANGED <<memory, disk_categories>>
  BY DEF Control, SaveRemove, PlaceOf
<1>2. CASE exists(req[t].name)
  <2>1. /\ disk_frames' = [disk_frames EXCEPT ![req[t].name] = NoFrame]
        /\ pc' = [pc EXCEPT ![t] = "save_rename"] /\ UNCHANGED <<mode, req, own>>
    BY <1>2 DEF SaveRemove, Goto
  <2>2. /\ pc' \in [Clients -> Places] /\ Lock!Exclusive'
        /\ \A s \in Clients : PlaceOf(s)'
    BY <1>1, <1>2, <2>1, SavingGoesOn DEF Saving
  <2>3. TypeInv'
    BY <1>1, <2>1, <2>2 DEF TypeInv, memory, own, exists
  <2> QED
    BY <1>1, <2>2, <2>3 DEF Control, memory
<1>3. CASE ~ exists(req[t].name)
  BY <1>1, <1>3, EndControl DEF SaveRemove, disk
<1> QED
  BY <1>2, <1>3

\* So does moving the new files to their place.
LEMMA SaveRenameControl ==
  ASSUME Control, NEW t \in Clients, SaveRename(t)
  PROVE  Control'
<1> DEFINE n == req[t].name
           saved == [data_frames_[n] EXCEPT !.encoding = GLOBAL]
<1>1. /\ TypeInv /\ NoDuplicates(categories_) /\ pc[t] = "save_rename"
      /\ req[t] \in Requests /\ req[t].op = "save" /\ exists(n)
  BY DEF Control, SaveRename, PlaceOf
<1>2. n \in Names
  BY <1>1, RequestFields
<1>3. /\ disk_frames' = [disk_frames EXCEPT ![n] = saved]
      /\ pc' = [pc EXCEPT ![t] = "save_truncate"]
      /\ UNCHANGED <<memory, mode, req, own, disk_categories>>
  BY DEF SaveRename, Goto
<1>4. IsFrame(saved)
  BY <1>1, <1>2 DEF TypeInv, IsFrame, Frames
<1>5. /\ pc' \in [Clients -> Places] /\ Lock!Exclusive'
      /\ \A s \in Clients : PlaceOf(s)'
  BY <1>1, <1>3, SavingGoesOn DEF Saving
<1> HIDE DEF saved
<1>6. TypeInv'
  <2>1. /\ disk_frames' \in [Names -> Frames \cup {NoFrame}]
        /\ \A m \in Names : disk_frames'[m] # NoFrame => IsFrame(disk_frames'[m])
    BY <1>1, <1>3, <1>4 DEF TypeInv, IsFrame
  <2> QED
    BY <1>1, <1>3, <1>5, <2>1 DEF TypeInv, memory, own, exists
<1> QED
  BY <1>1, <1>3, <1>5, <1>6 DEF Control, memory

\* So does emptying the file of the encodings.
LEMMA SaveTruncateControl ==
  ASSUME Control, NEW t \in Clients, SaveTruncate(t)
  PROVE  Control'
<1>1. /\ TypeInv /\ NoDuplicates(categories_) /\ pc[t] = "save_truncate"
      /\ UNCHANGED <<memory, disk_frames>>
  BY DEF Control, SaveTruncate
<1>2. CASE categories_ = <<>>
  BY <1>1, <1>2, EndControl DEF SaveTruncate, disk
<1>3. CASE categories_ # <<>>
  <2>1. /\ disk_categories' = <<>> /\ pc' = [pc EXCEPT ![t] = "save_write"]
        /\ UNCHANGED <<mode, req, own>>
    BY <1>3 DEF SaveTruncate, Goto
  <2>2. Len(disk_categories') < Len(categories_)
    BY <1>1, <1>3, <2>1 DEF TypeInv
  <2>3. /\ pc' \in [Clients -> Places] /\ Lock!Exclusive'
        /\ \A s \in Clients : PlaceOf(s)'
    BY <1>1, <2>1, <2>2, SavingGoesOn DEF Saving
  <2>4. TypeInv'
    BY <1>1, <2>1, <2>3, EmptyGlobal DEF TypeInv, memory, own, exists
  <2> QED
    BY <1>1, <2>3, <2>4 DEF Control, memory
<1> QED
  BY <1>2, <1>3

\* So does writing the encodings.
LEMMA SaveWriteControl ==
  ASSUME Control, NEW t \in Clients, SaveWrite(t)
  PROVE  Control'
<1>1. /\ TypeInv /\ NoDuplicates(categories_) /\ pc[t] = "save_write"
      /\ Len(disk_categories) < Len(categories_)
      /\ disk_categories' = Append(disk_categories, categories_[Len(disk_categories) + 1])
      /\ UNCHANGED <<memory, disk_frames>>
  BY DEF Control, SaveWrite, PlaceOf
<1>2. disk_categories' \in Seq(Categories) /\ Len(disk_categories') <= Len(categories_)
  BY <1>1 DEF TypeInv
<1>3. CASE Len(disk_categories') = Len(categories_)
  <2>1. Done(t)
    BY <1>3 DEF SaveWrite
  <2>2. TypeInv'
    BY <1>1, <1>2, <2>1, DoneControl DEF TypeInv, memory, exists
  <2>3. \A s \in Clients : s # t => PlaceOf(s)'
    <3>1. mode[t] = "weak"
      BY <1>1 DEF Control, PlaceOf, Saving
    <3> QED
      BY <2>1, <3>1, DoneControl, OthersOnlyRead, OthersKeepTheirPlace
  <2> QED
    BY <1>1, <2>1, <2>2, <2>3, DoneControl DEF Control, memory
<1>4. CASE Len(disk_categories') # Len(categories_)
  <2>1. UNCHANGED <<mode, pc, req, own>> /\ Len(disk_categories') < Len(categories_)
    BY <1>1, <1>2, <1>4 DEF SaveWrite, TypeInv
  <2>2. pc' = [pc EXCEPT ![t] = "save_write"]
    BY <1>1, <2>1 DEF TypeInv
  <2>3. /\ pc' \in [Clients -> Places] /\ Lock!Exclusive'
        /\ \A s \in Clients : PlaceOf(s)'
    BY <1>1, <2>1, <2>2, SavingGoesOn DEF Saving
  <2>4. TypeInv'
    BY <1>1, <1>2, <2>1, <2>3 DEF TypeInv, memory, own, exists
  <2> QED
    BY <1>1, <2>3, <2>4 DEF Control, memory
<1> QED
  BY <1>3, <1>4

\* A crash leaves all clients idle and what is on the disk.
LEMMA CrashControl ==
  ASSUME Control, Crash
  PROVE  Control'
<1>1. TypeInv
  BY DEF Control
<1>2. disk_categories' \in Seq(Categories)
  <2>1. CutString \in Categories
    BY DEF Categories
  <2>2. PICK cut \in {<<>>, <<CutString>>} : disk_categories' = disk_categories \o cut
    BY DEF Crash
  <2>3. <<>> \in Seq(Categories) /\ <<CutString>> \in Seq(Categories)
    BY <2>1, EmptyGlobal
  <2>4. disk_categories \in Seq(Categories) /\ cut \in Seq(Categories)
    BY <1>1, <2>3 DEF TypeInv
  <2> QED
    BY <2>2, <2>4, ConcatProperties
<1>3. categories_' \in Seq(Categories) /\ NoDuplicates(categories_')
  <2>1. categories_' = append(<<>>, AsEncoding(disk_categories'))
    BY DEF Crash
  <2>2. AsEncoding(disk_categories').vector_ = disk_categories'
    BY DEF AsEncoding
  <2> QED
    BY <1>2, <2>1, <2>2, EmptyGlobal, AppendAddsWhatIsNew
<1>4. TypeInv'
  BY <1>1, <1>2, <1>3, EmptyGlobal DEF Crash, TypeInv, exists, Lock!Modes, Places
<1>5. Lock!Exclusive'
  BY DEF Crash, Lock!Exclusive
<1>6. ASSUME NEW t \in Clients PROVE PlaceOf(t)'
  BY DEF Crash, PlaceOf, Before, Saving
<1> QED
  BY <1>3, <1>4, <1>5, <1>6 DEF Control

\* No step takes a client to a place where it does not hold the lock it needs.
LEMMA NextControl == Control /\ [Next]_vars => Control'
<1> SUFFICES ASSUME Control, [Next]_vars PROVE Control'
  OBVIOUS
<1>1. ASSUME NEW t \in Clients, NEW r \in Requests, Begin(t, r) PROVE Control'
  BY <1>1, BeginControl
<1>2. ASSUME NEW t \in Clients, Build(t) PROVE Control'
  BY <1>2, BuildControl
<1>3. ASSUME NEW t \in Clients, BuildFails(t) \/ GetContent(t) PROVE Control'
  BY <1>3, EndControl DEF BuildFails, GetContent
<1>4. ASSUME NEW t \in Clients, Upgrade(t) PROVE Control'
  BY <1>4, UpgradeControl
<1>5. ASSUME NEW t \in Clients, CommitEncodings(t) PROVE Control'
  BY <1>5, CommitEncodingsControl
<1>6. ASSUME NEW t \in Clients, CommitFrame(t) PROVE Control'
  BY <1>6, CommitFrameControl
<1>7. ASSUME NEW t \in Clients, Freeze(t) PROVE Control'
  BY <1>7, FreezeControl
<1>8. ASSUME NEW t \in Clients, Delete(t) PROVE Control'
  BY <1>8, DeleteControl
<1>9. ASSUME NEW t \in Clients, SaveRemove(t) \/ SaveRename(t) \/ SaveTruncate(t) \/ SaveWrite(t)
      PROVE  Control'
  BY <1>9, SaveRemoveControl, SaveRenameControl, SaveTruncateControl, SaveWriteControl
<1>10. CASE Crash
  BY <1>10, CrashControl
<1>11. CASE UNCHANGED vars
  BY <1>11
  DEF vars, memory, disk, own, counters, Control, TypeInv, PlaceOf, Before, Saving, FrameFirst,
      exists, Lock!Exclusive
<1> QED
  BY <1>1, <1>2, <1>3, <1>4, <1>5, <1>6, <1>7, <1>8, <1>9, <1>10, <1>11 DEF Next

\* In every state each client holds of the lock what its place calls for.
LEMMA AlwaysControl == Spec => []Control
BY InitControl, NextControl, PTL DEF Spec

\* What every variable holds, and that what a thread holds of the lock is what
\* its place in the handler calls for, through every interleaving of the
\* requests, crashes and restarts.
THEOREM TypeCorrect == Spec => []TypeOK
<1>1. Control => TypeOK
  BY DEF Control, TypeInv, TypeOK, PlaceOf, Categories, exists
<1> QED
  BY <1>1, AlwaysControl, PTL

-----------------------------------------------------------------------------
(* What the ids mean *)

\* An encoding a frame has kept agrees with g where it has ids of its own; it
\* looks up the other ids in c.
EncodingFits(e, c, g) ==
  e # GLOBAL =>
    /\ e.subsize_ <= Len(c) /\ size(e) <= Len(g)
    /\ \A k \in 1 .. Len(e.vector_) : g[e.subsize_ + k] = e.vector_[k]

Fits(f, c, g) == Stands(f.rows, f.sent, g) /\ EncodingFits(f.encoding, c, g)

\* Ids stand for the same strings when the encoding grows.
LEMMA StandsLater ==
  ASSUME NEW rows, NEW sent, NEW g \in Seq(Categories), NEW h \in Seq(Categories), Begins(g, h),
         Stands(rows, sent, g)
  PROVE  Stands(rows, sent, h)
BY IdsKeepTheirMeaning DEF Stands

\* A frame that fits an encoding fits a longer one.
LEMMA FitsLater ==
  ASSUME NEW f, Matched(f), NEW c \in Seq(Categories), NEW d \in Seq(Categories), Begins(c, d),
         NEW g \in Seq(Categories), NEW h \in Seq(Categories), Begins(g, h), Fits(f, c, g)
  PROVE  Fits(f, d, h)
<1>1. Stands(f.rows, f.sent, h)
  BY StandsLater DEF Fits
<1>2. ASSUME f.encoding # GLOBAL PROVE EncodingFits(f.encoding, d, h)
  <2> DEFINE e == f.encoding
  <2>1. e \in [subsize_ : Nat, vector_ : Seq(Categories)]
    BY <1>2 DEF Matched, Frames, LocalEncodings, Categories
  <2>2. /\ e.subsize_ \in Nat /\ Len(e.vector_) \in Nat
        /\ e.subsize_ <= Len(c) /\ size(e) <= Len(g)
        /\ \A k \in 1 .. Len(e.vector_) : g[e.subsize_ + k] = e.vector_[k]
    BY <1>2, <2>1 DEF Fits, EncodingFits
  <2>3. e.subsize_ <= Len(d) /\ size(e) <= Len(h)
    BY <2>2 DEF Begins, size
  <2>4. ASSUME NEW k \in 1 .. Len(e.vector_) PROVE h[e.subsize_ + k] = e.vector_[k]
    <3>1. e.subsize_ + k \in 1 .. Len(g)
      BY <2>2 DEF size
    <3> QED
      BY <2>2, <3>1 DEF Begins
  <2> QED
    BY <2>3, <2>4 DEF EncodingFits
<1> QED
  BY <1>1, <1>2 DEF Fits, EncodingFits

\* The ids of rows that are put behind others stand for what was sent.
LEMMA JoinedStands ==
  ASSUME NEW r1, NEW s1, Paired(r1, s1), NEW r2, NEW s2, Paired(r2, s2), NEW g,
         Stands(r1, s1, g), Stands(r2, s2, g)
  PROVE  Stands(r1 \o r2, s1 \o s2, g)
<1> SUFFICES ASSUME NEW i \in DOMAIN (r1 \o r2) PROVE IdStandsFor((r1 \o r2)[i], (s1 \o s2)[i], g)
  BY DEF Stands
<1>1. /\ i \in 1 .. Len(r1) + Len(r2) /\ Len(r1) \in Nat /\ Len(r2) \in Nat
      /\ DOMAIN r1 = 1 .. Len(r1) /\ DOMAIN r2 = 1 .. Len(r2)
      /\ Len(s1) = Len(r1) /\ Len(s2) = Len(r2)
  BY DEF Paired
<1>2. CASE i <= Len(r1)
  <2>1. (r1 \o r2)[i] = r1[i] /\ (s1 \o s2)[i] = s1[i]
    BY <1>1, <1>2 DEF Paired
  <2> QED
    BY <1>1, <1>2, <2>1 DEF Stands
<1>3. CASE i > Len(r1)
  <2>1. (r1 \o r2)[i] = r2[i - Len(r1)] /\ (s1 \o s2)[i] = s2[i - Len(r1)]
    BY <1>1, <1>3 DEF Paired
  <2>2. i - Len(r1) \in DOMAIN r2
    BY <1>1, <1>3
  <2> QED
    BY <2>1, <2>2 DEF Stands
<1> QED
  BY <1>1, <1>2, <1>3

\* The encoding of a request fits the global one it was made on.
LEMMA OwnEncodingFits ==
  ASSUME NEW g \in Seq(Categories), NEW e, OnTopOf(e, g)
  PROVE  EncodingFits(e, g, g \o e.vector_) /\ Begins(g, g \o e.vector_)
<1>1. e.vector_ \in Seq(Categories) /\ e.subsize_ = Len(g)
  BY DEF OnTopOf, LocalEncodings, Categories
<1> QED
  BY <1>1 DEF EncodingFits, Begins, size

\* The global encoding as it will be when thread t has committed.
Known(t) == IF Before(t) THEN categories_ \o local_categories[t].vector_ ELSE categories_

\* Thread t has changed the data frame, and the global encoding not yet.
Halfway(t) == pc[t] = "last" /\ FrameFirst(req[t])

MemoryFits ==
  /\ \A n \in Names : exists(n) /\ (\A t \in Clients : Halfway(t) => req[t].name # n) =>
                       Fits(data_frames_[n], categories_, categories_)
  /\ \A t \in Clients : Halfway(t) => Fits(data_frames_[req[t].name], categories_, Known(t))
  /\ \A t \in Clients : pc[t] \in {"upgrade", "first", "last"} => Fits(df[t], categories_, Known(t))

\* The file of the encoding is written.
Writing(t) == pc[t] \in {"save_truncate", "save_write"}

OnDisk(n) == disk_frames[n] # NoFrame

DiskFits ==
  /\ Begins(disk_categories, categories_)
  /\ \A n \in Names : OnDisk(n) =>
       /\ disk_frames[n].encoding = GLOBAL
       /\ Stands(disk_frames[n].rows, disk_frames[n].sent, categories_)
  /\ (\A t \in Clients : ~ Writing(t)) =>
       \A n \in Names : OnDisk(n) =>
         Stands(disk_frames[n].rows, disk_frames[n].sent, disk_categories)

Meaning == ~ torn => MemoryFits /\ DiskFits

\* What a client knows of the encodings begins with the global one.
LEMMA KnownIsLonger ==
  ASSUME Control, NEW t \in Clients
  PROVE  Known(t) \in Seq(Categories) /\ Begins(categories_, Known(t))
<1>1. categories_ \in Seq(Categories)
  BY DEF Control, TypeInv
<1>2. CASE Before(t)
  <2>1. OnTopOf(local_categories[t], categories_)
    BY <1>2 DEF Control, PlaceOf
  <2>2. local_categories[t].vector_ \in Seq(Categories)
    BY <2>1 DEF OnTopOf, LocalEncodings, Categories
  <2> QED
    BY <1>1, <1>2, <2>1, <2>2, OwnEncodingFits, ConcatProperties DEF Known
<1>3. CASE ~ Before(t)
  BY <1>1, <1>3 DEF Known, Begins
<1> QED
  BY <1>2, <1>3

-----------------------------------------------------------------------------
(* Every step keeps that meaning *)

\* At the start there are no ids.
LEMMA InitMeaning == Init => Meaning
BY EmptyGlobal DEF Init, Meaning, MemoryFits, DiskFits, Halfway, OnDisk, exists, Begins

\* Steps that leave the memory and the threads that build as they are.
LEMMA MemoryKeeps ==
  ASSUME Control, MemoryFits, UNCHANGED memory,
         \A s \in Clients : pc[s] = "last" \/ pc'[s] \in {"upgrade", "first", "last"} => Keeps(s)
  PROVE  MemoryFits'
<1>1. ASSUME NEW s \in Clients, Keeps(s)
      PROVE  Halfway(s)' = Halfway(s) /\ Known(s)' = Known(s)
  BY <1>1 DEF Keeps, Halfway, Known, Before, FrameFirst, exists, memory
<1>2. \A s \in Clients : Halfway(s) \/ Halfway(s)' => Keeps(s)
  BY DEF Halfway
<1>3. ASSUME NEW n \in Names, exists(n)', \A s \in Clients : Halfway(s)' => req'[s].name # n
      PROVE  Fits(data_frames_[n], categories_, categories_)'
  <2>1. \A s \in Clients : Halfway(s) => req[s].name # n
    BY <1>1, <1>2, <1>3 DEF Keeps
  <2> QED
    BY <1>3, <2>1 DEF MemoryFits, memory, exists
<1>4. ASSUME NEW s \in Clients, Halfway(s)'
      PROVE  Fits(data_frames_[req[s].name], categories_, Known(s))'
  BY <1>1, <1>2, <1>4 DEF MemoryFits, memory, Keeps
<1>5. ASSUME NEW s \in Clients, pc'[s] \in {"upgrade", "first", "last"}
      PROVE  Fits(df[s], categories_, Known(s))'
  BY <1>1, <1>5 DEF MemoryFits, memory, Keeps
<1> QED
  BY <1>3, <1>4, <1>5 DEF MemoryFits

\* Steps that leave the disk as it is, and at most extend the global encoding.
LEMMA DiskKeeps ==
  ASSUME Control, DiskFits, UNCHANGED disk,
         categories_' \in Seq(Categories), Begins(categories_, categories_'),
         \A s \in Clients : Writing(s) => Writing(s)'
  PROVE  DiskFits'
<1>1. categories_ \in Seq(Categories) /\ disk_categories \in Seq(Categories)
  BY DEF Control, TypeInv
<1>2. Begins(disk_categories, categories_)'
  BY <1>1 DEF DiskFits, Begins, disk
<1>3. ASSUME NEW n \in Names, OnDisk(n)
      PROVE  Stands(disk_frames[n].rows, disk_frames[n].sent, categories_')
  BY <1>1, <1>3, StandsLater DEF DiskFits
<1> QED
  BY <1>2, <1>3 DEF DiskFits, OnDisk, disk

\* An encoding begins with itself.
LEMMA SameCategories ==
  ASSUME Control
  PROVE  categories_ \in Seq(Categories) /\ Begins(categories_, categories_)
BY DEF Control, TypeInv, Begins

\* A request that begins, or ends without a change.
LEMMA BeginMeaning ==
  ASSUME Control, MemoryFits, DiskFits, NEW t \in Clients, NEW r \in Requests, Begin(t, r)
  PROVE  MemoryFits' /\ DiskFits'
<1>1. /\ UNCHANGED <<memory, disk>> /\ pc[t] = "idle"
      /\ pc'[t] \notin {"upgrade", "first", "last"}
      /\ \A s \in Clients : s # t => Keeps(s)
  <2>1. pc[t] = "idle"
    BY DEF Begin, Lock!Acquire, Control, PlaceOf
  <2>2. pc'[t] = FirstStep(r.op) /\ \A s \in Clients : s # t => Keeps(s)
    BY DEF Begin, Goto, Lock!Acquire, Control, TypeInv, Keeps
  <2> QED
    BY <2>1, <2>2, FirstPlaces DEF Begin
<1>2. MemoryFits'
  BY <1>1, MemoryKeeps
<1>3. DiskFits'
  BY <1>1, DiskKeeps, SameCategories DEF memory, Writing, Keeps
<1> QED
  BY <1>2, <1>3

\* A handler that ends leaves the meaning of the ids as it is.
LEMMA EndMeaning ==
  ASSUME Control, MemoryFits, NEW t \in Clients, Done(t), pc[t] # "last", UNCHANGED memory
  PROVE  /\ MemoryFits'
         /\ DiskFits /\ UNCHANGED disk /\ ~ Writing(t) => DiskFits'
<1>1. pc'[t] = "idle" /\ \A s \in Clients : s # t => Keeps(s)
  BY DoneControl
<1>2. MemoryFits'
  BY <1>1, MemoryKeeps
<1>3. ASSUME DiskFits, UNCHANGED disk, ~ Writing(t) PROVE DiskFits'
  BY <1>1, <1>3, DiskKeeps, SameCategories DEF memory, Writing, Keeps
<1> QED
  BY <1>2, <1>3

\* While a thread has the weak or the strong lock and is not halfway, all data
\* frames are in order.
LEMMA AllFit ==
  ASSUME Control, MemoryFits, NEW t \in Clients, mode[t] \in {"weak", "write"}, ~ Halfway(t)
  PROVE  \A n \in Names : exists(n) => /\ Fits(data_frames_[n], categories_, categories_)
                                      /\ Matched(data_frames_[n])
<1>1. \A s \in Clients : ~ Halfway(s)
  BY OthersOnlyRead DEF Halfway
<1>2. TypeInv
  BY DEF Control
<1> QED
  BY <1>1, <1>2, HeldFrameMatches DEF MemoryFits

\* The rows a frame is built on stand for what was sent, also when there are none.
LEMMA BaseStands ==
  ASSUME NEW n, NEW g, n = NoFrame \/ Stands(data_frames_[n].rows, data_frames_[n].sent, g)
  PROVE  Stands(RowsOf(n), SentOf(n), g)
BY DEF RowsOf, SentOf, Stands

\* The ids of a frame that was built stand for what was sent once the encoding of
\* the request is appended.
LEMMA BuiltFits ==
  ASSUME Control, MemoryFits, NEW t \in Clients, pc[t] = "build", CanBuild(req[t]), req[t].op # "load"
  PROVE  LET p == Parsed(local_categories[t], Column(req[t]))
         IN  Fits(Built(req[t], p), categories_, categories_ \o p.encoding.vector_)
<1> DEFINE r == req[t]
           p == Parsed(local_categories[t], Column(r))
           g == categories_ \o p.encoding.vector_
<1>1. /\ r \in Requests /\ r.op \in BuildOps \ {"load"} /\ TypeInv /\ categories_ \in Seq(Categories)
      /\ mode[t] = "weak" /\ ~ Halfway(t)
  BY DEF Control, PlaceOf, Halfway, TypeInv
<1>2. /\ Column(r) \in Seq(Strings \cup {NULL})
      /\ OnTopOf(p.encoding, categories_)
      /\ p.ids \in Seq(Nat \cup {-1}) /\ Len(p.ids) = Len(Column(r))
      /\ Stands(p.ids, Column(r), g)
  BY BuildParses
<1> SUFFICES Fits(Built(r, p), categories_, g)
  OBVIOUS
<1> HIDE DEF p
<1>3. g \in Seq(Categories) /\ Begins(categories_, g) /\ EncodingFits(p.encoding, categories_, g)
  <2>1. p.encoding.vector_ \in Seq(Categories)
    BY <1>2 DEF OnTopOf, LocalEncodings, Categories
  <2> QED
    BY <1>1, <1>2, <2>1, OwnEncodingFits, ConcatProperties
<1> HIDE DEF g
<1>4. ASSUME NEW n \in Names, exists(n)
      PROVE  Fits(data_frames_[n], categories_, g)
  <2>1. Fits(data_frames_[n], categories_, categories_) /\ Matched(data_frames_[n])
    BY <1>1, <1>4, AllFit
  <2>2. Begins(categories_, categories_)
    BY SameCategories
  <2> QED
    BY <1>1, <1>3, <2>1, <2>2, FitsLater
<1>5. CASE r.op = "concat"
  <2>1. r.base \in Names /\ exists(r.base) /\ r.other \in Names /\ exists(r.other)
    BY <1>1, <1>5, RequestFields DEF CanBuild
  <2>2. /\ Stands(RowsOf(r.base), SentOf(r.base), g) /\ Paired(RowsOf(r.base), SentOf(r.base))
        /\ Stands(RowsOf(r.other), SentOf(r.other), g) /\ Paired(RowsOf(r.other), SentOf(r.other))
    BY <1>1, <1>4, <2>1, BaseStands, BaseMatches DEF Fits
  <2>3. Stands(RowsOf(r.base) \o RowsOf(r.other), SentOf(r.base) \o SentOf(r.other), g)
    BY <2>2, JoinedStands
  <2>4. EncodingFits(data_frames_[r.base].encoding, categories_, g)
    BY <1>4, <2>1 DEF Fits
  <2> QED
    BY <1>5, <2>3, <2>4 DEF Built, Fits, Frame
<1>6. CASE r.op = "append"
  <2>1. Column(r) = r.upload
    BY <1>6 DEF Column
  <2> QED
    BY <1>2, <1>3, <1>6, <2>1 DEF Built, Fits, Frame
<1>7. CASE r.op = "from"
  <2>1. r.base = NoFrame \/ (r.base \in Names /\ exists(r.base))
    BY <1>1, <1>7, RequestFields DEF CanBuild
  <2>2. Column(r) = r.upload
    BY <1>7 DEF Column
  <2>3. Stands(RowsOf(r.base), SentOf(r.base), g) /\ Paired(RowsOf(r.base), SentOf(r.base))
    BY <1>1, <1>4, <2>1, BaseStands, BaseMatches DEF Fits
  <2>4. Stands(p.ids, r.upload, g) /\ Paired(p.ids, r.upload)
    BY <1>2, <2>2 DEF Paired
  <2>5. Stands(RowsOf(r.base) \o p.ids, SentOf(r.base) \o r.upload, g)
    BY <2>3, <2>4, JoinedStands
  <2> QED
    BY <1>7, <2>5 DEF Built, Fits, Frame, EncodingFits
<1>8. CASE r.op = "add_column"
  <2>1. Column(r) = r.upload
    BY <1>8 DEF Column
  <2> QED
    BY <1>2, <1>8, <2>1 DEF Built, Fits, Frame, EncodingFits
<1> QED
  BY <1>1, <1>5, <1>6, <1>7, <1>8 DEF BuildOps

\* Building a frame leaves the meaning of all other ids as it is.
LEMMA BuildMeaning ==
  ASSUME Control, MemoryFits, DiskFits, NEW t \in Clients, Build(t)
  PROVE  MemoryFits' /\ DiskFits'
<1> DEFINE r == req[t]
           p == Parsed(local_categories[t], Column(r))
           built == IF r.op = "load" THEN disk_frames[r.name] ELSE Built(r, p)
<1>1. /\ TypeInv /\ pc[t] = "build" /\ mode[t] = "weak" /\ ~ Halfway(t) /\ CanBuild(r)
      /\ r \in Requests /\ r.op \in BuildOps
      /\ UNCHANGED <<memory, mode, req, disk>>
  BY DEF Control, Build, PlaceOf, Halfway
<1>2. /\ local_categories' = [local_categories EXCEPT ![t] = p.encoding]
      /\ df' = [df EXCEPT ![t] = built]
      /\ pc' = [pc EXCEPT ![t] = "upgrade"]
  BY DEF Build, Column, Goto
<1>3. Fits(built, categories_, IF r.op = "load" THEN categories_ ELSE categories_ \o p.encoding.vector_)
  <2>1. CASE r.op = "load"
    <3>1. r.name \in Names /\ OnDisk(r.name)
      BY <1>1, <2>1, RequestFields DEF CanBuild, OnDisk, BuildOps
    <3> QED
      BY <2>1, <3>1 DEF DiskFits, Fits, EncodingFits
  <2>2. CASE r.op # "load"
    BY <1>1, <2>2, BuiltFits
  <2> QED
    BY <2>1, <2>2
<1> HIDE DEF p, built
<1>4. /\ pc'[t] = "upgrade" /\ req'[t] = r /\ df'[t] = built /\ local_categories'[t] = p.encoding
      /\ UNCHANGED <<categories_, data_frames_>>
  BY <1>1, <1>2 DEF TypeInv, memory
<1>5. \A s \in Clients : s # t => Keeps(s) /\ pc[s] \in {"idle", "get_content"}
  BY <1>1, <1>2, OthersOnlyRead DEF TypeInv, Keeps
<1>6. Fits(df[t], categories_, Known(t))'
  BY <1>3, <1>4 DEF Known, Before
<1>7. \A n \in Names : exists(n)' => Fits(data_frames_[n], categories_, categories_)'
  BY <1>1, <1>4, AllFit DEF exists
<1>8. MemoryFits'
  BY <1>4, <1>5, <1>6, <1>7 DEF MemoryFits, Keeps, Halfway
<1>9. DiskFits'
  BY <1>1, <1>4, <1>5, DiskKeeps, SameCategories DEF Writing, Keeps
<1> QED
  BY <1>8, <1>9

\* So does the upgrade.
LEMMA UpgradeMeaning ==
  ASSUME Control, MemoryFits, DiskFits, NEW t \in Clients, Upgrade(t)
  PROVE  MemoryFits' /\ DiskFits'
<1> DEFINE r == req[t]
           place == IF r.op = "load" THEN "last" ELSE "first"
<1>1. /\ TypeInv /\ pc[t] = "upgrade" /\ mode[t] = "weak" /\ ~ Halfway(t)
      /\ pc' = [pc EXCEPT ![t] = place]
      /\ UNCHANGED <<memory, req, local_categories, df, disk>>
  BY DEF Control, Upgrade, PlaceOf, Goto, own, Halfway
<1>2. mode' = [mode EXCEPT ![t] = "write"]
  BY DEF Upgrade, Lock!UpgradeWeak
<1>3. \A s \in Clients : s # t => Keeps(s) /\ pc[s] \in {"idle", "get_content"}
  BY <1>1, <1>2, OthersOnlyRead DEF TypeInv, Keeps
<1>4. pc'[t] = place /\ UNCHANGED <<categories_, data_frames_>>
  BY <1>1 DEF TypeInv, memory
<1>5. Known(t)' = Known(t) /\ ~ Halfway(t)'
  BY <1>1, <1>4 DEF Known, Before, Halfway, FrameFirst
<1>6. \A n \in Names : exists(n)' => Fits(data_frames_[n], categories_, categories_)'
  BY <1>1, <1>4, AllFit DEF exists
<1>7. Fits(df[t], categories_, Known(t))'
  BY <1>1, <1>4, <1>5 DEF MemoryFits
<1>8. MemoryFits'
  BY <1>3, <1>4, <1>5, <1>6, <1>7 DEF MemoryFits, Keeps, Halfway
<1>9. DiskFits'
  BY <1>1, <1>3, <1>4, DiskKeeps, SameCategories DEF Writing, Keeps
<1> QED
  BY <1>8, <1>9

\* Appending the encoding of a request changes the meaning of no id.
LEMMA CommitEncodingsMeaning ==
  ASSUME Control, MemoryFits, DiskFits, NEW t \in Clients, CommitEncodings(t)
  PROVE  MemoryFits' /\ DiskFits'
<1> DEFINE known == categories_ \o local_categories[t].vector_
<1>1. /\ TypeInv /\ pc[t] \in {"first", "last"} /\ mode[t] = "write"
      /\ req[t] \in Requests /\ req[t].op \in BuildOps
      /\ Known(t) = known /\ categories_' = known /\ UNCHANGED <<data_frames_, disk>>
  BY CommitAppends DEF Control, PlaceOf, CommitEncodings, Known
<1>2. /\ categories_ \in Seq(Categories) /\ known \in Seq(Categories)
      /\ Begins(categories_, known) /\ Begins(categories_, categories_) /\ Begins(known, known)
  <2>1. Known(t) \in Seq(Categories) /\ Begins(categories_, Known(t))
    BY KnownIsLonger
  <2>2. Begins(Known(t), Known(t))
    BY <2>1 DEF Begins
  <2> QED
    BY <1>1, <2>1, <2>2, SameCategories
<1>3. req[t].name \in Names
  BY <1>1, RequestFields
<1> HIDE DEF known
<1>4. \A s \in Clients : s # t => pc[s] = "idle"
  BY <1>1, OthersOnlyRead
<1>5. \A n \in Names : exists(n)' => Fits(data_frames_[n], categories_, categories_)'
  <2> SUFFICES ASSUME NEW n \in Names, exists(n) PROVE Fits(data_frames_[n], known, known)
    BY <1>1 DEF exists
  <2>1. Matched(data_frames_[n])
    BY <1>1, HeldFrameMatches
  <2>2. CASE Halfway(t) /\ req[t].name = n
    <3>1. Fits(data_frames_[n], categories_, known)
      BY <1>1, <2>2 DEF MemoryFits
    <3> QED
      BY <1>2, <2>1, <3>1, FitsLater
  <2>3. CASE ~ (Halfway(t) /\ req[t].name = n)
    <3>1. Fits(data_frames_[n], categories_, categories_)
      BY <1>4, <2>3 DEF MemoryFits, Halfway
    <3> QED
      BY <1>2, <2>1, <3>1, FitsLater
  <2> QED
    BY <2>2, <2>3
<1>6. CASE pc[t] = "last"
  <2>1. Done(t)
    BY <1>6 DEF CommitEncodings
  <2>2. \A s \in Clients : pc'[s] = "idle"
    BY <1>4, <2>1, DoneControl DEF Keeps
  <2>3. MemoryFits'
    BY <1>5, <2>2 DEF MemoryFits, Halfway
  <2>4. DiskFits'
    BY <1>1, <1>2, <1>4, DiskKeeps DEF Writing
  <2> QED
    BY <2>3, <2>4
<1>7. CASE pc[t] = "first"
  <2>1. /\ pc' = [pc EXCEPT ![t] = "last"] /\ UNCHANGED <<mode, req, local_categories, df>>
        /\ ~ FrameFirst(req[t])
    BY <1>7 DEF CommitEncodings, Goto, own
  <2>2. ~ Halfway(t)' /\ ~ Before(t)' /\ Known(t)' = known
    BY <1>1, <2>1 DEF Halfway, Before, Known, FrameFirst, exists, TypeInv
  <2>3. Fits(df[t], categories_, Known(t))'
    <3>1. Fits(df[t], categories_, known) /\ Matched(df[t])
      BY <1>1, <1>7 DEF MemoryFits, Control, PlaceOf
    <3>2. Fits(df[t], known, known)
      BY <1>2, <3>1, FitsLater
    <3> QED
      BY <1>1, <2>1, <2>2, <3>2
  <2>4. \A s \in Clients : s # t => pc'[s] = "idle"
    BY <1>1, <1>4, <2>1 DEF TypeInv
  <2>5. MemoryFits'
    BY <1>5, <2>2, <2>3, <2>4 DEF MemoryFits, Halfway
  <2>6. DiskFits'
    BY <1>1, <1>2, <1>4, <1>7, DiskKeeps DEF Writing
  <2> QED
    BY <2>5, <2>6
<1> QED
  BY <1>1, <1>6, <1>7

\* The ids of an assigned frame have their meaning in the global encoding.
LEMMA CommitFrameMeaning ==
  ASSUME Control, MemoryFits, DiskFits, NEW t \in Clients, CommitFrame(t)
  PROVE  MemoryFits' /\ DiskFits'
<1> DEFINE r == req[t]
           new == Committed(t)
<1>1. /\ TypeInv /\ pc[t] \in {"first", "last"} /\ mode[t] = "write"
      /\ r \in Requests /\ r.op \in BuildOps /\ r.name \in Names
      /\ Matched(df[t]) /\ new # NoFrame /\ UNCHANGED <<categories_, disk>>
      /\ pc[t] = IF FrameFirst(r) THEN "first" ELSE "last"
  BY CommittedMatches DEF Control, CommitFrame
<1>2. /\ ~ Halfway(t) /\ (pc[t] = "first" => Before(t)) /\ (pc[t] = "last" => ~ Before(t))
  BY <1>1 DEF Halfway, Before, Control, PlaceOf
<1>3. data_frames_' = IF Throws(t) THEN data_frames_ ELSE [data_frames_ EXCEPT ![r.name] = new]
  BY DEF CommitFrame, Committed, Throws
<1>4. \A s \in Clients : s # t => pc[s] = "idle"
  BY <1>1, OthersOnlyRead
<1>5. \A n \in Names : exists(n) => /\ Fits(data_frames_[n], categories_, categories_)
                                   /\ Matched(data_frames_[n])
  BY <1>1, <1>2, AllFit
<1>6. Fits(new, categories_, Known(t))
  <2>1. Fits(df[t], categories_, Known(t))
    BY <1>1 DEF MemoryFits
  <2>2. CASE Appends(r)
    <3> DEFINE old == data_frames_[r.name]
    <3>1. Matched(old) /\ Fits(old, categories_, categories_)
      BY <1>1, <1>5, <2>2 DEF Appends
    <3>2. Fits(old, categories_, Known(t))
      BY <3>1, KnownIsLonger, SameCategories, FitsLater
    <3>3. Stands(old.rows \o df[t].rows, old.sent \o df[t].sent, Known(t))
      BY <1>1, <2>1, <3>1, <3>2, JoinedStands DEF Fits, Matched
    <3>4. /\ new.rows = old.rows \o df[t].rows /\ new.sent = old.sent \o df[t].sent
          /\ new.encoding = old.encoding
      BY <2>2, <3>1 DEF Committed, Extended, Matched, Frames
    <3> QED
      BY <3>2, <3>3, <3>4 DEF Fits
  <2>3. CASE ~ Appends(r)
    BY <2>1, <2>3 DEF Committed
  <2> QED
    BY <2>2, <2>3
<1> HIDE DEF new
<1>7. CASE Throws(t) \/ pc[t] = "last"
  <2>1. Done(t)
    BY <1>7 DEF CommitFrame, Throws
  <2>2. \A s \in Clients : pc'[s] = "idle"
    BY <1>4, <2>1, DoneControl DEF Keeps
  <2>3. \A n \in Names : exists(n)' => Fits(data_frames_[n], categories_, categories_)'
    <3>1. CASE Throws(t)
      BY <1>1, <1>3, <1>5, <3>1 DEF exists
    <3>2. CASE ~ Throws(t)
      <4>1. Fits(new, categories_, categories_)
        BY <1>2, <1>6, <1>7, <3>2 DEF Known
      <4> QED
        BY <1>1, <1>3, <1>5, <3>2, <4>1 DEF exists, TypeInv
    <3> QED
      BY <3>1, <3>2
  <2>4. MemoryFits'
    BY <2>2, <2>3 DEF MemoryFits, Halfway
  <2>5. DiskFits'
    BY <1>1, <1>4, DiskKeeps, SameCategories DEF Writing
  <2> QED
    BY <2>4, <2>5
<1>8. CASE ~ Throws(t) /\ pc[t] = "first"
  <2>1. /\ pc' = [pc EXCEPT ![t] = "last"] /\ UNCHANGED <<mode, req, local_categories, df>>
        /\ FrameFirst(r) /\ data_frames_' = [data_frames_ EXCEPT ![r.name] = new]
    BY <1>1, <1>3, <1>8 DEF CommitFrame, Goto, own, Throws
  <2>2. data_frames_'[r.name] = new /\ pc'[t] = "last"
    BY <1>1, <2>1 DEF TypeInv
  <2>3. Halfway(t)' /\ Known(t)' = Known(t)
    <3>1. FrameFirst(r)'
      BY <1>1, <2>1, <2>2 DEF FrameFirst, exists
    <3>2. r.op # "load"
      BY <2>1 DEF FrameFirst
    <3> QED
      BY <1>1, <1>2, <1>8, <2>1, <2>2, <3>1, <3>2 DEF Halfway, Known, Before
  <2>4. \A s \in Clients : s # t => pc'[s] = "idle"
    BY <1>1, <1>4, <2>1 DEF TypeInv
  <2>5. ASSUME NEW n \in Names, exists(n)', n # r.name
        PROVE  Fits(data_frames_[n], categories_, categories_)'
    BY <1>1, <1>5, <2>1, <2>5 DEF exists, TypeInv
  <2>6. Fits(data_frames_[req[t].name], categories_, Known(t))'
    BY <1>1, <1>6, <2>1, <2>2, <2>3
  <2>7. Fits(df[t], categories_, Known(t))'
    BY <1>1, <2>1, <2>3 DEF MemoryFits
  <2>8. MemoryFits'
    BY <2>1, <2>3, <2>4, <2>5, <2>6, <2>7 DEF MemoryFits, Halfway
  <2>9. DiskFits'
    BY <1>1, <1>4, <1>8, DiskKeeps, SameCategories DEF Writing
  <2> QED
    BY <2>8, <2>9
<1> QED
  BY <1>1, <1>7, <1>8

\* Freezing a frame changes the meaning of no id.
LEMMA FreezeMeaning ==
  ASSUME Control, MemoryFits, DiskFits, NEW t \in Clients, Freeze(t)
  PROVE  MemoryFits' /\ DiskFits'
<1> DEFINE n == req[t].name
<1>1. /\ TypeInv /\ pc[t] = "freeze" /\ mode[t] = "write" /\ ~ Halfway(t)
      /\ req[t] \in Requests /\ req[t].op = "freeze" /\ Done(t) /\ UNCHANGED <<categories_, disk>>
  BY DEF Control, Freeze, TypeInv, PlaceOf, Lock!Modes, Saving, Halfway
<1>2. n \in Names
  BY <1>1, RequestFields
<1>3. \A s \in Clients : pc'[s] = "idle" /\ (s # t => pc[s] = "idle")
  BY <1>1, OthersOnlyRead, DoneControl DEF Keeps
<1>4. \A m \in Names : exists(m)' => Fits(data_frames_[m], categories_, categories_)'
  <2>1. \A m \in Names : exists(m) => /\ Fits(data_frames_[m], categories_, categories_)
                                     /\ Matched(data_frames_[m])
    BY <1>1, AllFit
  <2>2. CASE ~ exists(n)
    BY <1>1, <2>1, <2>2 DEF Freeze, exists
  <2>3. CASE exists(n)
    <3> DEFINE frozen == [data_frames_[n] EXCEPT !.frozen_ = TRUE]
    <3>1. data_frames_' = [data_frames_ EXCEPT ![n] = frozen]
      BY <1>1, <1>2, <2>3 DEF Freeze, TypeInv
    <3>2. /\ frozen.rows = data_frames_[n].rows /\ frozen.sent = data_frames_[n].sent
          /\ frozen.encoding = data_frames_[n].encoding
      BY <1>2, <2>1, <2>3 DEF Matched, Frames
    <3>3. Fits(frozen, categories_, categories_)
      BY <1>2, <2>1, <2>3, <3>2 DEF Fits
    <3> HIDE DEF frozen
    <3> QED
      BY <1>1, <1>2, <2>1, <3>1, <3>3, <2>3 DEF exists, TypeInv
  <2> QED
    BY <2>2, <2>3
<1>5. MemoryFits'
  BY <1>3, <1>4 DEF MemoryFits, Halfway
<1>6. DiskFits'
  BY <1>1, <1>3, DiskKeeps, SameCategories DEF Writing
<1> QED
  BY <1>5, <1>6

\* Nor does deleting one.
LEMMA DeleteMeaning ==
  ASSUME Control, MemoryFits, DiskFits, NEW t \in Clients, Delete(t)
  PROVE  MemoryFits' /\ DiskFits'
<1>1. /\ TypeInv /\ pc[t] = "delete" /\ mode[t] = "write" /\ ~ Halfway(t)
      /\ Done(t) /\ UNCHANGED <<categories_, disk_categories>>
      /\ data_frames_' = [data_frames_ EXCEPT ![req[t].name] = NoFrame]
      /\ disk_frames' \in {disk_frames, [disk_frames EXCEPT ![req[t].name] = NoFrame]}
  BY DEF Control, Delete, TypeInv, PlaceOf, Lock!Modes, Saving, Halfway
<1>2. \A s \in Clients : pc'[s] = "idle" /\ ~ Writing(s)
  BY <1>1, OthersOnlyRead, DoneControl DEF Keeps, Writing
<1>3. \A n \in Names : exists(n)' => Fits(data_frames_[n], categories_, categories_)'
  BY <1>1, AllFit DEF exists, TypeInv
<1>4. MemoryFits'
  BY <1>2, <1>3 DEF MemoryFits, Halfway
<1>5. \A n \in Names : disk_frames'[n] # NoFrame => OnDisk(n) /\ disk_frames'[n] = disk_frames[n]
  BY <1>1 DEF OnDisk, TypeInv
<1>6. DiskFits'
  BY <1>1, <1>2, <1>5 DEF DiskFits, OnDisk
<1> QED
  BY <1>4, <1>6

\* While a save goes on, the memory and the other threads stay as they are.
LEMMA SavingKeepsMemory ==
  ASSUME Control, MemoryFits, NEW t \in Clients, Saving(t), UNCHANGED memory,
         NEW place \in Places \ {"upgrade", "first", "last"}, pc' = [pc EXCEPT ![t] = place],
         UNCHANGED <<mode, req, own>>
  PROVE  MemoryFits' /\ pc'[t] = place /\ \A s \in Clients : s # t => Keeps(s)
<1>1. pc'[t] = place /\ \A s \in Clients : s # t => Keeps(s)
  BY DEF Control, TypeInv, Keeps, own
<1>2. \A s \in Clients : pc[s] = "last" \/ pc'[s] \in {"upgrade", "first", "last"} => Keeps(s)
  BY <1>1 DEF Saving
<1> QED
  BY <1>1, <1>2, MemoryKeeps

\* Nor does removing files.
LEMMA SaveRemoveMeaning ==
  ASSUME Control, MemoryFits, DiskFits, NEW t \in Clients, SaveRemove(t)
  PROVE  MemoryFits' /\ DiskFits'
<1>1. /\ pc[t] = "save_remove" /\ Saving(t) /\ ~ Writing(t) /\ UNCHANGED <<memory, disk_categories>>
  BY DEF SaveRemove, Saving, Writing
<1>2. CASE exists(req[t].name)
  <2>1. /\ disk_frames' = [disk_frames EXCEPT ![req[t].name] = NoFrame]
        /\ pc' = [pc EXCEPT ![t] = "save_rename"] /\ UNCHANGED <<mode, req, own>>
    BY <1>2 DEF SaveRemove, Goto
  <2>2. MemoryFits' /\ \A s \in Clients : s # t => Keeps(s)
    BY <1>1, <2>1, SavingKeepsMemory DEF Places
  <2>3. \A n \in Names : OnDisk(n)' => OnDisk(n) /\ disk_frames'[n] = disk_frames[n]
    BY <2>1 DEF OnDisk, Control, TypeInv
  <2>4. (\A s \in Clients : ~ Writing(s)') => \A s \in Clients : ~ Writing(s)
    BY <1>1, <2>2 DEF Writing, Keeps
  <2>5. DiskFits'
    BY <1>1, <2>3, <2>4 DEF DiskFits, memory
  <2> QED
    BY <2>2, <2>5
<1>3. CASE ~ exists(req[t].name)
  BY <1>1, <1>3, EndMeaning DEF SaveRemove, disk
<1> QED
  BY <1>2, <1>3

\* The ids of the files of a frame stand for what they do in memory.
LEMMA SaveRenameMeaning ==
  ASSUME Control, MemoryFits, DiskFits, NEW t \in Clients, SaveRename(t)
  PROVE  MemoryFits' /\ DiskFits'
<1> DEFINE n == req[t].name
           saved == [data_frames_[n] EXCEPT !.encoding = GLOBAL]
<1>1. /\ TypeInv /\ pc[t] = "save_rename" /\ Saving(t) /\ ~ Halfway(t) /\ mode[t] = "weak"
      /\ req[t] \in Requests /\ req[t].op = "save" /\ exists(n)
  BY DEF Control, SaveRename, PlaceOf, Saving, Halfway
<1>2. n \in Names
  BY <1>1, RequestFields
<1>3. /\ disk_frames' = [disk_frames EXCEPT ![n] = saved]
      /\ pc' = [pc EXCEPT ![t] = "save_truncate"]
      /\ UNCHANGED <<memory, mode, req, own, disk_categories>>
  BY DEF SaveRename, Goto
<1>4. MemoryFits' /\ Writing(t)'
  BY <1>1, <1>3, SavingKeepsMemory DEF Places, Writing
<1>5. Stands(saved.rows, saved.sent, categories_) /\ saved.encoding = GLOBAL
  <2>1. Fits(data_frames_[n], categories_, categories_) /\ Matched(data_frames_[n])
    BY <1>1, <1>2, AllFit
  <2>2. /\ saved.rows = data_frames_[n].rows /\ saved.sent = data_frames_[n].sent
        /\ saved.encoding = GLOBAL
    BY <2>1 DEF Matched, Frames
  <2> QED
    BY <2>1, <2>2 DEF Fits
<1> HIDE DEF saved
<1>6. \A m \in Names : \/ disk_frames'[m] = disk_frames[m]
                        \/ disk_frames'[m] = saved
  BY <1>1, <1>3 DEF TypeInv
<1>7. Begins(disk_categories, categories_)'
  BY <1>3 DEF DiskFits, memory
<1>8. ASSUME NEW m \in Names, OnDisk(m)'
      PROVE  /\ disk_frames'[m].encoding = GLOBAL
             /\ Stands(disk_frames'[m].rows, disk_frames'[m].sent, categories_')
  BY <1>3, <1>5, <1>6, <1>8 DEF DiskFits, OnDisk, memory
<1>9. DiskFits'
  BY <1>4, <1>7, <1>8 DEF DiskFits
<1> QED
  BY <1>4, <1>9

\* Emptying the file of the encodings changes no meaning in memory.
LEMMA SaveTruncateMeaning ==
  ASSUME Control, MemoryFits, DiskFits, NEW t \in Clients, SaveTruncate(t)
  PROVE  MemoryFits' /\ DiskFits'
<1>1. /\ TypeInv /\ pc[t] = "save_truncate" /\ Saving(t) /\ UNCHANGED <<memory, disk_frames>>
  BY DEF Control, SaveTruncate, Saving
<1>2. CASE categories_ = <<>>
  <2>1. Done(t) /\ UNCHANGED disk
    BY <1>1, <1>2 DEF SaveTruncate, disk
  <2>2. MemoryFits'
    BY <1>1, <2>1, EndMeaning
  <2>3. disk_categories = categories_
    BY <1>1, <1>2 DEF DiskFits, Begins, TypeInv
  <2>4. DiskFits'
    BY <1>1, <2>1, <2>3 DEF DiskFits, OnDisk, disk, memory
  <2> QED
    BY <2>2, <2>4
<1>3. CASE categories_ # <<>>
  <2>1. /\ disk_categories' = <<>> /\ pc' = [pc EXCEPT ![t] = "save_write"]
        /\ UNCHANGED <<mode, req, own>>
    BY <1>3 DEF SaveTruncate, Goto
  <2>2. MemoryFits' /\ Writing(t)'
    BY <1>1, <2>1, SavingKeepsMemory DEF Places, Writing
  <2>3. Begins(disk_categories, categories_)'
    <3>1. UNCHANGED categories_ /\ Len(categories_) \in Nat
      BY <1>1 DEF memory, TypeInv
    <3> QED
      BY <2>1, <3>1 DEF Begins
  <2>4. DiskFits'
    BY <1>1, <2>2, <2>3 DEF DiskFits, OnDisk, memory
  <2> QED
    BY <2>2, <2>4
<1> QED
  BY <1>2, <1>3

\* The encodings that are written hold every id of the saved frames.
LEMMA SaveWriteMeaning ==
  ASSUME Control, MemoryFits, DiskFits, NEW t \in Clients, SaveWrite(t)
  PROVE  MemoryFits' /\ DiskFits'
<1>1. /\ TypeInv /\ pc[t] = "save_write" /\ Saving(t) /\ Writing(t)
      /\ Len(disk_categories) < Len(categories_)
      /\ disk_categories' = Append(disk_categories, categories_[Len(disk_categories) + 1])
      /\ UNCHANGED <<memory, disk_frames>>
  BY DEF Control, SaveWrite, PlaceOf, Saving, Writing
<1>2. /\ categories_ \in Seq(Categories) /\ disk_categories \in Seq(Categories)
      /\ UNCHANGED categories_ /\ Begins(disk_categories, categories_)
  BY <1>1 DEF TypeInv, memory, DiskFits
<1>3. disk_categories' \in Seq(Categories) /\ Begins(disk_categories', categories_)
  BY <1>1, <1>2 DEF Begins
<1>4. CASE Len(disk_categories') = Len(categories_)
  <2>1. Done(t)
    BY <1>4 DEF SaveWrite
  <2>2. MemoryFits'
    BY <1>1, <2>1, EndMeaning
  <2>3. Begins(categories_, disk_categories')
    BY <1>2, <1>3, <1>4 DEF Begins
  <2>4. ASSUME NEW n \in Names, OnDisk(n)
        PROVE  Stands(disk_frames[n].rows, disk_frames[n].sent, disk_categories')
    BY <1>2, <1>3, <2>3, <2>4, StandsLater DEF DiskFits
  <2>5. DiskFits'
    BY <1>1, <1>2, <1>3, <2>4 DEF DiskFits, OnDisk
  <2> QED
    BY <2>2, <2>5
<1>5. CASE Len(disk_categories') # Len(categories_)
  <2>1. UNCHANGED <<mode, pc, req, own>>
    BY <1>5 DEF SaveWrite
  <2>2. MemoryFits'
    BY <1>1, <2>1, MemoryKeeps DEF Keeps, own
  <2>3. DiskFits'
    BY <1>1, <1>2, <1>3, <2>1 DEF DiskFits, OnDisk, Writing
  <2> QED
    BY <2>2, <2>3
<1> QED
  BY <1>4, <1>5

\* What a restart loads is what was saved.
LEMMA CrashMeaning ==
  ASSUME Control, MemoryFits, DiskFits, Crash, ~ torn'
  PROVE  MemoryFits' /\ DiskFits'
<1>1. \A t \in Clients : ~ Writing(t) /\ pc[t] # "save_write"
  BY DEF Crash, Saving, Writing
<1>2. /\ TypeInv /\ categories_ \in Seq(Categories) /\ disk_categories \in Seq(Categories)
      /\ NoDuplicates(categories_) /\ Begins(disk_categories, categories_)
  BY DEF Control, TypeInv, DiskFits
<1>3. disk_categories' = disk_categories
  <2>1. disk_categories' = disk_categories \o <<>>
    BY <1>1 DEF Crash
  <2> QED
    BY <1>2, <2>1
<1>4. categories_' = disk_categories
  <2>1. NoDuplicates(disk_categories)
    BY <1>2 DEF NoDuplicates, Begins
  <2>2. categories_' = append(<<>>, AsEncoding(disk_categories))
    BY <1>3 DEF Crash
  <2>3. AsEncoding(disk_categories).vector_ = disk_categories /\ <<>> \o disk_categories = disk_categories
    BY <1>2 DEF AsEncoding
  <2> QED
    BY <1>2, <2>1, <2>2, <2>3, EmptyGlobal, AppendAddsWhatIsNew
<1>5. /\ \A t \in Clients : pc'[t] = "idle"
      /\ \A n \in Names : ~ exists(n)'
      /\ UNCHANGED disk_frames
  BY DEF Crash, exists
<1>6. MemoryFits'
  BY <1>5 DEF MemoryFits, Halfway
<1>7. Begins(disk_categories, categories_)'
  BY <1>2, <1>3, <1>4 DEF Begins
<1>8. DiskFits'
  BY <1>1, <1>3, <1>4, <1>5, <1>7 DEF DiskFits, OnDisk
<1> QED
  BY <1>6, <1>8

\* No step changes what an id stands for.
LEMMA NextMeaning == Control /\ Meaning /\ [Next]_vars => Meaning'
<1> SUFFICES ASSUME Control, Meaning, [Next]_vars, ~ torn' PROVE MemoryFits' /\ DiskFits'
  BY DEF Meaning
<1>1. ~ torn
  <2>1. CASE Crash
    BY <2>1 DEF Crash
  <2>2. CASE UNCHANGED vars
    BY <2>2 DEF vars, counters
  <2>3. ASSUME NEW t \in Clients, NEW r \in Requests, Begin(t, r) PROVE ~ torn
    BY <2>3 DEF Begin
  <2>4. ASSUME NEW t \in Clients,
               \/ Build(t) \/ BuildFails(t) \/ Upgrade(t)
               \/ CommitEncodings(t) \/ CommitFrame(t)
               \/ GetContent(t) \/ Freeze(t) \/ Delete(t)
               \/ SaveRemove(t) \/ SaveRename(t) \/ SaveTruncate(t) \/ SaveWrite(t)
        PROVE  ~ torn
    BY <2>4 DEF Build, BuildFails, Upgrade, CommitEncodings, CommitFrame, GetContent, Freeze,
                Delete, SaveRemove, SaveRename, SaveTruncate, SaveWrite, counters
  <2> QED
    BY <2>1, <2>2, <2>3, <2>4 DEF Next
<1>2. MemoryFits /\ DiskFits
  BY <1>1 DEF Meaning
<1>3. ASSUME NEW t \in Clients, NEW r \in Requests, Begin(t, r) PROVE MemoryFits' /\ DiskFits'
  BY <1>2, <1>3, BeginMeaning
<1>4. ASSUME NEW t \in Clients, Build(t) PROVE MemoryFits' /\ DiskFits'
  BY <1>2, <1>4, BuildMeaning
<1>5. ASSUME NEW t \in Clients, BuildFails(t) \/ GetContent(t) PROVE MemoryFits' /\ DiskFits'
  <2>1. Done(t) /\ pc[t] # "last" /\ UNCHANGED memory /\ UNCHANGED disk /\ ~ Writing(t)
    BY <1>5 DEF BuildFails, GetContent, Writing
  <2> QED
    BY <1>2, <2>1, EndMeaning
<1>6. ASSUME NEW t \in Clients, Upgrade(t) PROVE MemoryFits' /\ DiskFits'
  BY <1>2, <1>6, UpgradeMeaning
<1>7. ASSUME NEW t \in Clients, CommitEncodings(t) PROVE MemoryFits' /\ DiskFits'
  BY <1>2, <1>7, CommitEncodingsMeaning
<1>8. ASSUME NEW t \in Clients, CommitFrame(t) PROVE MemoryFits' /\ DiskFits'
  BY <1>2, <1>8, CommitFrameMeaning
<1>9. ASSUME NEW t \in Clients, Freeze(t) PROVE MemoryFits' /\ DiskFits'
  BY <1>2, <1>9, FreezeMeaning
<1>10. ASSUME NEW t \in Clients, Delete(t) PROVE MemoryFits' /\ DiskFits'
  BY <1>2, <1>10, DeleteMeaning
<1>11. ASSUME NEW t \in Clients, SaveRemove(t) \/ SaveRename(t) \/ SaveTruncate(t) \/ SaveWrite(t)
      PROVE  MemoryFits' /\ DiskFits'
  BY <1>2, <1>11, SaveRemoveMeaning, SaveRenameMeaning, SaveTruncateMeaning, SaveWriteMeaning
<1>12. CASE Crash
  BY <1>2, <1>12, CrashMeaning
<1>13. CASE UNCHANGED vars
  <2>1. UNCHANGED <<categories_, data_frames_, pc, req, local_categories, df, disk_categories, disk_frames>>
    BY <1>13 DEF vars, memory, disk, own
  <2> QED
    BY <1>2, <2>1 DEF MemoryFits, DiskFits, Halfway, Known, Before, FrameFirst, exists, OnDisk, Writing
<1> QED
  BY <1>3, <1>4, <1>5, <1>6, <1>7, <1>8, <1>9, <1>10, <1>11, <1>12, <1>13 DEF Next

\* In every state each id stands for the string that was sent.
LEMMA AlwaysMeaning == Spec => [](Control /\ Meaning)
<1>1. Init => Control /\ Meaning
  BY InitControl, InitMeaning
<1>2. (Control /\ Meaning) /\ [Next]_vars => (Control /\ Meaning)'
  BY NextControl, NextMeaning
<1> QED
  BY <1>1, <1>2, PTL DEF Spec

-----------------------------------------------------------------------------
(* What readers and restarts see *)

\* An encoding that has no subencoding shows the strings the ids stand for.
LEMMA StandingIdsAreDecoded ==
  ASSUME NEW rows, NEW sent, Paired(rows, sent), NEW g \in Seq(Categories), Stands(rows, sent, g)
  PROVE  Decoded(AsEncoding(g), rows) = sent
<1>1. /\ DOMAIN rows = 1 .. Len(rows) /\ DOMAIN sent = DOMAIN rows
      /\ sent \in Seq(Strings \cup {NULL}) /\ rows \in Seq(Nat \cup {-1})
  BY DEF Paired
<1>2. ASSUME NEW i \in DOMAIN rows
      PROVE  int_to_string(AsEncoding(g), categories_, rows[i]) = sent[i]
  <2>1. IdStandsFor(rows[i], sent[i], g)
    BY DEF Stands
  <2>2. AsEncoding(g).subsize_ = 0 /\ AsEncoding(g).vector_ = g
    BY DEF AsEncoding
  <2>3. Len(g) \in Nat
    OBVIOUS
  <2>4. CASE rows[i] = -1 /\ sent[i] = NULL
    BY <2>4 DEF int_to_string
  <2>5. CASE rows[i] \in 0 .. Len(g) - 1 /\ g[rows[i] + 1] = sent[i]
    BY <2>2, <2>3, <2>5 DEF int_to_string, size
  <2> QED
    BY <2>1, <2>4, <2>5 DEF IdStandsFor
<1>3. Decoded(AsEncoding(g), rows) = [i \in DOMAIN sent |-> sent[i]]
  BY <1>1, <1>2 DEF Decoded
<1> QED
  BY <1>1, <1>3

\* Whoever holds the lock finds in every data frame what clients have put
\* there: with any number of threads, names, strings and crashes.
THEOREM ReadersSeeTheStrings == Spec => []ReadersSeeWhatWasSent
<1>1. Control /\ Meaning => ReadersSeeWhatWasSent
  <2> SUFFICES ASSUME Control, Meaning, ~ torn, \A t \in Clients : mode[t] # "write",
                      NEW n \in Names, exists(n)
               PROVE  Decoded(AsEncoding(categories_), data_frames_[n].rows) = data_frames_[n].sent
    BY DEF ReadersSeeWhatWasSent
  <2>1. ASSUME NEW t \in Clients PROVE ~ Halfway(t)
    <3>1. pc[t] # "last"
      BY DEF Control, PlaceOf, TypeInv, Lock!Modes, Saving
    <3> QED
      BY <3>1 DEF Halfway
  <2>2. Fits(data_frames_[n], categories_, categories_)
    BY <2>1 DEF Meaning, MemoryFits
  <2>3. Matched(data_frames_[n]) /\ categories_ \in Seq(Categories)
    BY HeldFrameMatches DEF Control, TypeInv
  <2> QED
    BY <2>2, <2>3, StandingIdsAreDecoded DEF Fits, Matched
<1> QED
  BY <1>1, AlwaysMeaning, PTL

\* An encoding that fits shows nothing else than what was sent.
LEMMA FittingEncodingShowsNoOther ==
  ASSUME NEW f, Matched(f), f.encoding # GLOBAL, categories_ \in Seq(Categories),
         NEW g \in Seq(Categories), Begins(categories_, g), Fits(f, categories_, g),
         NEW i \in DOMAIN f.rows
  PROVE  int_to_string(f.encoding, categories_, f.rows[i]) \in {f.sent[i], NULL}
<1> DEFINE e == f.encoding
           id == f.rows[i]
<1>1. e \in [subsize_ : Nat, vector_ : Seq(Categories)]
  BY DEF Matched, Frames, LocalEncodings, Categories
<1>2. /\ e.subsize_ \in Nat /\ Len(e.vector_) \in Nat /\ e.subsize_ <= Len(categories_)
      /\ \A k \in 1 .. Len(e.vector_) : g[e.subsize_ + k] = e.vector_[k]
  BY <1>1 DEF Fits, EncodingFits
<1>3. IdStandsFor(id, f.sent[i], g)
  BY DEF Fits, Stands
<1> HIDE DEF e, id
<1>4. CASE id = -1 /\ f.sent[i] = NULL
  BY <1>4 DEF int_to_string, e, id
<1>5. CASE id \in 0 .. Len(g) - 1 /\ g[id + 1] = f.sent[i]
  <2>1. CASE id >= size(e)
    BY <2>1 DEF int_to_string, e, id
  <2>2. CASE id < size(e) /\ id < e.subsize_
    <3>1. g[id + 1] = categories_[id + 1]
      <4>1. id + 1 \in 1 .. Len(categories_)
        BY <1>2, <1>5, <2>2
      <4> QED
        BY <4>1 DEF Begins
    <3>2. int_to_string(e, categories_, id) = categories_[id + 1]
      BY <1>2, <1>5, <2>2 DEF int_to_string, size
    <3>3. int_to_string(e, categories_, id) = f.sent[i]
      BY <1>5, <3>1, <3>2
    <3> QED
      BY <3>3, Zenon DEF e, id
  <2>3. CASE id < size(e) /\ id >= e.subsize_
    <3>1. id - e.subsize_ + 1 \in 1 .. Len(e.vector_) /\ e.subsize_ + (id - e.subsize_ + 1) = id + 1
      BY <1>2, <1>5, <2>3 DEF size
    <3>2. g[id + 1] = e.vector_[id - e.subsize_ + 1]
      BY <1>2, <3>1
    <3>3. int_to_string(e, categories_, id) = e.vector_[id - e.subsize_ + 1]
      BY <1>2, <1>5, <2>3 DEF int_to_string, size
    <3> QED
      BY <1>5, <3>2, <3>3 DEF e, id
  <2> QED
    BY <1>2, <1>5, <2>1, <2>2, <2>3 DEF size
<1> QED
  BY <1>3, <1>4, <1>5 DEF IdStandsFor

\* An encoding that a frame has kept from a request may not know an id, but it
\* never shows another string than the one that was sent, also while a thread
\* is between the two halves of a commit.
THEOREM NoFrameShowsAnotherString == Spec => []NeverAnotherString
<1>1. Control /\ Meaning => NeverAnotherString
  <2> SUFFICES ASSUME Control, Meaning, ~ torn, NEW n \in Names, exists(n),
                      data_frames_[n].encoding # GLOBAL, NEW i \in DOMAIN data_frames_[n].rows
               PROVE  int_to_string(data_frames_[n].encoding, categories_, data_frames_[n].rows[i])
                        \in {data_frames_[n].sent[i], NULL}
    BY DEF NeverAnotherString, Decoded
  <2>1. Matched(data_frames_[n])
    BY HeldFrameMatches DEF Control
  <2>2. CASE \A t \in Clients : Halfway(t) => req[t].name # n
    <3>1. Fits(data_frames_[n], categories_, categories_)
      BY <2>2 DEF Meaning, MemoryFits
    <3> QED
      BY <2>1, <3>1, SameCategories, FittingEncodingShowsNoOther
  <2>3. ASSUME NEW t \in Clients, Halfway(t), req[t].name = n
        PROVE  int_to_string(data_frames_[n].encoding, categories_, data_frames_[n].rows[i])
                 \in {data_frames_[n].sent[i], NULL}
    <3>1. Fits(data_frames_[n], categories_, Known(t))
      BY <2>3 DEF Meaning, MemoryFits
    <3> QED
      BY <2>1, <3>1, SameCategories, KnownIsLonger, FittingEncodingShowsNoOther
  <2> QED
    BY <2>2, <2>3
<1> QED
  BY <1>1, AlwaysMeaning, PTL

\* Every saved data frame can be decoded by the saved encoding, through any
\* number of saves, deletions and restarts.
THEOREM SavesAreReadable == Spec => []SavedFramesAreReadable
<1>1. Control /\ Meaning => SavedFramesAreReadable
  <2> SUFFICES ASSUME Control, Meaning, ~ torn, \A t \in Clients : ~ Saving(t),
                      NEW n \in Names, disk_frames[n] # NoFrame
               PROVE  Decoded(AsEncoding(disk_categories), disk_frames[n].rows) = disk_frames[n].sent
    BY DEF SavedFramesAreReadable
  <2>1. \A t \in Clients : ~ Writing(t)
    BY DEF Writing, Saving
  <2>2. Stands(disk_frames[n].rows, disk_frames[n].sent, disk_categories)
    BY <2>1 DEF Meaning, DiskFits, OnDisk
  <2>3. Paired(disk_frames[n].rows, disk_frames[n].sent) /\ disk_categories \in Seq(Categories)
    BY DEF Control, TypeInv, IsFrame, Frames, Paired
  <2> QED
    BY <2>2, <2>3, StandingIdsAreDecoded
<1> QED
  BY <1>1, AlwaysMeaning, PTL
=============================================================================
