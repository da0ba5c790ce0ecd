--------------------------- MODULE RecursionTheorems ---------------------------
(***************************************************************************)
(* Induction and recursion over the natural numbers, without operators as  *)
(* parameters: a property is the set of the numbers that have it, and a    *)
(* recursive definition repeats a function `step' of the position and of   *)
(* the value so far.  The models' loops over the elements of a sequence    *)
(* are recursive functions of this form.                                   *)
(*                                                                         *)
(* And about sequences that are joined of others: where their parts are,   *)
(* and what they have.                                                     *)
(***************************************************************************)
EXTENDS Integers, Sequences, SequencesExt, SequenceTheorems, WellFoundedInduction, TLAPS

\* A set of numbers that holds 0 and is closed under successor has them all.
THEOREM SetInduction ==
  ASSUME NEW T, T \subseteq Nat, 0 \in T, \A n \in T : n + 1 \in T
  PROVE  T = Nat
<1> DEFINE Missing == Nat \ T
<1>1. SUFFICES ASSUME Missing # {} PROVE FALSE
  OBVIOUS
<1>2. PICK m \in Missing : \A k \in Missing : ~ (<<k, m>> \in OpToRel(<, Nat))
  <2>1. Missing \subseteq Nat
    OBVIOUS
  <2> QED
    BY <1>1, <2>1, WFMin, NatLessThanWellFounded
<1>3. m \in Nat /\ m # 0
  OBVIOUS
<1>4. m - 1 \in Missing
  BY <1>3
<1>5. <<m - 1, m>> \in OpToRel(<, Nat)
  BY <1>3 DEF OpToRel
<1> QED
  BY <1>2, <1>4, <1>5

\* The same up to a bound.
THEOREM BoundedInduction ==
  ASSUME NEW N \in Nat, NEW T, 0 \in T,
         \A n \in 0 .. N - 1 : n \in T => n + 1 \in T
  PROVE  0 .. N \subseteq T
<1> DEFINE U == {n \in Nat : n <= N => n \in T}
<1>1. 0 \in U
  OBVIOUS
<1>2. \A n \in U : n + 1 \in U
  OBVIOUS
<1>3. U = Nat
  BY <1>1, <1>2, SetInduction
<1> QED
  BY <1>3

\* f starts with init and repeats step N times.
Repeats(f, N, S, init, step) ==
  /\ f \in [0 .. N -> S]
  /\ f[0] = init
  /\ \A n \in 1 .. N : f[n] = step[n][f[n - 1]]

\* There is such a function: what makes the CHOOSE of a recursive function
\* definition choose something.
THEOREM RecursiveFunctionExists ==
  ASSUME NEW N \in Nat, NEW S, NEW init \in S, NEW step \in [1 .. N -> [S -> S]]
  PROVE  \E f : Repeats(f, N, S, init, step)
<1> DEFINE Upto(n, g) == /\ g \in [0 .. n -> S]
                         /\ g[0] = init
                         /\ \A i \in 1 .. n : g[i] = step[i][g[i - 1]]
           T == {n \in 0 .. N : \E g : Upto(n, g)}
<1>1. 0 \in T
  <2>1. Upto(0, [i \in 0 .. 0 |-> init])
    OBVIOUS
  <2> HIDE DEF Upto
  <2> QED
    BY <2>1
<1>2. ASSUME NEW n \in 0 .. N - 1, n \in T PROVE n + 1 \in T
  <2>1. PICK g : Upto(n, g)
    BY <1>2
  <2> DEFINE h == [i \in 0 .. n + 1 |-> IF i = n + 1 THEN step[n + 1][g[n]] ELSE g[i]]
  <2>2. step[n + 1] \in [S -> S] /\ g[n] \in S
    BY <2>1
  <2>3. h \in [0 .. n + 1 -> S]
    BY <2>1, <2>2
  <2>4. h[0] = init
    BY <2>1
  <2>5. ASSUME NEW i \in 1 .. n + 1 PROVE h[i] = step[i][h[i - 1]]
    <3>1. h[i - 1] = g[i - 1]
      OBVIOUS
    <3>2. CASE i = n + 1
      BY <3>1, <3>2
    <3>3. CASE i # n + 1
      BY <2>1, <3>1, <3>3
    <3> QED
      BY <3>2, <3>3
  <2>6. Upto(n + 1, h)
    BY <2>3, <2>4, <2>5
  <2> HIDE DEF Upto
  <2> QED
    BY <2>6
<1>3. N \in T
  <2> HIDE DEF T
  <2>1. 0 .. N \subseteq T
    BY <1>1, <1>2, BoundedInduction
  <2> QED
    BY <2>1
<1> QED
  BY <1>3 DEF Repeats

\* A function that stops with a result or goes on with a smaller argument.
Ends(D, S, measure, stop, result, next) ==
  /\ measure \in [D -> Nat] /\ stop \in [D -> BOOLEAN]
  /\ result \in [D -> S] /\ next \in [D -> D]
  /\ \A x \in D : ~ stop[x] => measure[next[x]] < measure[x]

Loops(f, D, S, stop, result, next) ==
  /\ f \in [D -> S]
  /\ \A x \in D : f[x] = IF stop[x] THEN result[x] ELSE f[next[x]]

\* A loop that stops with a result or goes on with a smaller argument, written as a
\* recursive function, is defined for every argument.
THEOREM TailRecursionExists ==
  ASSUME NEW D, NEW S, NEW measure, NEW stop, NEW result, NEW next,
         Ends(D, S, measure, stop, result, next)
  PROVE  \E f : Loops(f, D, S, stop, result, next)
<1> USE DEF Ends
<1> DEFINE Upto(n, g) == /\ g \in [D -> S]
                         /\ \A x \in D : measure[x] < n =>
                              g[x] = IF stop[x] THEN result[x] ELSE g[next[x]]
           Unique == {n \in Nat : \A g, h : Upto(n, g) /\ Upto(n, h) =>
                                    \A x \in D : measure[x] < n => g[x] = h[x]}
           There  == {n \in Nat : \E g : Upto(n, g)}
<1>1. Unique = Nat
  <2>1. 0 \in Unique
    OBVIOUS
  <2>2. ASSUME NEW n \in Unique PROVE n + 1 \in Unique
    <3>1. n \in Nat /\ n + 1 \in Nat
      OBVIOUS
    <3>2. ASSUME NEW g, NEW h, Upto(n + 1, g), Upto(n + 1, h), NEW x \in D, measure[x] < n + 1
          PROVE  g[x] = h[x]
      <4>1. Upto(n, g) /\ Upto(n, h)
        BY <3>1, <3>2
      <4>2. CASE stop[x]
        BY <3>2, <4>2
      <4>3. CASE ~ stop[x]
        <5>1. next[x] \in D /\ measure[next[x]] < n
          BY <3>1, <3>2, <4>3
        <5>2. g[next[x]] = h[next[x]]
          BY <4>1, <5>1
        <5> QED
          BY <3>2, <4>3, <5>2
      <4> QED
        BY <4>2, <4>3
    <3> HIDE DEF Upto
    <3> QED
      BY <3>1, <3>2
  <2> HIDE DEF Unique
  <2> QED
    BY <2>1, <2>2, SetInduction DEF Unique
<1>2. There = Nat
  <2>1. 0 \in There
    <3>1. Upto(0, result)
      OBVIOUS
    <3> QED
      BY <3>1
  <2>2. ASSUME NEW n \in There PROVE n + 1 \in There
    <3>1. PICK g : Upto(n, g)
      OBVIOUS
    <3>2. n \in Nat /\ n + 1 \in Nat
      OBVIOUS
    <3> DEFINE h == [x \in D |-> IF stop[x] THEN result[x] ELSE g[next[x]]]
    <3>3. h \in [D -> S]
      BY <3>1
    <3>4. ASSUME NEW x \in D, measure[x] < n + 1, ~ stop[x] PROVE h[x] = h[next[x]]
      <4>1. next[x] \in D /\ measure[next[x]] < n
        BY <3>2, <3>4
      <4>2. g[next[x]] = h[next[x]]
        BY <3>1, <4>1
      <4> QED
        BY <3>4, <4>2
    <3>5. Upto(n + 1, h)
      <4>1. ASSUME NEW x \in D, stop[x] PROVE h[x] = result[x]
        BY <4>1
      <4> HIDE DEF h
      <4> QED
        BY <3>3, <3>4, <4>1
    <3> HIDE DEF h, Upto
    <3> QED
      BY <3>2, <3>5
  <2> HIDE DEF There
  <2> QED
    BY <2>1, <2>2, SetInduction DEF There
<1> DEFINE G(n) == CHOOSE g : Upto(n, g)
           f == [x \in D |-> G(measure[x] + 1)[x]]
<1>3. ASSUME NEW n \in Nat PROVE Upto(n, G(n))
  <2> HIDE DEF Upto
  <2> QED
    BY <1>2
<1> HIDE DEF G
<1>4. f \in [D -> S]
  BY <1>3
<1>5. ASSUME NEW x \in D PROVE f[x] = IF stop[x] THEN result[x] ELSE f[next[x]]
  <2> DEFINE n == measure[x] + 1
             m == measure[next[x]] + 1
  <2>1. n \in Nat /\ m \in Nat /\ next[x] \in D
    OBVIOUS
  <2>2. Upto(n, G(n)) /\ Upto(m, G(m))
    BY <1>3, <2>1
  <2>3. G(n)[x] = IF stop[x] THEN result[x] ELSE G(n)[next[x]]
    BY <2>2
  <2>4. CASE ~ stop[x]
    <3>1. m < n
      BY <2>4
    <3>2. Upto(m, G(n))
      BY <2>1, <2>2, <3>1
    <3>3. m \in Unique
      BY <1>1, <2>1
    <3>4. measure[next[x]] < m
      BY <2>1
    <3>5. G(n)[next[x]] = G(m)[next[x]]
      <4> HIDE DEF Upto, m, n
      <4> QED
        BY <2>1, <2>2, <3>2, <3>3, <3>4
    <3> QED
      BY <2>1, <2>3, <2>4, <3>5
  <2> QED
    BY <2>3, <2>4
<1> QED
  BY <1>4, <1>5 DEF Loops

\* Every set of numbers with a member has a least one.
THEOREM LeastNumber ==
  ASSUME NEW T, T \subseteq Nat, T # {}
  PROVE  \E m \in T : \A k \in T : m <= k
<1>1. PICK m \in T : \A k \in T : ~ (<<k, m>> \in OpToRel(<, Nat))
  BY WFMin, NatLessThanWellFounded
<1>2. ASSUME NEW k \in T PROVE m <= k
  <2>1. k < m => <<k, m>> \in OpToRel(<, Nat)
    BY DEF OpToRel
  <2>2. ~ (k < m)
    BY <1>1, <2>1, Zenon
  <2> QED
    BY <2>2
<1> QED
  BY <1>2

-----------------------------------------------------------------------------
(* Sequences that are joined from others *)

\* FlattenSeq joins its elements from the first to the last.
LEMMA Flattens ==
  ASSUME NEW S, NEW seqs \in Seq(Seq(S))
  PROVE  \E F \in [0 .. Len(seqs) -> Seq(S)] :
           /\ F[0] = <<>> /\ FlattenSeq(seqs) = F[Len(seqs)]
           /\ \A i \in 1 .. Len(seqs) : F[i] = F[i - 1] \o seqs[i]
<1> DEFINE n == Len(seqs)
           step == [i \in 1 .. n |-> [s \in Seq(S) |-> s \o seqs[i]]]
<1>1. n \in Nat /\ \A i \in 1 .. n : seqs[i] \in Seq(S)
  OBVIOUS
<1>2. \A s, u \in Seq(S) : s \o u \in Seq(S)
  OBVIOUS
<1>3. step \in [1 .. n -> [Seq(S) -> Seq(S)]]
  BY <1>1, <1>2
<1>4. PICK F : Repeats(F, n, Seq(S), <<>>, step)
  <2>1. <<>> \in Seq(S)
    OBVIOUS
  <2> HIDE DEF n, step
  <2> QED
    BY <1>1, <1>3, <2>1, RecursiveFunctionExists
<1>5. F \in [0 .. n -> Seq(S)] /\ F[0] = <<>>
  BY <1>4 DEF Repeats
<1>6. ASSUME NEW i \in 1 .. n PROVE F[i] = F[i - 1] \o seqs[i]
  <2>1. F[i] = step[i][F[i - 1]]
    BY <1>4 DEF Repeats
  <2>2. i - 1 \in 0 .. n
    BY <1>1
  <2>3. F[i - 1] \in Seq(S)
    <3> HIDE DEF n
    <3> QED
      BY <1>5, <2>2
  <2> QED
    BY <2>1, <2>3
<1>7. CASE n = 0
  <2>1. seqs = <<>>
    BY <1>7
  <2> QED
    BY <1>5, <1>6, <1>7, <2>1 DEF FlattenSeq
<1>8. CASE n # 0
  <2> DEFINE G(f) == [i \in 1 .. n |-> IF i = 1 THEN seqs[i] ELSE f[i - 1] \o seqs[i]]
             g == [i \in 1 .. n |-> F[i]]
             flatten == CHOOSE f : f = G(f)
  <2>1. g = G(g)
    <3>1. ASSUME NEW i \in 1 .. n
          PROVE  g[i] = IF i = 1 THEN seqs[i] ELSE g[i - 1] \o seqs[i]
      <4>1. CASE i = 1
        <5>1. F[1] = <<>> \o seqs[1] /\ seqs[1] \in Seq(S)
          <6>1. 1 \in 1 .. n /\ 1 - 1 = 0
            BY <4>1
          <6>2. F[1] = F[1 - 1] \o seqs[1]
            BY <1>6, <6>1
          <6> QED
            BY <1>1, <1>5, <6>1, <6>2
        <5>2. F[1] = seqs[1]
          BY <5>1, ConcatEmptySeq
        <5> QED
          BY <4>1, <5>2
      <4>2. CASE i # 1
        <5>1. g[i - 1] = F[i - 1]
          BY <1>1, <4>2
        <5> QED
          BY <1>6, <4>2, <5>1
      <4> QED
        BY <4>1, <4>2
    <3> HIDE DEF n
    <3> QED
      BY <3>1
  <2>2. flatten = G(flatten)
    <3> HIDE DEF G, g
    <3> QED
      BY <2>1
  <2>3. FlattenSeq(seqs) = flatten[n]
    BY <1>8 DEF FlattenSeq
  <2>4. 0 .. n - 1 \subseteq {k \in 0 .. n - 1 : flatten[k + 1] = F[k + 1]}
    <3> DEFINE T == {k \in 0 .. n - 1 : flatten[k + 1] = F[k + 1]}
    <3> HIDE DEF n
    <3>0. \A i \in 1 .. n : flatten[i] = IF i = 1 THEN seqs[i] ELSE flatten[i - 1] \o seqs[i]
      <4> HIDE DEF flatten
      <4> QED
        BY <2>2
    <3>1. 0 \in T
      <4>1. 1 \in 1 .. n /\ 0 \in 0 .. n - 1
        BY <1>1, <1>8
      <4>2. flatten[1] = seqs[1] /\ g[1] = seqs[1] /\ g[1] = F[1]
        BY <2>1, <3>0, <4>1
      <4> HIDE DEF flatten, g
      <4> QED
        BY <4>1, <4>2
    <3>2. ASSUME NEW k \in 0 .. (n - 1) - 1, k \in T PROVE k + 1 \in T
      <4>1. k + 2 \in 1 .. n /\ k + 2 # 1 /\ (k + 2) - 1 = k + 1 /\ k + 1 \in 0 .. n - 1
            /\ (k + 1) + 1 = k + 2
        BY <1>1, <1>8
      <4>2. flatten[k + 2] = flatten[k + 1] \o seqs[k + 2]
        BY <3>0, <4>1
      <4>3. F[k + 2] = F[k + 1] \o seqs[k + 2]
        BY <1>6, <4>1
      <4>4. flatten[k + 1] = F[k + 1]
        BY <3>2
      <4> HIDE DEF flatten
      <4> QED
        BY <4>1, <4>2, <4>3, <4>4
    <3> HIDE DEF T
    <3>3. n - 1 \in Nat
      BY <1>1, <1>8
    <3> QED
      BY <3>1, <3>2, <3>3, BoundedInduction DEF T
  <2>5. flatten[n] = F[n]
    <3> HIDE DEF flatten, n
    <3>1. n - 1 \in 0 .. n - 1 /\ (n - 1) + 1 = n
      BY <1>1, <1>8
    <3> QED
      BY <2>4, <3>1
  <2> HIDE DEF flatten, n
  <2> QED
    BY <1>5, <1>6, <2>3, <2>5 DEF n
<1> QED
  BY <1>7, <1>8

\* Numbers none of which is less than the one before are at most the last one.
LEMMA CutsGrow ==
  ASSUME NEW n \in Nat, NEW b \in [0 .. n -> Nat], \A k \in 1 .. n : b[k - 1] <= b[k]
  PROVE  \A k \in 0 .. n : b[k] <= b[n]
<1> DEFINE T == {j \in 0 .. n : b[n - j] <= b[n]}
<1>1. 0 \in T
  OBVIOUS
<1>2. ASSUME NEW j \in 0 .. n - 1, j \in T PROVE j + 1 \in T
  <2>1. n - j \in 1 .. n /\ (n - j) - 1 = n - (j + 1) /\ n - (j + 1) \in 0 .. n /\ n - j \in 0 .. n
    OBVIOUS
  <2>2. b[n - (j + 1)] <= b[n - j] /\ b[n - j] <= b[n]
    BY <1>2, <2>1
  <2>3. b[n - (j + 1)] \in Nat /\ b[n - j] \in Nat /\ b[n] \in Nat
    BY <2>1
  <2> QED
    BY <2>2, <2>3
<1>3. 0 .. n \subseteq T
  <2> HIDE DEF T
  <2> QED
    BY <1>1, <1>2, BoundedInduction
<1>4. ASSUME NEW k \in 0 .. n PROVE b[k] <= b[n]
  <2>1. n - k \in 0 .. n /\ n - (n - k) = k
    OBVIOUS
  <2>2. n - k \in T
    <3> HIDE DEF T
    <3> QED
      BY <1>3, <2>1
  <2> QED
    BY <2>1, <2>2
<1> QED
  BY <1>4

\* The boundaries b of the elements of seqs in what they are joined to.
Joins(seqs, n, b) ==
  /\ b \in [0 .. n -> Nat] /\ b[0] = 0
  /\ \A k \in 1 .. n : b[k] = b[k - 1] + Len(seqs[k])

IsJoined(whole, seqs, n, b) ==
  /\ Len(whole) = b[n]
  /\ \A m \in 1 .. b[n] : \E k \in 1 .. n : \E i \in 1 .. Len(seqs[k]) :
       m = b[k - 1] + i /\ whole[m] = seqs[k][i]

\* A joined sequence is as long as the last boundary, and every element of it is
\* one of a part.
LEMMA JoinedAt ==
  ASSUME NEW S, NEW n \in Nat, NEW seqs \in Seq(Seq(S)), Len(seqs) = n,
         NEW b, Joins(seqs, n, b)
  PROVE  FlattenSeq(seqs) \in Seq(S) /\ IsJoined(FlattenSeq(seqs), seqs, n, b)
<1>1. PICK F \in [0 .. n -> Seq(S)] :
        /\ F[0] = <<>> /\ FlattenSeq(seqs) = F[n]
        /\ \A i \in 1 .. n : F[i] = F[i - 1] \o seqs[i]
  BY Flattens
<1> DEFINE Placed(j, m) == \E k \in 1 .. n : \E i \in 1 .. Len(seqs[k]) :
                             m = b[k - 1] + i /\ F[j][m] = seqs[k][i]
           Good(j) == Len(F[j]) = b[j] /\ \A m \in 1 .. b[j] : Placed(j, m)
           T == {j \in 0 .. n : Good(j)}
<1>2. 0 \in T
  BY <1>1 DEF Joins
<1>3. ASSUME NEW j \in 0 .. n - 1, j \in T PROVE j + 1 \in T
  <2>1. j + 1 \in 1 .. n /\ (j + 1) - 1 = j /\ j + 1 \in 0 .. n /\ j \in 0 .. n
    OBVIOUS
  <2>4. Good(j)
    BY <1>3
  <2>7. \A m \in 1 .. b[j] : Placed(j, m)
    BY <2>4
  <2>8. Len(F[j]) = b[j]
    BY <2>4
  <2> HIDE DEF T, Good
  <2>0. seqs[j + 1] \in Seq(S) /\ F[j] \in Seq(S)
    <3>1. seqs[j + 1] \in Seq(S)
      BY <2>1
    <3>2. F[j] \in Seq(S)
      BY <1>1, <2>1
    <3> QED
      BY <3>1, <3>2
  <2>2. F[j + 1] = F[j] \o seqs[j + 1]
    <3>1. F[j + 1] = F[(j + 1) - 1] \o seqs[j + 1]
      BY <1>1, <2>1
    <3> QED
      BY <2>1, <3>1
  <2>3. b[j + 1] = b[j] + Len(seqs[j + 1]) /\ b[j] \in Nat /\ b[j + 1] \in Nat
    BY <2>1 DEF Joins
  <2> DEFINE s == F[j]
             u == seqs[j + 1]
             whole == F[j + 1]
  <2>9. s \in Seq(S) /\ u \in Seq(S) /\ whole = s \o u /\ Len(s) = b[j]
    BY <2>0, <2>2, <2>8
  <2>10. /\ Len(whole) = b[j + 1]
         /\ \A m \in 1 .. b[j] : whole[m] = s[m]
         /\ \A i \in 1 .. Len(u) : whole[b[j] + i] = u[i]
    <3> HIDE DEF s, u
    <3>1. /\ Len(whole) = Len(s) + Len(u) /\ Len(s) \in Nat /\ Len(u) \in Nat
          /\ \A m \in 1 .. Len(s) + Len(u) : whole[m] = IF m <= Len(s) THEN s[m] ELSE u[m - Len(s)]
      <4> HIDE DEF whole
      <4>1. /\ Len(s \o u) = Len(s) + Len(u) /\ Len(s) \in Nat /\ Len(u) \in Nat
            /\ \A m \in 1 .. Len(s) + Len(u) :
                 (s \o u)[m] = IF m <= Len(s) THEN s[m] ELSE u[m - Len(s)]
        BY <2>9, ConcatProperties, LenProperties
      <4> QED
        BY <2>9, <4>1
    <3> HIDE DEF whole
    <3>2. \A i \in 1 .. Len(u) : b[j] + i \in 1 .. Len(s) + Len(u) /\ ~ (b[j] + i <= Len(s))
                                 /\ (b[j] + i) - Len(s) = i
      <4> DEFINE p == Len(s)
                 q == Len(u)
      <4>1. p = b[j] /\ p \in Nat /\ q \in Nat
        BY <2>9, <3>1
      <4> HIDE DEF p, q
      <4>2. \A i \in 1 .. q : p + i \in 1 .. p + q /\ ~ (p + i <= p) /\ (p + i) - p = i
        BY <4>1
      <4> QED
        BY <4>1, <4>2 DEF p, q
    <3>3. \A m \in 1 .. b[j] : m \in 1 .. Len(s) + Len(u) /\ m <= Len(s)
      BY <2>9, <3>1
    <3>4. Len(whole) = b[j + 1]
      <4>1. b[j + 1] = b[j] + Len(u)
        BY <2>3 DEF u
      <4> QED
        BY <2>9, <3>1, <4>1
    <3> QED
      BY <3>1, <3>2, <3>3, <3>4
  <2>6. ASSUME NEW m \in 1 .. b[j + 1] PROVE Placed(j + 1, m)
    <3>1. CASE m <= b[j]
      <4>1. m \in 1 .. b[j]
        BY <2>3, <3>1
      <4>2. F[j + 1][m] = F[j][m]
        BY <2>10, <4>1
      <4>3. PICK k \in 1 .. n : \E i \in 1 .. Len(seqs[k]) : m = b[k - 1] + i /\ F[j][m] = seqs[k][i]
        BY <2>7, <4>1
      <4> QED
        BY <4>2, <4>3
    <3>2. CASE m > b[j]
      <4> DEFINE i == m - b[j]
      <4>1. i \in 1 .. Len(u) /\ m = b[j] + i
        <5>1. b[j + 1] = b[j] + Len(u) /\ Len(u) \in Nat
          BY <2>3, <2>9
        <5> QED
          BY <2>3, <3>2, <5>1
      <4>2. F[j + 1][b[j] + i] = u[i]
        BY <2>10, <4>1
      <4>3. i \in 1 .. Len(seqs[j + 1]) /\ m = b[(j + 1) - 1] + i /\ F[j + 1][m] = seqs[j + 1][i]
        BY <2>1, <4>1, <4>2
      <4> HIDE DEF i
      <4> QED
        BY <2>1, <4>3
    <3> QED
      BY <2>3, <3>1, <3>2
  <2>11. Good(j + 1)
    BY <2>6, <2>10 DEF Good
  <2> QED
    BY <2>1, <2>11 DEF T
<1>4. n \in T
  <2> HIDE DEF T
  <2>1. 0 .. n \subseteq T
    BY <1>2, <1>3, BoundedInduction
  <2> QED
    BY <2>1
<1>5. Good(n)
  BY <1>4
<1>6. IsJoined(F[n], seqs, n, b)
  BY <1>5 DEF IsJoined
<1> QED
  BY <1>1, <1>6

\* What a sequence of sequences is joined to has the elements of all of them.
LEMMA JoinedHasAll ==
  ASSUME NEW S, NEW n \in Nat, NEW seqs \in Seq(Seq(S)), Len(seqs) = n
  PROVE  /\ FlattenSeq(seqs) \in Seq(S)
         /\ Range(FlattenSeq(seqs)) = UNION {Range(seqs[k]) : k \in 1 .. n}
<1>1. PICK F \in [0 .. n -> Seq(S)] :
        /\ F[0] = <<>> /\ FlattenSeq(seqs) = F[n]
        /\ \A i \in 1 .. n : F[i] = F[i - 1] \o seqs[i]
  BY Flattens
<1> DEFINE Good(j) == Range(F[j]) = UNION {Range(seqs[k]) : k \in 1 .. j}
           T == {j \in 0 .. n : Good(j)}
<1>2. 0 \in T
  <2>1. Range(<<>>) = {}
    BY DEF Range
  <2>2. 1 .. 0 = {}
    OBVIOUS
  <2> QED
    BY <1>1, <2>1, <2>2
<1>3. ASSUME NEW j \in 0 .. n - 1, j \in T PROVE j + 1 \in T
  <2>1. j + 1 \in 1 .. n /\ (j + 1) - 1 = j /\ j + 1 \in 0 .. n /\ j \in 0 .. n
    OBVIOUS
  <2>2. F[j] \in Seq(S) /\ seqs[j + 1] \in Seq(S)
    BY <2>1
  <2>3. F[j + 1] = F[j] \o seqs[j + 1]
    BY <1>1, <2>1
  <2> DEFINE s == F[j]
             u == seqs[j + 1]
  <2>4. Range(s \o u) = Range(s) \cup Range(u)
    <3>0. s \in Seq(S) /\ u \in Seq(S)
      BY <2>2
    <3> HIDE DEF s, u
    <3>1. /\ Len(s \o u) = Len(s) + Len(u) /\ Len(s) \in Nat /\ Len(u) \in Nat
          /\ s \o u \in Seq(S)
          /\ \A m \in 1 .. Len(s) + Len(u) :
               (s \o u)[m] = IF m <= Len(s) THEN s[m] ELSE u[m - Len(s)]
      BY <3>0, ConcatProperties, LenProperties
    <3> DEFINE w == s \o u
               p == Len(s)
               q == Len(u)
    <3>2. /\ DOMAIN w = 1 .. p + q /\ DOMAIN s = 1 .. p /\ DOMAIN u = 1 .. q
      BY <3>0, <3>1
    <3>3. \A m \in 1 .. p + q : w[m] = IF m <= p THEN s[m] ELSE u[m - p]
      BY <3>1
    <3>4. p \in Nat /\ q \in Nat
      BY <3>1
    <3> HIDE DEF w, p, q
    <3>5. ASSUME NEW m \in 1 .. p + q PROVE w[m] \in Range(s) \cup Range(u)
      <4>1. CASE m <= p
        <5>0. w[m] = IF m <= p THEN s[m] ELSE u[m - p]
          BY <3>3
        <5>1. m \in 1 .. p /\ w[m] = s[m]
          BY <3>4, <4>1, <5>0
        <5> QED
          BY <3>2, <5>1 DEF Range
      <4>2. CASE ~ (m <= p)
        <5>1. m - p \in 1 .. q /\ w[m] = u[m - p]
          BY <3>3, <3>4, <4>2
        <5> QED
          BY <3>2, <5>1 DEF Range
      <4> QED
        BY <4>1, <4>2
    <3>6. ASSUME NEW m \in 1 .. p PROVE s[m] \in Range(w)
      <4>1. m \in 1 .. p + q /\ w[m] = s[m]
        BY <3>3, <3>4
      <4> QED
        BY <3>2, <4>1 DEF Range
    <3>7. ASSUME NEW m \in 1 .. q PROVE u[m] \in Range(w)
      <4>0. p + m \in 1 .. p + q /\ ~ (p + m <= p) /\ (p + m) - p = m
        BY <3>4
      <4>1. w[p + m] = u[m]
        BY <3>3, <4>0
      <4> QED
        BY <3>2, <4>0, <4>1 DEF Range
    <3> QED
      BY <3>2, <3>5, <3>6, <3>7 DEF Range, w
  <2>5. \A k : k \in 1 .. (j + 1) <=> k \in 1 .. j \/ k = j + 1
    BY ONLY j \in 0 .. n - 1, n \in Nat
  <2> DEFINE has(k) == Range(seqs[k])
  <2>6. Range(F[j]) = UNION {has(k) : k \in 1 .. j}
    BY <1>3
  <2>7. Range(F[j + 1]) = Range(F[j]) \cup has(j + 1)
    BY <2>3, <2>4
  <2> HIDE DEF has
  <2>8. UNION {has(k) : k \in 1 .. (j + 1)} = (UNION {has(k) : k \in 1 .. j}) \cup has(j + 1)
    BY <2>5
  <2>9. Range(F[j + 1]) = UNION {has(k) : k \in 1 .. (j + 1)}
    BY <2>6, <2>7, <2>8
  <2>10. Good(j + 1)
    BY <2>9 DEF has
  <2> QED
    BY <2>1, <2>10
<1>4. n \in T
  <2> HIDE DEF T
  <2>1. 0 .. n \subseteq T
    BY <1>2, <1>3, BoundedInduction
  <2>2. n \in 0 .. n
    OBVIOUS
  <2> QED
    BY ONLY <2>1, <2>2
<1> QED
  BY <1>1, <1>4

\* The ends of the parts do not decrease.
LEMMA EndsGrow ==
  ASSUME NEW n \in Nat, NEW seqs, NEW b, Joins(seqs, n, b),
         \A k \in 1 .. n : Len(seqs[k]) \in Nat
  PROVE  \A k \in 0 .. n : \A j \in 0 .. k : b[j] <= b[k]
<1> SUFFICES ASSUME NEW k \in 0 .. n PROVE \A j \in 0 .. k : b[j] <= b[k]
  OBVIOUS
<1> DEFINE c == [i \in 0 .. k |-> b[i]]
<1>1. k \in Nat /\ c \in [0 .. k -> Nat] /\ \A i \in 0 .. k : c[i] = b[i]
  BY DEF Joins
<1>2. \A i \in 1 .. k : c[i - 1] <= c[i]
  <2>1. ASSUME NEW i \in 1 .. k PROVE c[i - 1] <= c[i]
    <3>1. i \in 1 .. n /\ i \in 0 .. k /\ i - 1 \in 0 .. k
      OBVIOUS
    <3>2. b[i] = b[i - 1] + Len(seqs[i]) /\ b[i - 1] \in Nat /\ Len(seqs[i]) \in Nat
      BY <3>1 DEF Joins
    <3>3. c[i] = b[i] /\ c[i - 1] = b[i - 1]
      BY <1>1, <3>1
    <3> QED
      BY <3>2, <3>3
  <2> QED
    BY <2>1
<1> HIDE DEF c
<1>3. \A j \in 0 .. k : c[j] <= c[k]
  BY <1>1, <1>2, CutsGrow
<1> QED
  BY <1>1, <1>3

\* Sequences that are joined have their ends.
LEMMA JoinsExist ==
  ASSUME NEW S, NEW n \in Nat, NEW seqs \in Seq(Seq(S)), Len(seqs) = n
  PROVE  \E b : Joins(seqs, n, b)
<1>1. PICK F \in [0 .. n -> Seq(S)] :
        /\ F[0] = <<>> /\ \A i \in 1 .. n : F[i] = F[i - 1] \o seqs[i]
  BY Flattens
<1> DEFINE b == [k \in 0 .. n |-> Len(F[k])]
<1>2. b \in [0 .. n -> Nat]
  BY <1>1
<1>3. b[0] = 0
  BY <1>1
<1>4. ASSUME NEW k \in 1 .. n PROVE b[k] = b[k - 1] + Len(seqs[k])
  <2>1. k \in 0 .. n /\ k - 1 \in 0 .. n
    OBVIOUS
  <2>2. F[k - 1] \in Seq(S) /\ seqs[k] \in Seq(S) /\ F[k] = F[k - 1] \o seqs[k]
    <3>1. F[k - 1] \in Seq(S) /\ seqs[k] \in Seq(S)
      BY <2>1
    <3> QED
      BY <1>1, <3>1
  <2>3. Len(F[k]) = Len(F[k - 1]) + Len(seqs[k])
    BY <2>2, ConcatProperties
  <2> QED
    BY <2>1, <2>3
<1> QED
  BY <1>2, <1>3, <1>4 DEF Joins

\* A place behind another.
LEMMA InPart ==
  ASSUME NEW x \in Nat, NEW len \in Nat, NEW y, y = x + len
  PROVE  \A i \in 1 .. len : x + i \in 1 .. y /\ x < x + i /\ x + i <= y /\ x + i \in Nat
OBVIOUS

\* Where the elements of the parts are.
Parted(whole, seqs, n, b) ==
  \A k \in 1 .. n : \A i \in 1 .. Len(seqs[k]) :
    b[k - 1] + i \in 1 .. b[n] /\ whole[b[k - 1] + i] = seqs[k][i]

\* Every element of a part is where the part begins.
LEMMA PartsAt ==
  ASSUME NEW n \in Nat, NEW seqs, NEW b, NEW whole, \A k \in 1 .. n : Len(seqs[k]) \in Nat,
         Joins(seqs, n, b), IsJoined(whole, seqs, n, b)
  PROVE  Parted(whole, seqs, n, b)
<1> SUFFICES ASSUME NEW k \in 1 .. n, NEW i \in 1 .. Len(seqs[k])
             PROVE  b[k - 1] + i \in 1 .. b[n] /\ whole[b[k - 1] + i] = seqs[k][i]
  BY DEF Parted
<1> DEFINE m == b[k - 1] + i
<1>1. \A p \in 0 .. n : b[p] \in Nat /\ \A q \in 0 .. p : b[q] <= b[p]
  BY EndsGrow DEF Joins
<1>2. \A p \in 1 .. n : b[p] = b[p - 1] + Len(seqs[p])
  BY DEF Joins
<1>3. b[k] <= b[n] /\ b[k - 1] \in Nat /\ b[k] = b[k - 1] + Len(seqs[k]) /\ b[n] \in Nat /\ b[k] \in Nat
  BY <1>1, <1>2
<1>4. m \in 1 .. b[n] /\ m <= b[k] /\ b[k - 1] < m /\ m \in Nat
  <2>1. m \in 1 .. b[k] /\ m <= b[k] /\ b[k - 1] < m /\ m \in Nat
    BY <1>3, InPart
  <2> HIDE DEF m
  <2> QED
    BY <1>3, <2>1
<1>5. PICK p \in 1 .. n : \E q \in 1 .. Len(seqs[p]) : m = b[p - 1] + q /\ whole[m] = seqs[p][q]
  BY <1>4 DEF IsJoined
<1>6. PICK q \in 1 .. Len(seqs[p]) : m = b[p - 1] + q /\ whole[m] = seqs[p][q]
  BY <1>5
<1>7. Len(seqs[p]) \in Nat /\ b[p] = b[p - 1] + Len(seqs[p]) /\ b[p] \in Nat /\ b[p - 1] \in Nat
  BY <1>1, <1>2
<1> HIDE DEF m
<1>8. m <= b[p] /\ b[p - 1] < m
  <2>1. b[p - 1] < b[p - 1] + q /\ b[p - 1] + q <= b[p]
    BY <1>7, InPart
  <2> QED
    BY <1>6, <2>1
<1>9. p = k
  <2>1. CASE p < k
    <3>1. b[p] <= b[k - 1]
      BY <1>1, <2>1
    <3>2. m <= b[p] /\ b[k - 1] < m /\ m \in Nat /\ b[p] \in Nat /\ b[k - 1] \in Nat
      BY <1>3, <1>4, <1>7, <1>8
    <3> QED
      BY <3>1, <3>2
  <2>2. CASE k < p
    <3>1. b[k] <= b[p - 1]
      BY <1>1, <2>2
    <3>2. m < m
      BY <1>3, <1>4, <1>7, <1>8, <3>1
    <3> QED
      BY <1>4, <3>2
  <2> QED
    BY <2>1, <2>2
<1>10. q = i
  <2>1. b[k - 1] + q = b[k - 1] + i /\ q \in Nat /\ i \in Nat
    BY <1>3, <1>6, <1>9 DEF m
  <2> QED
    BY <1>3, <2>1
<1> QED
  BY <1>4, <1>6, <1>9, <1>10 DEF m

\* A joined sequence and its parts.
LEMMA JoinedParts ==
  ASSUME NEW S, NEW n \in Nat, NEW seqs \in Seq(Seq(S)), Len(seqs) = n,
         NEW b, Joins(seqs, n, b)
  PROVE  /\ FlattenSeq(seqs) \in Seq(S) /\ Len(FlattenSeq(seqs)) = b[n]
         /\ IsJoined(FlattenSeq(seqs), seqs, n, b)
         /\ Parted(FlattenSeq(seqs), seqs, n, b)
<1>1. FlattenSeq(seqs) \in Seq(S) /\ IsJoined(FlattenSeq(seqs), seqs, n, b)
  BY JoinedAt
<1>2. \A k \in 1 .. n : Len(seqs[k]) \in Nat
  OBVIOUS
<1> QED
  BY <1>1, <1>2, PartsAt DEF IsJoined

\* A sequence is a function over the first numbers.
LEMMA SequenceOf ==
  ASSUME NEW T, NEW n \in Nat, NEW s, s = [k \in 1 .. n |-> s[k]], \A k \in 1 .. n : s[k] \in T
  PROVE  s \in Seq(T) /\ Len(s) = n /\ DOMAIN s = 1 .. n
<1>1. s \in [1 .. n -> T]
  OBVIOUS
<1>2. DOMAIN s = 1 .. n
  OBVIOUS
<1>3. s \in Seq(T)
  BY <1>1
<1> QED
  BY <1>2, <1>3

\* The first ones of the parts that are joined.
LEMMA FirstParts ==
  ASSUME NEW n \in Nat, NEW seqs, NEW b, Joins(seqs, n, b), NEW m \in 0 .. n, NEW first,
         \A k \in 1 .. m : first[k] = seqs[k]
  PROVE  Joins(first, m, [k \in 0 .. m |-> b[k]])
<1> DEFINE c == [k \in 0 .. m |-> b[k]]
<1>1. \A k \in 0 .. m : k \in 0 .. n /\ c[k] = b[k]
  OBVIOUS
<1>2. \A k \in 0 .. n : b[k] \in Nat
  BY DEF Joins
<1>3. c \in [0 .. m -> Nat] /\ c[0] = 0
  BY <1>1, <1>2 DEF Joins
<1>4. ASSUME NEW k \in 1 .. m PROVE c[k] = c[k - 1] + Len(first[k])
  <2>1. k \in 1 .. n /\ k \in 0 .. m /\ k - 1 \in 0 .. m
    OBVIOUS
  <2>2. b[k] = b[k - 1] + Len(seqs[k])
    BY <2>1 DEF Joins
  <2> QED
    BY <1>1, <2>1, <2>2
<1> HIDE DEF c
<1>5. Joins(first, m, c)
  BY <1>3, <1>4 DEF Joins
<1> QED
  BY <1>5 DEF c

\* Joined sequences whose parts correspond.
Along(seq, g) == [i \in DOMAIN seq |-> g[seq[i]]]

Corresponds(P, Q, n, g, S, T) ==
  /\ n \in Nat /\ P \in Seq(Seq(S)) /\ Len(P) = n /\ Q \in Seq(Seq(T)) /\ Len(Q) = n
  /\ \A k \in 1 .. n : Q[k] = Along(P[k], g)

\* Parts that correspond are joined to sequences that correspond.
LEMMA JoinedAlong ==
  ASSUME NEW P, NEW Q, NEW n, NEW g, NEW S, NEW T, Corresponds(P, Q, n, g, S, T)
  PROVE  FlattenSeq(Q) = Along(FlattenSeq(P), g)
<1>0. /\ n \in Nat /\ P \in Seq(Seq(S)) /\ Len(P) = n /\ Q \in Seq(Seq(T)) /\ Len(Q) = n
      /\ \A k \in 1 .. n : Q[k] = Along(P[k], g)
  BY DEF Corresponds
<1>1. PICK b : Joins(P, n, b)
  BY <1>0, JoinsExist
<1>2. \A k \in 1 .. n : P[k] \in Seq(S) /\ Len(P[k]) \in Nat /\ DOMAIN P[k] = 1 .. Len(P[k])
  BY <1>0
<1>3. ASSUME NEW k \in 1 .. n
      PROVE  /\ Len(Q[k]) = Len(P[k])
             /\ \A i \in 1 .. Len(P[k]) : Q[k][i] = g[P[k][i]]
  <2> DEFINE p == P[k]
             q == Q[k]
  <2>1. p \in Seq(S) /\ q = Along(p, g) /\ q \in Seq(T)
    BY <1>0
  <2> HIDE DEF p, q
  <2>2. DOMAIN q = DOMAIN p /\ \A i \in DOMAIN p : q[i] = g[p[i]]
    BY ONLY <2>1 DEF Along
  <2>3. Len(q) = Len(p) /\ DOMAIN p = 1 .. Len(p)
    BY ONLY <2>1, <2>2
  <2> QED
    BY ONLY <2>2, <2>3 DEF p, q
<1>4. Joins(Q, n, b)
  BY <1>0, <1>1, <1>3 DEF Joins
<1> DEFINE wp == FlattenSeq(P)
           wq == FlattenSeq(Q)
<1>5. wp \in Seq(S) /\ Len(wp) = b[n] /\ IsJoined(wp, P, n, b)
  BY <1>0, <1>1, JoinedParts
<1>6. wq \in Seq(T) /\ Len(wq) = b[n] /\ Parted(wq, Q, n, b)
  BY <1>0, <1>4, JoinedParts
<1> HIDE DEF wp, wq
<1>7. DOMAIN wp = 1 .. b[n] /\ DOMAIN wq = 1 .. b[n]
  BY <1>5, <1>6
<1>8. ASSUME NEW m \in 1 .. b[n]
      PROVE  wq[m] = g[wp[m]]
  <2>1. PICK k \in 1 .. n : \E i \in 1 .. Len(P[k]) : m = b[k - 1] + i /\ wp[m] = P[k][i]
    BY <1>5 DEF IsJoined
  <2>2. PICK i \in 1 .. Len(P[k]) : m = b[k - 1] + i /\ wp[m] = P[k][i]
    BY <2>1
  <2>3. i \in 1 .. Len(Q[k]) /\ Q[k][i] = g[P[k][i]]
    BY <1>3
  <2>4. wq[b[k - 1] + i] = Q[k][i]
    BY <1>6, <2>3 DEF Parted
  <2> QED
    BY ONLY <2>2, <2>3, <2>4
<1>9. wq = [i \in DOMAIN wp |-> g[wp[i]]]
  <2>1. wq = [i \in 1 .. b[n] |-> wq[i]]
    BY <1>6, <1>7
  <2> QED
    BY ONLY <1>7, <1>8, <2>1
<1> QED
  BY <1>9 DEF wp, wq, Along

\* A part of a sequence has its elements, from where it begins.
LEMMA PartOfSequence ==
  ASSUME NEW S, NEW s \in Seq(S), NEW p \in Nat, NEW m \in Nat, p + m <= Len(s)
  PROVE  /\ SubSeq(s, p + 1, p + m) \in Seq(S) /\ Len(SubSeq(s, p + 1, p + m)) = m
         /\ \A k \in 1 .. m : SubSeq(s, p + 1, p + m)[k] = s[p + k] /\ p + k \in 1 .. Len(s)
<1> DEFINE l == Len(s)
           part == SubSeq(s, p + 1, p + m)
<1>1. l \in Nat /\ p + m <= l
  OBVIOUS
<1>2. part \in Seq(S) /\ Len(part) = m
  BY <1>1
<1>3. ASSUME NEW k \in 1 .. m PROVE part[k] = s[p + k] /\ p + k \in 1 .. l
  <2>1. part[k] = s[(p + 1) + k - 1] /\ (p + 1) + k - 1 = p + k
    BY <1>1
  <2>2. p + k \in 1 .. l
    <3> HIDE DEF l
    <3> QED
      BY <1>1
  <2> QED
    BY <2>1, <2>2
<1> QED
  BY <1>2, <1>3
=============================================================================
