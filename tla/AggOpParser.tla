---------------------------- MODULE AggOpParser ----------------------------
(***************************************************************************)
(* The aggregations of a column that AggOpParser computes, and those of a  *)
(* growing sequence of matches <<time since, value>> that Aggregator       *)
(* computes, against their definitions.                                    *)
(***************************************************************************)
EXTENDS Aggregations

CONSTANTS Values,       \* what a cell of the column may be
          Pairs,        \* what a match may be
          MaxRows       \* bound on the number of rows

VARIABLES col, pairs

vars == <<col, pairs>>

Init == col = <<>> /\ pairs = <<>>

push_back == /\ Len(col) < MaxRows
             /\ \E v \in Values : col' = Append(col, v)
             /\ UNCHANGED pairs

AddMatch == /\ Len(pairs) < MaxRows
            /\ \E p \in Pairs : pairs' = Append(pairs, p)
            /\ UNCHANGED col

Next == push_back \/ AddMatch

Spec == Init /\ [][Next]_vars

-----------------------------------------------------------------------------
(* Properties *)

TypeOK ==
    \A type \in {"avg", "count", "max", "min", "stddev", "sum", "var"} :
        float_aggregation(type, col) \in (Int \X Nat) \cup {NAN}

Known == NotNull(col)
Power(v, n) == FoldLeft(LAMBDA x, i : Mul(x, v), One, [i \in 1..n |-> i])
\* The mean of the n-th powers.
Raw(n) == Quot(Total(Mapped(LAMBDA v : Power(v, n), Known)), Int2Float(Len(Known)))
Times(n, v) == Mul(Int2Float(n), v)

\* Variance, skewness and kurtosis are those of the known values: computed
\* in the code from sums of powers of distances to the mean, here from the
\* moments around zero.
MomentsAreRight ==
    Known # <<>> =>
        LET m2 == Sub(Raw(2), Power(Raw(1), 2))
            m3 == Add(Sub(Raw(3), Times(3, Mul(Raw(1), Raw(2)))),
                      Times(2, Power(Raw(1), 3)))
            m4 == Sub(Add(Sub(Raw(4), Times(4, Mul(Raw(1), Raw(3)))),
                          Times(6, Mul(Power(Raw(1), 2), Raw(2)))),
                      Times(3, Power(Raw(1), 4)))
        IN  /\ var(col) = m2
            /\ float_aggregation("stddev", col) = m2
            /\ m2 # Zero => /\ kurtosis(Known) = Quot(m4, Power(m2, 2))
                            /\ skew(Known) = Quot(Mul(m3, IF Less(m3, Zero) THEN Neg(m3)
                                                              ELSE m3),
                                                     Power(m2, 3))

Count(s, Test(_)) == Int2Float(Len(SelectSeq(s, Test)))

\* Median and quantiles divide the values: of the gaps between them
\* not more than its share, and one value, lies below a quantile or above; mode, maximum and the counts of extremes agree with
\* counting.
OrderStatisticsAreRight ==
    Known # <<>> =>
        LET n    == Len(Known)
            occurs(v) == Cardinality({i \in 1..n : Known[i] = v})
            half(q, s) == LET x == quantile(q, s)
                          IN  /\ ~Less(Add(Mul(q, Int2Float(n - 1)), One),
                                       Count(s, LAMBDA v : Less(v, x)))
                              /\ ~Less(Add(Mul(Sub(One, q), Int2Float(n - 1)), One),
                                       Count(s, LAMBDA v : Less(x, v)))
        IN  /\ median(Known) = quantile(Q(1, 2), Known)
            /\ \A q \in {Q(1, 4), Q(1, 2), Q(3, 4)} : half(q, Known)
            /\ \A v \in ToSet(Known) :
                 /\ ~Less(maximum(col), v) /\ ~Less(v, minimum(col))
                 /\ occurs(v) <= occurs(mode(Known))
                 /\ occurs(v) = occurs(mode(Known)) => ~Less(v, mode(Known))
            /\ num_max(col) = Int2Float(occurs(maximum(col)))
            /\ num_min(col) = Int2Float(occurs(minimum(col)))
            /\ Add(count_above_mean(Known), count_below_mean(Known))
                 = IF all_same(Known) THEN Zero
                   ELSE Count(Known, LAMBDA v : v # Raw(1))

\* A match counts as the first or the last maximum or minimum by its time
\* and not by its place; pairs hold the time that passed since.
TimesSinceExtremesAreRight ==
    pairs # <<>> =>
        LET all  == ToSet(pairs)
            tops == {p \in all : \A q \in all : ~Less(p[2], q[2])}
            lows == {p \in all : \A q \in all : ~Less(q[2], p[2])}
            longest(S, t)  == (\E p \in S : p[1] = t) /\ \A p \in S : ~Less(t, p[1])
            shortest(S, t) == (\E p \in S : p[1] = t) /\ \A p \in S : ~Less(p[1], t)
        IN  /\ longest(tops, time_since_first_maximum(pairs))
            /\ shortest(tops, time_since_last_maximum(pairs))
            /\ longest(lows, time_since_first_minimum(pairs))
            /\ shortest(lows, time_since_last_minimum(pairs))

\* The trend is where the line of least squares meets the time of the row.
TrendsAreRight ==
    pairs # <<>> =>
        LET S(F(_)) == Total(Mapped(F, pairs))
            n  == Int2Float(Len(pairs))
            x  == S(LAMBDA p : p[1])               y == S(LAMBDA p : p[2])
            xx == S(LAMBDA p : Mul(p[1], p[1]))   xy == S(LAMBDA p : Mul(p[1], p[2]))
            det == Sub(Mul(n, xx), Mul(x, x))
        IN  det # Zero => trend(pairs) = Quot(Sub(Mul(y, xx), Mul(x, xy)), det)

=============================================================================
