---------------------------- MODULE Aggregations ----------------------------
(***************************************************************************)
(* helpers::Aggregations: what every aggregation returns for a range of    *)
(* values or of pairs <<time, value>>, and the two places that call them   *)
(* on a column, AggOpParser, or on the matches of one row, Aggregator.     *)
(*                                                                         *)
(* A Float is a rational <<n, d>> in lowest terms or NAN.  The root that   *)
(* stddev takes is left out: stddev is represented by its square, skew by  *)
(* its square with the sign of skew.  The weight of ewma is                *)
(* exp(log(0.5) * t / half_life), which is rational where t is a multiple  *)
(* of half_life.                                                           *)
(***************************************************************************)
EXTENDS Integers, Sequences, FiniteSets, SequencesExt, FiniteSetsExt

CONSTANT NAN                \* the Float that stands for a missing value

-----------------------------------------------------------------------------
(* Arithmetic of Float *)

Magnitude(n) == IF n < 0 THEN -n ELSE n

gcd[x \in Nat \X Nat] == IF x[2] = 0 THEN x[1] ELSE gcd[<<x[2], x[1] % x[2]>>]

Q(n, d) ==
    LET g == gcd[<<Magnitude(n), Magnitude(d)>>]
        s == IF d < 0 THEN -1 ELSE 1
    IN  <<(s * n) \div g, (s * d) \div g>>

Int2Float(n) == <<n, 1>>
Zero == Int2Float(0)
One  == Int2Float(1)

is_null(v) == v = NAN

Add(a, b)  == IF is_null(a) \/ is_null(b) THEN NAN
              ELSE Q(a[1] * b[2] + b[1] * a[2], a[2] * b[2])
Neg(a)     == IF is_null(a) THEN NAN ELSE <<-a[1], a[2]>>
Sub(a, b)  == Add(a, Neg(b))
Mul(a, b)  == IF is_null(a) \/ is_null(b) THEN NAN
              ELSE Q(a[1] * b[1], a[2] * b[2])
Quot(a, b) == IF is_null(a) \/ is_null(b) \/ b = Zero THEN NAN
              ELSE Q(a[1] * b[2], a[2] * b[1])

\* a/b < c/d, by the integral parts and then the reciprocals of what is left:
\* the products of the four would not fit into the integers of TLC.
Rational == Int \X (Nat \ {0})

smaller[x \in Rational \X Rational] ==
    LET a == x[1][1]  b == x[1][2]  c == x[2][1]  d == x[2][2]
        r == a % b    t == c % d
    IN  IF a \div b # c \div d THEN a \div b < c \div d
        ELSE t # 0 /\ (r = 0 \/ smaller[<<<<d, t>>, <<b, r>>>>])

Less(a, b) == ~is_null(a) /\ ~is_null(b) /\ smaller[<<a, b>>]
Same(a, b) == ~is_null(a) /\ a = b

Total(s)   == FoldLeft(Add, Zero, s)
Mapped(Op(_), s) == [i \in DOMAIN s |-> Op(s[i])]
NotNull(s) == SelectSeq(s, LAMBDA v : ~is_null(v))

-----------------------------------------------------------------------------
(* Aggregations over values *)

Unequal == <<"Values not equal">>

num_agg(Op(_, _), init, s) == FoldLeft(Op, init, s)

count(s) == num_agg(LAMBDA n, v : IF is_null(v) THEN n ELSE Add(n, One), Zero, s)

sum(s) == num_agg(LAMBDA n, v : IF is_null(v) THEN n ELSE Add(n, v), Zero, s)

\* Quot is NAN where there is nothing to count.
avg(s) == Quot(sum(s), count(s))

all_same(s) == Len(s) <= 1 \/ \A i \in 2..Len(s) : Same(s[i], s[1])

count_above_mean(s) ==
    IF all_same(s) THEN Zero
    ELSE Int2Float(Len(SelectSeq(s, LAMBDA v : Less(avg(s), v))))

count_below_mean(s) ==
    IF all_same(s) THEN Zero
    ELSE Int2Float(Len(SelectSeq(s, LAMBDA v : Less(v, avg(s)))))

count_distinct(s) == Int2Float(Cardinality(ToSet(NotNull(s))))

count_distinct_over_count(s) ==
    Quot(count_distinct(s), count(s))

\* The first value, compared with every later one; a difference is an error.
assert_equal(s) ==
    IF s = <<>> THEN NAN
    ELSE IF \A i \in DOMAIN s : Same(s[1], s[i]) THEN s[1] ELSE Unequal

maximum(s) ==
    num_agg(LAMBDA m, v : IF Less(m, v) \/ is_null(m) THEN v ELSE m, NAN, s)

minimum(s) ==
    num_agg(LAMBDA m, v : IF Less(v, m) \/ is_null(m) THEN v ELSE m, NAN, s)

num_max(s) == Int2Float(Len(SelectSeq(s, LAMBDA v : Same(v, maximum(s)))))
num_min(s) == Int2Float(Len(SelectSeq(s, LAMBDA v : Same(v, minimum(s)))))

sorted(s) == SortSeq(s, Less)

Middle(v, n) ==
    IF n = 0 THEN NAN
    ELSE IF n % 2 = 0
         THEN Quot(Add(v[n \div 2], v[n \div 2 + 1]), Int2Float(2))
         ELSE v[n \div 2 + 1]

median(s) == Middle(sorted(s), Len(s))

Between(v, ix, share) ==
    IF ix = Len(v) - 1 THEN v[ix + 1]
    ELSE Add(Mul(v[ix + 2], share), Mul(v[ix + 1], Sub(One, share)))

AtFraction(v, ix_float) ==
    LET ix == ix_float[1] \div ix_float[2]
    IN  Between(v, ix, Sub(ix_float, Int2Float(ix)))

quantile(q, s) ==
    IF s = <<>> THEN NAN
    ELSE AtFraction(sorted(s), Mul(Int2Float(Len(s) - 1), q))

count_frequencies(s) ==
    [v \in ToSet(NotNull(s)) |-> Cardinality({i \in DOMAIN s : s[i] = v})]

\* max_element of a map that is sorted by value: the smallest of the most
\* frequent values.
mode(s) ==
    LET freq == count_frequencies(s)
        most == {v \in DOMAIN freq : \A w \in DOMAIN freq : freq[w] <= freq[v]}
    IN  IF most = {} THEN NAN
        ELSE CHOOSE v \in most : \A w \in most : v = w \/ Less(v, w)

ToThe(power, x) == num_agg(LAMBDA y, i : Mul(y, x), One, [i \in 1..power |-> i])
Squared(x)      == Mul(x, x)

MomentAbout(s, mean, n, power) ==
    num_agg(LAMBDA m, v : IF is_null(v) THEN m
                          ELSE Add(m, Quot(ToThe(power, Sub(v, mean)), n)),
            Zero, s)

\* The sum of the n-th powers of the distances to the mean, over count.
Moment(s, power) == MomentAbout(s, avg(s), count(s), power)

\* A mutant: missing values count as rows of the column.
var_of_rows(s) == IF count(s) = Zero THEN NAN
                  ELSE Mul(Moment(s, 2), Quot(count(s), Int2Float(Len(s))))

var(s) == IF count(s) = Zero THEN NAN ELSE Moment(s, 2)

stddev(s) == var(s)

kurtosis(s) ==
    IF count(s) = Zero THEN NAN
    ELSE IF all_same(s) THEN Zero
    ELSE Quot(Moment(s, 4), Squared(Moment(s, 2)))

\* The square roots of stddev and skew are left out: skew is squared, its sign is
\* kept.
SignedSquare(x) == Mul(x, IF Less(x, Zero) THEN Neg(x) ELSE x)

skew(s) ==
    IF count(s) = Zero THEN NAN
    ELSE IF all_same(s) THEN Zero
    ELSE Quot(SignedSquare(Moment(s, 3)), ToThe(3, Moment(s, 2)))

variation_coefficient(s) == Quot(var(s), avg(s))

-----------------------------------------------------------------------------
(* Aggregations over pairs <<time, value>> *)

\* std::ranges::min_element and max_element: the first of equal elements.
min_element(p, Smaller(_, _)) ==
    p[CHOOSE i \in DOMAIN p :
        /\ \A j \in DOMAIN p : ~Smaller(p[j], p[i])
        /\ \A j \in 1..i - 1 : Smaller(p[i], p[j])]

max_element(p, Smaller(_, _)) ==
    p[CHOOSE i \in DOMAIN p :
        /\ \A j \in DOMAIN p : ~Smaller(p[i], p[j])
        /\ \A j \in 1..i - 1 : Smaller(p[j], p[i])]

ts_is_smaller(p, q) == Less(p[1], q[1])

EarlierIsSmaller(p, q) ==
    IF p[2] = q[2] THEN Less(p[1], q[1]) ELSE Less(p[2], q[2])

LaterIsSmaller(p, q) ==
    IF p[2] = q[2] THEN Less(q[1], p[1]) ELSE Less(p[2], q[2])

first(p) == IF p = <<>> THEN NAN ELSE min_element(p, ts_is_smaller)[2]
last(p)  == IF p = <<>> THEN NAN ELSE max_element(p, ts_is_smaller)[2]

time_since_first_maximum(p) ==
    IF p = <<>> THEN NAN ELSE max_element(p, EarlierIsSmaller)[1]
time_since_first_minimum(p) ==
    IF p = <<>> THEN NAN ELSE min_element(p, LaterIsSmaller)[1]
time_since_last_maximum(p) ==
    IF p = <<>> THEN NAN ELSE max_element(p, LaterIsSmaller)[1]
time_since_last_minimum(p) ==
    IF p = <<>> THEN NAN ELSE min_element(p, EarlierIsSmaller)[1]

\* 0.5 ^ (t / half_life)
Weight(half_life, t) ==
    LET k == t[1] \div half_life IN IF k < 0 THEN <<2 ^ (-k), 1>> ELSE <<1, 2 ^ k>>

\* Sums over the points, weighted by w.
WeightedSum(p, w, Op(_)) == Total([i \in DOMAIN p |-> Mul(w[i], Op(p[i]))])
WeightedAvg(p, w, Op(_)) == Quot(WeightedSum(p, w, Op), Total(w))

LineAtZero(mean_x, mean_y, xx, xy) ==
    IF xx = Zero THEN mean_y ELSE Sub(mean_y, Mul(mean_x, Quot(xy, xx)))

LineThrough(p, w, mean_x, mean_y) ==
    LineAtZero(mean_x, mean_y,
               WeightedSum(p, w, LAMBDA q : Squared(Sub(q[1], mean_x))),
               WeightedSum(p, w, LAMBDA q : Mul(Sub(q[1], mean_x), Sub(q[2], mean_y))))

\* The value at time zero of the line through the points, weighted by w; the
\* mean where all times are equal.
Intercept(p, w) ==
    LineThrough(p, w, WeightedAvg(p, w, LAMBDA q : q[1]), WeightedAvg(p, w, LAMBDA q : q[2]))

ewma(half_life, p) ==
    IF p = <<>> THEN NAN
    ELSE WeightedAvg(p, [i \in DOMAIN p |-> Weight(half_life, p[i][1])], LAMBDA q : q[2])

ewma_trend(half_life, p) ==
    IF p = <<>> THEN NAN
    ELSE Intercept(p, [i \in DOMAIN p |-> Weight(half_life, p[i][1])])

trend(p) == Intercept(p, [i \in DOMAIN p |-> One])

-----------------------------------------------------------------------------
(* Aggregator: the aggregation of the matches of one row *)

calc_avg_time_between(s) ==
    IF Len(s) <= 1 THEN Zero
    ELSE Quot(Sub(maximum(s), minimum(s)), Int2Float(Len(s) - 1))

is_first_last(agg) ==
    agg \in {"FIRST", "LAST", "EWMA", "EWMA_TREND", "TREND",
             "TIME SINCE FIRST MAXIMUM", "TIME SINCE FIRST MINIMUM",
             "TIME SINCE LAST MAXIMUM", "TIME SINCE LAST MINIMUM"}

aggregate_categorical_range(agg, s) ==
    CASE agg = "COUNT DISTINCT"             -> count_distinct(s)
      [] agg = "COUNT MINUS COUNT DISTINCT" -> Sub(count(s), count_distinct(s))

aggregate_numerical_range(agg, s) ==
    CASE agg = "AVG"                        -> avg(s)
      [] agg = "AVG TIME BETWEEN"           -> calc_avg_time_between(s)
      [] agg = "COUNT"                      -> count(s)
      [] agg = "COUNT DISTINCT"             -> count_distinct(s)
      [] agg = "COUNT DISTINCT OVER COUNT"  -> count_distinct_over_count(s)
      [] agg = "COUNT MINUS COUNT DISTINCT" -> Sub(count(s), count_distinct(s))
      [] agg = "KURTOSIS"                   -> kurtosis(s)
      [] agg = "MAX"                        -> maximum(s)
      [] agg = "MEDIAN"                     -> median(s)
      [] agg = "MIN"                        -> minimum(s)
      [] agg = "MODE"                       -> mode(s)
      [] agg = "NUM MAX"                    -> num_max(s)
      [] agg = "NUM MIN"                    -> num_min(s)
      [] agg = "Q25"                        -> quantile(Q(1, 4), s)
      [] agg = "Q75"                        -> quantile(Q(3, 4), s)
      [] agg = "SKEW"                       -> skew(s)
      [] agg = "STDDEV"                     -> stddev(s)
      [] agg = "SUM"                        -> sum(s)
      [] agg = "VAR"                        -> var(s)
      [] agg = "VARIATION COEFFICIENT"      -> variation_coefficient(s)

\* The nine half lives of EWMA and of EWMA_TREND are one, of one unit of time.
aggregate_first_last(agg, p) ==
    IF p = <<>> THEN Zero
    ELSE CASE agg = "FIRST"                    -> first(p)
           [] agg = "LAST"                     -> last(p)
           [] agg = "EWMA"                     -> ewma(1, p)
           [] agg = "EWMA_TREND"               -> ewma_trend(1, p)
           [] agg = "TIME SINCE FIRST MAXIMUM" -> time_since_first_maximum(p)
           [] agg = "TIME SINCE FIRST MINIMUM" -> time_since_first_minimum(p)
           [] agg = "TIME SINCE LAST MAXIMUM"  -> time_since_last_maximum(p)
           [] agg = "TIME SINCE LAST MINIMUM"  -> time_since_last_minimum(p)
           [] agg = "TREND"                    -> trend(p)

-----------------------------------------------------------------------------
(* AggOpParser: the aggregation of a column *)

float_aggregation(type, col) ==
    CASE type = "assert_equal" -> assert_equal(col)
      [] type = "avg"          -> avg(col)
      [] type = "count"        -> count(col)
      [] type = "max"          -> maximum(col)
      [] type = "median"       -> median(col)
      [] type = "min"          -> minimum(col)
      [] type = "stddev"       -> stddev(col)
      [] type = "sum"          -> sum(col)
      [] type = "var"          -> var(col)

=============================================================================
