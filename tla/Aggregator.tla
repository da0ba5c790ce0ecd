----------------------------- MODULE Aggregator -----------------------------
(***************************************************************************)
(* fastprop::algorithm::Aggregator, ConditionParser and Memoization: the   *)
(* value of one abstract feature for one row, from the rows it matches.    *)
(*                                                                         *)
(* A frame is [name, nrows, cols, ts, targets]: cols is a sequence of      *)
(* [name, role, unit, col] and ts is empty or <<time stamps>>.  A category *)
(* is an Int, -1 where it is missing.  A context is what a feature is      *)
(* computed from: [population, peripheral, subf, matches].                 *)
(***************************************************************************)
EXTENDS Aggregations

NULL_CATEGORY == -1
NO_CATEGORICAL_VALUE == -1

columns(df, role) == SelectSeq(df.cols, LAMBDA c : c.role = role)

categorical_col(df, ix) == columns(df, "categorical")[ix].col
discrete_col(df, ix)    == columns(df, "discrete")[ix].col
numerical_col(df, ix)   == columns(df, "numerical")[ix].col
num_time_stamps(df)     == Len(df.ts)
time_stamp_col(df)      == df.ts[1]

-----------------------------------------------------------------------------
(* Conditions and abstract features *)

CategoricalCondition(category, input_col, peripheral) ==
    [data_used |-> "categorical", category_used |-> category, bounds |-> <<>>,
     input_col |-> input_col, output_col |-> 0, peripheral |-> peripheral]

LagCondition(lower, upper, peripheral) ==
    [data_used |-> "lag", category_used |-> -1, bounds |-> <<lower, upper>>,
     input_col |-> 0, output_col |-> 0, peripheral |-> peripheral]

SameUnitsCondition(input_col, output_col, peripheral) ==
    [data_used |-> "same_units_categorical", category_used |-> -1,
     bounds |-> <<>>, input_col |-> input_col, output_col |-> output_col,
     peripheral |-> peripheral]

AbstractFeature(agg, conditions, data_used, input_col, output_col, peripheral, category) ==
    [aggregation |-> agg, conditions |-> conditions, data_used |-> data_used,
     input_col |-> input_col, output_col |-> output_col,
     peripheral |-> peripheral, categorical_value |-> category]

make_categorical(peripheral, cond, m) ==
    categorical_col(peripheral, cond.input_col)[m.ix_input] = cond.category_used

\* lower <= t1 - t2 < upper
make_lag(population, peripheral, cond, m) ==
    LET t1 == time_stamp_col(population)[m.ix_output]
        t2 == time_stamp_col(peripheral)[m.ix_input]
        at_most(a, b) == ~is_null(a) /\ ~is_null(b) /\ ~Less(b, a)
    IN  /\ Less(t1, Add(t2, cond.bounds[2]))
        /\ at_most(Add(t2, cond.bounds[1]), t1)

make_same_units_categorical(population, peripheral, cond, m) ==
    categorical_col(population, cond.output_col)[m.ix_output]
        = categorical_col(peripheral, cond.input_col)[m.ix_input]

parse_single_condition(population, peripheral, cond, m) ==
    CASE cond.data_used = "categorical" -> make_categorical(peripheral, cond, m)
      [] cond.data_used = "lag" -> make_lag(population, peripheral, cond, m)
      [] cond.data_used = "same_units_categorical" ->
             make_same_units_categorical(population, peripheral, cond, m)

\* make_apply_conditions: the conjunction of a feature's conditions.
apply_conditions(ctx, af, m) ==
    \A i \in DOMAIN af.conditions :
        parse_single_condition(ctx.population, ctx.peripheral, af.conditions[i], m)

-----------------------------------------------------------------------------
(* Memoization: the values of the feature before, where it used the same   *)
(* column under the same conditions.                                       *)

\* What reset leaves, at the start of every row.
EmptyMemo == [numerical |-> <<>>, of_numerical |-> <<>>,
              pairs |-> <<>>, of_pairs |-> <<>>]

\* A mutant: features of one column share their values whatever the conditions.
is_same_column(af1, af2) ==
    /\ af1 # <<>>
    /\ \A fld \in {"categorical_value", "data_used", "input_col",
                   "output_col", "peripheral"} : af1[1][fld] = af2[fld]

\* Everything but the aggregation.
is_same(af1, af2) ==
    /\ af1 # <<>>
    /\ \A fld \in {"categorical_value", "data_used", "input_col", "output_col",
                   "peripheral", "conditions"} : af1[1][fld] = af2[fld]

memorize_numerical(memo, af, range) ==
    IF is_same(memo.of_numerical, af) THEN memo
    ELSE [memo EXCEPT !.numerical = range, !.of_numerical = <<af>>]

memorize_pairs(memo, af, range) ==
    IF is_same(memo.of_pairs, af) THEN memo
    ELSE [memo EXCEPT !.pairs = range, !.of_pairs = <<af>>]

-----------------------------------------------------------------------------
(* Aggregator *)

Conditioned(ctx, af) ==
    SelectSeq(ctx.matches, LAMBDA m : apply_conditions(ctx, af, m))

memorize_numerical_range(ctx, af, Extract(_), memo) ==
    memorize_numerical(memo, af, NotNull(Mapped(Extract, Conditioned(ctx, af))))

memorize_pairs_range(ctx, af, Extract(_), memo) ==
    LET Pair(m) == <<time_stamp_col(ctx.peripheral)[m.ix_input], Extract(m)>>
    IN  memorize_pairs(memo, af,
            SelectSeq(Mapped(Pair, Conditioned(ctx, af)),
                      LAMBDA p : ~is_null(p[2])))

\* The value of a feature, and what is memorized of it.
OfMemory(memo, value) == [memo |-> memo, value |-> value]

FirstLastOf(ctx, agg, memo) ==
    LET ts_output == time_stamp_col(ctx.population)[ctx.matches[1].ix_output]
        Since(p)  == <<Sub(ts_output, p[1]), p[2]>>
    IN  OfMemory(memo, aggregate_first_last(agg,
                          IF agg \in {"FIRST", "LAST"} THEN memo.pairs
                          ELSE Mapped(Since, memo.pairs)))

apply_first_last(ctx, af, Extract(_), memo) ==
    FirstLastOf(ctx, af.aggregation, memorize_pairs_range(ctx, af, Extract, memo))

RangeOf(agg, memo) == OfMemory(memo, aggregate_numerical_range(agg, memo.numerical))

apply_range(ctx, af, Extract(_), memo) ==
    RangeOf(af.aggregation, memorize_numerical_range(ctx, af, Extract, memo))

Indicator(b) == IF b THEN One ELSE Zero

aggregate_matches_categorical(ctx, af, Extract(_)) ==
    aggregate_categorical_range(af.aggregation,
        Mapped(Int2Float, SelectSeq(Mapped(Extract, Conditioned(ctx, af)),
                                    LAMBDA c : c >= 0)))

\* The categories of a match, in the population and in the peripheral table.
CategoryOut(ctx, af, m) == categorical_col(ctx.population, af.output_col)[m.ix_output]
CategoryIn(ctx, af, m)  == categorical_col(ctx.peripheral, af.input_col)[m.ix_input]

\* What apply_categorical, ..., apply_subfeatures extract from a match.
Extracted(ctx, af, m) ==
    CASE af.data_used = "categorical" ->
             Indicator(CategoryIn(ctx, af, m) = af.categorical_value)
      [] af.data_used = "discrete"  -> discrete_col(ctx.peripheral, af.input_col)[m.ix_input]
      [] af.data_used = "numerical" -> numerical_col(ctx.peripheral, af.input_col)[m.ix_input]
      [] af.data_used = "na"        -> IF af.aggregation = "COUNT" THEN Zero
                                       ELSE time_stamp_col(ctx.peripheral)[m.ix_input]
      [] af.data_used = "same_units_categorical" ->
             Indicator(/\ CategoryOut(ctx, af, m) = CategoryIn(ctx, af, m)
                       /\ CategoryOut(ctx, af, m) >= 0)
      [] af.data_used \in {"same_units_discrete", "same_units_discrete_ts"} ->
             Sub(discrete_col(ctx.population, af.output_col)[m.ix_output],
                 discrete_col(ctx.peripheral, af.input_col)[m.ix_input])
      [] af.data_used \in {"same_units_numerical", "same_units_numerical_ts"} ->
             Sub(numerical_col(ctx.population, af.output_col)[m.ix_output],
                 numerical_col(ctx.peripheral, af.input_col)[m.ix_input])
      [] af.data_used = "subfeatures" -> ctx.subf[af.input_col][m.ix_input]

\* The functions of the kinds of data differ in what they extract; categories
\* are also counted.
apply_aggregation(ctx, af, memo) ==
    IF af.data_used = "categorical" /\ af.categorical_value = NO_CATEGORICAL_VALUE
    THEN OfMemory(memo, aggregate_matches_categorical(ctx, af,
                            LAMBDA m : CategoryIn(ctx, af, m)))
    ELSE IF is_first_last(af.aggregation)
         THEN apply_first_last(ctx, af, LAMBDA m : Extracted(ctx, af, m), memo)
         ELSE apply_range(ctx, af, LAMBDA m : Extracted(ctx, af, m), memo)

=============================================================================
