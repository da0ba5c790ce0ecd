------------------------------ MODULE FastProp ------------------------------
(***************************************************************************)
(* fastprop::algorithm::FastProp: finds the candidates for features, one   *)
(* FastProp for every joined table that has joined tables of its own, keeps*)
(* the candidates with the highest R-squared on a sample of the population,*)
(* builds the rows of all features in several threads and says which       *)
(* columns the features rest on and how SQL would compute them.            *)
(*                                                                         *)
(* A placeholder is [table, joined]: joined is a sequence of               *)
(* [placeholder, key, other_key].  A fitted FastProp is                    *)
(* [placeholder, abstract_features, subfeatures], where subfeatures has    *)
(* for every joined table a FastProp or None.                              *)
(***************************************************************************)
EXTENDS SQLMaker

CONSTANTS
    Instances,          \* what may be fitted: [tables, placeholder, aggregation,
                        \*   num_features, n_most_frequent, delta_t, max_lag,
                        \*   min_sample: the smallest sample]
    comparison_only,    \* the units that say "comparison only"
    time_stamp_unit,    \* the units that say "time stamp"
    num_threads,        \* get_num_threads, 1 at least
    log_iter,           \* rows in a thread's cache, 1 at least (5000 in the code)
    batch_size          \* candidates whose R-squared is computed at once (100)

VARIABLES
    inst,               \* the instance: data, data model and hyperparameters
    rownums,            \* the sample of the population
    phase,              \* "r_squared", "select", "transform", "done"
    fast_prop,          \* the FastProp
    r_squared,          \* R-squared of the candidates handled so far
    subfeatures,        \* the columns of the subfeatures, by joined table
    features,           \* features[row][col], what the threads write
    threads             \* of every thread [i, cache, finished]

vars == <<inst, rownums, phase, fast_prop, r_squared, subfeatures, features, threads>>

Threads == 0..num_threads - 1
population(in, ph) == in.tables[ph.table]
peripheral(in, ph, i) == in.tables[ph.joined[i].placeholder.table]

-----------------------------------------------------------------------------
(* Conditions *)

find_most_frequent_categories(in, col) ==
    LET values == ToSet(col)
        freq(v) == Cardinality({r \in DOMAIN col : col[r] = v})
        \* Ties are left in the order of the map.
        pairs  == SortSeq(SetToSortSeq(values, <), LAMBDA v, w : freq(v) > freq(w))
        known  == SelectSeq(pairs, LAMBDA v : v >= 0)
    IN  SubSeq(known, 1, IF Len(known) < in.n_most_frequent THEN Len(known)
                         ELSE in.n_most_frequent)

ForEach(n, F(_)) == FlattenSeq([i \in 1..n |-> F(i)])

make_categorical_conditions(in, per, ix) ==
    LET cats == columns(per, "categorical")
    IN  ForEach(Len(cats), LAMBDA c :
            IF cats[c].unit \in comparison_only THEN <<>>
            ELSE LET frequent == find_most_frequent_categories(in, cats[c].col)
                 IN  [k \in DOMAIN frequent |->
                        <<CategoricalCondition(frequent[k], c, ix)>>])

make_lag_conditions(in, pop, per, ix) ==
    IF num_time_stamps(pop) = 0 \/ num_time_stamps(per) = 0 THEN <<>>
    ELSE [k \in 1..in.max_lag |->
            <<LagCondition(Int2Float(in.delta_t * (k - 1)),
                           Int2Float(in.delta_t * k), ix)>>]

same_unit(pop, per, role, output_col, input_col) ==
    /\ columns(pop, role)[output_col].unit # ""
    /\ columns(pop, role)[output_col].unit = columns(per, role)[input_col].unit

make_same_units_categorical_conditions(pop, per, ix) ==
    ForEach(Len(columns(pop, "categorical")), LAMBDA o :
        ForEach(Len(columns(per, "categorical")), LAMBDA c :
            IF same_unit(pop, per, "categorical", o, c)
            THEN << <<SameUnitsCondition(c, o, ix)>> >> ELSE <<>>))

make_conditions(in, ph) ==
    LET pop == population(in, ph)
    IN  << <<>> >> \o ForEach(Len(ph.joined), LAMBDA i :
            LET per == peripheral(in, ph, i)
            IN  make_categorical_conditions(in, per, i)
                \o make_lag_conditions(in, pop, per, i)
                \o make_same_units_categorical_conditions(pop, per, i))

condition_filter(cond, ix) == \A k \in DOMAIN cond : cond[k].peripheral = ix

-----------------------------------------------------------------------------
(* Candidates *)

is_categorical(agg) == agg \in {"COUNT DISTINCT", "COUNT MINUS COUNT DISTINCT"}
is_numerical(agg)   == agg # "COUNT"
has_count(in)       == "COUNT" \in ToSet(in.aggregation)

skip_first_last(agg, pop, per) ==
    /\ is_first_last(agg)
    /\ num_time_stamps(pop) = 0 \/ num_time_stamps(per) = 0

\* The aggregations of numbers that pop and per can have.
Numerical(in, pop, per) ==
    SelectSeq(in.aggregation,
              LAMBDA a : is_numerical(a) /\ ~skip_first_last(a, pop, per))

any_condition_is_categorical(cond) ==
    \E k \in DOMAIN cond : cond[k].data_used = "categorical"

Features(aggs, cond, data_used, input_col, output_col, ix, category) ==
    [a \in DOMAIN aggs |-> AbstractFeature(aggs[a], cond, data_used, input_col,
                                           output_col, ix, category)]

fit_on_categoricals(in, per, ix, cond) ==
    LET cats == columns(per, "categorical")
    IN  ForEach(Len(cats), LAMBDA c :
            IF cats[c].unit \in comparison_only \/ any_condition_is_categorical(cond)
            THEN <<>>
            ELSE Features(SelectSeq(in.aggregation, is_categorical), cond,
                          "categorical", c, 0, ix, NO_CATEGORICAL_VALUE))

fit_on_categoricals_by_categories(in, pop, per, ix, cond) ==
    LET cats == columns(per, "categorical")
    IN  ForEach(Len(cats), LAMBDA c :
            IF cats[c].unit \in comparison_only \/ any_condition_is_categorical(cond)
            THEN <<>>
            ELSE LET frequent == find_most_frequent_categories(in, cats[c].col)
                 IN  ForEach(Len(frequent), LAMBDA k :
                        Features(Numerical(in, pop, per), cond, "categorical", c,
                                 0, ix, frequent[k])))

FitOnColumns(in, pop, per, ix, cond, role) ==
    LET cols == columns(per, role)
    IN  ForEach(Len(cols), LAMBDA c :
            IF cols[c].unit \in comparison_only THEN <<>>
            ELSE Features(Numerical(in, pop, per), cond, role, c, 0, ix,
                          NO_CATEGORICAL_VALUE))

fit_on_discretes(in, pop, per, ix, cond) ==
    FitOnColumns(in, pop, per, ix, cond, "discrete")
fit_on_numericals(in, pop, per, ix, cond) ==
    FitOnColumns(in, pop, per, ix, cond, "numerical")

FitOnSameUnits(in, pop, per, ix, cond, role, DataUsed(_)) ==
    ForEach(Len(columns(pop, role)), LAMBDA o :
        ForEach(Len(columns(per, role)), LAMBDA c :
            IF ~same_unit(pop, per, role, o, c) THEN <<>>
            ELSE Features(Numerical(in, pop, per), cond,
                          DataUsed(columns(pop, role)[o]), c, o, ix,
                          NO_CATEGORICAL_VALUE)))

is_ts(col) == col.unit \in time_stamp_unit

fit_on_same_units_categorical(in, pop, per, ix, cond) ==
    FitOnSameUnits(in, pop, per, ix, cond, "categorical",
                   LAMBDA col : "same_units_categorical")
fit_on_same_units_discrete(in, pop, per, ix, cond) ==
    FitOnSameUnits(in, pop, per, ix, cond, "discrete",
        LAMBDA col : IF is_ts(col) THEN "same_units_discrete_ts"
                     ELSE "same_units_discrete")
fit_on_same_units_numerical(in, pop, per, ix, cond) ==
    FitOnSameUnits(in, pop, per, ix, cond, "numerical",
        LAMBDA col : IF is_ts(col) THEN "same_units_numerical_ts"
                     ELSE "same_units_numerical")

num_features(fp) == Len(fp.abstract_features)

fit_on_subfeatures(in, pop, per, ix, cond, subs) ==
    IF subs[ix] = None THEN <<>>
    ELSE ForEach(num_features(subs[ix]), LAMBDA c :
            Features(Numerical(in, pop, per), cond, "subfeatures", c, 0, ix,
                     NO_CATEGORICAL_VALUE))

fit_on_peripheral(in, pop, per, ix, conditions, subs) ==
    LET filtered == SelectSeq(conditions, LAMBDA c : condition_filter(c, ix))
        na(agg, cond) ==
            <<AbstractFeature(agg, cond, "na", 0, 0, ix, NO_CATEGORICAL_VALUE)>>
    IN  ForEach(Len(filtered), LAMBDA k :
            LET cond == filtered[k]
            IN  fit_on_categoricals(in, per, ix, cond)
                \o fit_on_categoricals_by_categories(in, pop, per, ix, cond)
                \o fit_on_discretes(in, pop, per, ix, cond)
                \o fit_on_numericals(in, pop, per, ix, cond)
                \o fit_on_same_units_categorical(in, pop, per, ix, cond)
                \o fit_on_same_units_discrete(in, pop, per, ix, cond)
                \o fit_on_same_units_numerical(in, pop, per, ix, cond)
                \o fit_on_subfeatures(in, pop, per, ix, cond, subs)
                \o IF num_time_stamps(per) > 0
                   THEN na("AVG TIME BETWEEN", cond) ELSE <<>>)
        \o IF has_count(in) THEN na("COUNT", <<>>) ELSE <<>>

\* fit_subfeatures, and of fit what it does before it selects features.
RECURSIVE FitCandidates(_, _)
FitCandidates(in, ph) ==
    LET subs == [i \in DOMAIN ph.joined |->
                   IF ph.joined[i].placeholder.joined = <<>> THEN None
                   ELSE FitCandidates(in, ph.joined[i].placeholder)]
    IN  [placeholder |-> ph, subfeatures |-> subs,
         abstract_features |-> ForEach(Len(ph.joined), LAMBDA i :
             fit_on_peripheral(in, population(in, ph), peripheral(in, ph, i), i,
                               make_conditions(in, ph), subs))]

-----------------------------------------------------------------------------
(* Building the rows *)

\* The rows of joined table i that belong to a row of the population.
Matches(in, ph, i, row) ==
    LET pop == population(in, ph)
        per == peripheral(in, ph, i)
        use == num_time_stamps(pop) > 0 /\ num_time_stamps(per) > 0
    IN  SelectSeq([r \in 1..per.nrows |-> r],
                  LAMBDA r : Joined(pop, per, ph.joined[i], use, row, r))

make_matches(in, ph, row) ==
    [i \in DOMAIN ph.joined |->
        LET rows == Matches(in, ph, i, row)
        IN  [k \in DOMAIN rows |-> [ix_input |-> rows[k], ix_output |-> row]]]

WithValue(acc, res) ==
    [memo |-> res.memo,
     row  |-> Append(acc.row, IF is_null(res.value) THEN Zero ELSE res.value)]

build_row(in, fp, subf, index, row) ==
    LET all_matches == make_matches(in, fp.placeholder, row)
        ctx(af) == [population |-> population(in, fp.placeholder),
                    peripheral |-> peripheral(in, fp.placeholder, af.peripheral),
                    subf       |-> subf[af.peripheral],
                    matches    |-> all_matches[af.peripheral]]
        Value_(af, memo) == apply_aggregation(ctx(af), af, memo)
    IN  FoldLeft(LAMBDA acc, ix : WithValue(acc, Value_(fp.abstract_features[ix], acc.memo)),
                 [memo |-> EmptyMemo, row |-> <<>>], index).row

\* A mutant: nobody takes the rows that are left over.
make_rownums_without_rest(t, rows) ==
    LET per_thread == Len(rows) \div num_threads
    IN  SubSeq(rows, t * per_thread + 1, (t + 1) * per_thread)

\* rows: all rows of the population, or the sample.
make_rownums(t, rows) ==
    LET per_thread == Len(rows) \div num_threads
    IN  SubSeq(rows, t * per_thread + 1,
               IF t < num_threads - 1 THEN (t + 1) * per_thread ELSE Len(rows))

\* The cache holds the rows from begin on; it may have more rows than are left.
cache_to_features(rows, begin, cache, feats) ==
    LET held == {k \in DOMAIN cache : begin + k <= Len(rows)}
    IN  [r \in DOMAIN feats |->
            IF \E k \in held : rows[begin + k] = r
            THEN cache[CHOOSE k \in held : rows[begin + k] = r] ELSE feats[r]]

\* One round of the loop of build_rows: st is [i, cache, features].
BuildNext(in, fp, subf, index, rows, st) ==
    [i        |-> st.i + 1,
     features |-> IF st.i % log_iter = 0 /\ st.i # 0
                  THEN cache_to_features(rows, st.i - log_iter, st.cache, st.features)
                  ELSE st.features,
     cache    |-> [st.cache EXCEPT ![(st.i % log_iter) + 1] =
                      build_row(in, fp, subf, index, rows[st.i + 1])]]

\* What build_rows does after the loop.
FlushLast(rows, st) ==
    LET begin == IF Len(rows) > log_iter THEN Len(rows) - (Len(rows) % log_iter) ELSE 0
    IN  cache_to_features(rows, begin, st.cache, st.features)

EmptyRow(index) == [k \in DOMAIN index |-> Zero]
EmptyCache(rows, index) ==
    [k \in 1..(IF Len(rows) < log_iter THEN Len(rows) ELSE log_iter) |-> EmptyRow(index)]
EmptyFeatures(nrows, index) == [r \in 1..nrows |-> EmptyRow(index)]

AllRows(nrows) == [r \in 1..nrows |-> r]

build_rows(in, fp, subf, index, rows, feats) ==
    IF index = <<>> THEN feats
    ELSE FlushLast(rows,
            FoldLeft(LAMBDA st, k : BuildNext(in, fp, subf, index, rows, st),
                     [i |-> 0, cache |-> EmptyCache(rows, index), features |-> feats],
                     rows))

\* The numbers of a set, up to n, in order.
Ascending(S, n) == SelectSeq([k \in 1..n |-> k], LAMBDA k : k \in S)

make_subfeature_index(fp, ix, index) ==
    LET used == {k \in ToSet(index) :
                    /\ fp.abstract_features[k].data_used = "subfeatures"
                    /\ fp.abstract_features[k].peripheral = ix}
    IN  Ascending({fp.abstract_features[k].input_col : k \in used},
                  num_features(fp.subfeatures[ix]))

make_subfeature_rownums(in, ph, ix, rows) ==
    Ascending(UNION {ToSet(Matches(in, ph, ix, r)) : r \in ToSet(rows)},
              peripheral(in, ph, ix).nrows)

\* Column k of the result is the subfeature with number k; the others are not
\* there.
expand_subfeatures(feats, index) ==
    [col \in ToSet(index) |->
        [r \in DOMAIN feats |-> feats[r][CHOOSE k \in DOMAIN index : index[k] = col]]]

\* rows is <<>> for all rows, or <<the sample>>.
RECURSIVE transform(_, _, _, _)
build_subfeatures(in, fp, index, rows, Transform(_, _, _, _)) ==
    [i \in DOMAIN fp.subfeatures |->
        IF fp.subfeatures[i] = None THEN <<>>
        ELSE LET sub_index == make_subfeature_index(fp, i, index)
                 sub_rows  == IF rows = <<>> THEN <<>>
                              ELSE <<make_subfeature_rownums(in, fp.placeholder, i,
                                                             rows[1])>>
             IN  expand_subfeatures(
                    Transform(in, fp.subfeatures[i], sub_index, sub_rows), sub_index)]

\* The threads one after the other; TransformStart and BuildRows let them
\* take turns.
transform(in, fp, index, rows) ==
    LET nrows == population(in, fp.placeholder).nrows
        all   == IF rows = <<>> THEN AllRows(nrows) ELSE rows[1]
        subf  == build_subfeatures(in, fp, index, rows, transform)
    IN  FoldLeft(LAMBDA feats, t : build_rows(in, fp, subf, index,
                                              make_rownums(t - 1, all), feats),
                 EmptyFeatures(nrows, index), [t \in 1..num_threads |-> t])

-----------------------------------------------------------------------------
(* RSquared *)

OnSample(col, rows) == [k \in DOMAIN rows |-> col[rows[k]]]

Covariance(t, f, mean_t, mean_f) ==
    Quot(Total([k \in DOMAIN t |-> Mul(Sub(t[k], mean_t), Sub(f[k], mean_f))]),
         Int2Float(Len(t)))

SquaredCorrelation(cross_corr, var_t, var_f) ==
    IF var_t = Zero \/ var_f = Zero THEN Zero
    ELSE Mul(Quot(cross_corr, var_f), Quot(cross_corr, var_t))

Correlation(t, f) ==
    SquaredCorrelation(Covariance(t, f, avg(t), avg(f)), var(t), var(f))

calc_for_target(target, feature, rows) ==
    Correlation(OnSample(target, rows), OnSample(feature, rows))

calc_for_feature(targets, feature, rows) ==
    avg([k \in DOMAIN targets |-> calc_for_target(targets[k], feature, rows)])

calculate(targets, feats, ncols, rows) ==
    [c \in 1..ncols |->
        calc_for_feature(targets, [r \in DOMAIN feats |-> feats[r][c]], rows)]

\* A mutant: one feature too few is kept.
calc_threshold_one_less(in, r) ==
    SortSeq(r, LAMBDA x, y : Less(y, x))[in.num_features]

calc_threshold(in, r) == SortSeq(r, LAMBDA x, y : Less(y, x))[in.num_features + 1]

-----------------------------------------------------------------------------
(* Importances: a function from [marker, table, column] to Float *)

add_to_importances(importances, desc, value) ==
    IF desc \in DOMAIN importances
    THEN [importances EXCEPT ![desc] = Add(@, value)]
    ELSE (desc :> value) @@ importances

ColumnDescription(marker, df, role, ix) ==
    [marker |-> marker, table |-> df.name, column |-> columns(df, role)[ix].name]

Half == Q(1, 2)

\* The columns a feature rests on, with their shares.
infer_importance(in, fp, af, factor) ==
    LET pop == population(in, fp.placeholder)
        per == peripheral(in, fp.placeholder, af.peripheral)
        two(role) ==
            << <<ColumnDescription("[PERIPHERAL]", per, role, af.input_col),
                 Mul(factor, Half)>>,
               <<ColumnDescription("[POPULATION]", pop, role, af.output_col),
                 Mul(factor, Half)>> >>
    IN  CASE af.data_used \in {"categorical", "discrete", "numerical"} ->
                 << <<ColumnDescription("[PERIPHERAL]", per, af.data_used,
                                        af.input_col), factor>> >>
          [] af.data_used \in {"na", "subfeatures"} -> <<>>
          [] af.data_used = "same_units_categorical" -> two("categorical")
          [] af.data_used \in {"same_units_discrete", "same_units_discrete_ts"} ->
                 two("discrete")
          [] af.data_used \in {"same_units_numerical", "same_units_numerical_ts"} ->
                 two("numerical")

\* The factors of the features of joined table i's FastProp.
SubimportanceFactors(fp, i, factors) ==
    [c \in 1..num_features(fp.subfeatures[i]) |->
        FoldLeft(LAMBDA sum_, k :
                    LET af == fp.abstract_features[k]
                    IN  IF af.data_used = "subfeatures" /\ af.peripheral = i
                           /\ af.input_col = c
                        THEN Add(sum_, factors[k]) ELSE sum_,
                 Zero, [k \in DOMAIN factors |-> k])]

transfer_population(importances) ==
    LET moved(d) == [d EXCEPT !.marker = "[PERIPHERAL]"]
    IN  FoldFunctionOnSet(LAMBDA p, acc : add_to_importances(acc, moved(p[1]), p[2]),
                          [n \in {} |-> Zero],
                          [d \in DOMAIN importances |-> <<d, importances[d]>>],
                          DOMAIN importances)

AddPairs(importances, pairs) ==
    FoldLeft(LAMBDA acc, p : add_to_importances(acc, p[1], p[2]), importances, pairs)

Merged(importances, others) ==
    FoldFunctionOnSet(LAMBDA p, acc : add_to_importances(acc, p[1], p[2]), importances,
                      [d \in DOMAIN others |-> <<d, others[d]>>], DOMAIN others)

TransferredIf(is_subfeatures, importances) ==
    IF is_subfeatures THEN transfer_population(importances) ELSE importances

RECURSIVE column_importances(_, _, _, _)
column_importances(in, fp, factors, is_subfeatures) ==
    LET own  == AddPairs([n \in {} |-> Zero], ForEach(Len(factors), LAMBDA k :
                    infer_importance(in, fp, fp.abstract_features[k], factors[k])))
        sub(i) == column_importances(in, fp.subfeatures[i],
                                     SubimportanceFactors(fp, i, factors), TRUE)
        WithSub(acc, i) ==
            IF fp.subfeatures[i] = None THEN acc ELSE Merged(acc, sub(i))
    IN  TransferredIf(is_subfeatures,
                      FoldLeft(WithSub, own, [i \in DOMAIN fp.subfeatures |-> i]))

-----------------------------------------------------------------------------
(* SQL *)

RECURSIVE to_sql(_, _, _)
subfeatures_to_sql(in, fp, prefix, ToSql(_, _, _)) ==
    ForEach(Len(fp.subfeatures), LAMBDA i :
        IF fp.subfeatures[i] = None THEN <<>>
        ELSE ToSql(in, fp.subfeatures[i], prefix \o <<i>>))

to_sql(in, fp, prefix) ==
    subfeatures_to_sql(in, fp, prefix, to_sql)
    \o [k \in DOMAIN fp.abstract_features |->
          LET af == fp.abstract_features[k]
          IN  FeatureToSql(af, peripheral(in, fp.placeholder, af.peripheral),
                           population(in, fp.placeholder),
                           fp.placeholder.joined[af.peripheral], prefix, k)]

-----------------------------------------------------------------------------
(* The actions *)

Candidates == fast_prop.abstract_features
All(fp)    == [k \in DOMAIN fp.abstract_features |-> k]
Targets    == population(inst, inst.placeholder).targets
NRows      == population(inst, inst.placeholder).nrows

\* sample_from_population: the seed is fixed, the sample may be any.
Init ==
    /\ inst \in Instances
    /\ \E sample \in SUBSET (1..NRows) :
          /\ Cardinality(sample) >= inst.min_sample
          /\ rownums = Ascending(sample, NRows)
    /\ phase = "r_squared"
    /\ fast_prop = FitCandidates(inst, inst.placeholder)
    /\ r_squared = <<>>
    /\ subfeatures = <<>> /\ features = <<>> /\ threads = <<>>

\* select_features returns at once where there are not too many candidates.
SkipSelection ==
    /\ phase = "r_squared"
    /\ num_features(fast_prop) <= inst.num_features
    /\ phase' = "transform"
    /\ UNCHANGED <<inst, rownums, fast_prop, r_squared, subfeatures, features, threads>>

\* One round of the loop of calc_r_squared.
calc_r_squared ==
    LET begin == Len(r_squared)
        end   == IF begin + batch_size < num_features(fast_prop)
                 THEN begin + batch_size ELSE num_features(fast_prop)
        index == [k \in 1..end - begin |-> begin + k]
        feats == transform(inst, fast_prop, index, <<rownums>>)
    IN  /\ phase = "r_squared"
        /\ num_features(fast_prop) > inst.num_features
        /\ begin < num_features(fast_prop)
        /\ r_squared' = r_squared \o calculate(Targets, feats, Len(index), rownums)
        /\ phase' = IF end = num_features(fast_prop) THEN "select" ELSE phase
        /\ UNCHANGED <<inst, rownums, fast_prop, subfeatures, features, threads>>

\* The members of a sequence at the places that pass the test.
KeptOf(seq, Test(_)) ==
    FoldLeftDomain(LAMBDA kept, k : IF Test(k) THEN Append(kept, seq[k]) ELSE kept, <<>>, seq)

select_features ==
    LET threshold == calc_threshold(inst, r_squared)
    IN  /\ phase = "select"
        /\ fast_prop' = [fast_prop EXCEPT !.abstract_features =
                            KeptOf(@, LAMBDA k : Less(threshold, r_squared[k]))]
        /\ phase' = "transform"
        /\ UNCHANGED <<inst, rownums, r_squared, subfeatures, features, threads>>

\* transform, up to spawn_threads; it makes all features for all rows.
TransformStart ==
    LET index == All(fast_prop)
    IN  /\ phase = "transform" /\ threads = <<>>
        /\ subfeatures' = build_subfeatures(inst, fast_prop, index, <<>>, transform)
        /\ features' = EmptyFeatures(NRows, index)
        /\ threads' = [t \in Threads |->
              [i |-> 0, cache |-> EmptyCache(make_rownums(t, AllRows(NRows)), index),
               finished |-> index = <<>>]]
        /\ UNCHANGED <<inst, rownums, phase, fast_prop, r_squared>>

Rows(t) == make_rownums(t, AllRows(NRows))
State(t) == [i |-> threads[t].i, cache |-> threads[t].cache, features |-> features]

BuildRow(t) ==
    /\ phase = "transform" /\ threads # <<>>
    /\ ~threads[t].finished /\ threads[t].i < Len(Rows(t))
    /\ \E st \in {BuildNext(inst, fast_prop, subfeatures, All(fast_prop), Rows(t), State(t))} :
          /\ features' = st.features
          /\ threads' = [threads EXCEPT ![t] = [@ EXCEPT !.i = st.i, !.cache = st.cache]]
    /\ UNCHANGED <<inst, rownums, phase, fast_prop, r_squared, subfeatures>>

FinishThread(t) ==
    /\ phase = "transform" /\ threads # <<>>
    /\ ~threads[t].finished /\ threads[t].i = Len(Rows(t))
    /\ features' = FlushLast(Rows(t), State(t))
    /\ threads' = [threads EXCEPT ![t].finished = TRUE]
    /\ UNCHANGED <<inst, rownums, phase, fast_prop, r_squared, subfeatures>>

\* spawn_threads has joined the threads.
TransformEnd ==
    /\ phase = "transform" /\ threads # <<>>
    /\ \A t \in Threads : threads[t].finished
    /\ phase' = "done"
    /\ UNCHANGED <<inst, rownums, fast_prop, r_squared, subfeatures, features, threads>>

Next ==
    \/ SkipSelection \/ calc_r_squared \/ select_features \/ TransformStart
    \/ \E t \in Threads : BuildRow(t)
    \/ \E t \in Threads : FinishThread(t)
    \/ TransformEnd

Spec == Init /\ [][Next]_vars

-----------------------------------------------------------------------------
(* Properties *)

TypeOK ==
    /\ phase \in {"r_squared", "select", "transform", "done"}
    /\ Len(r_squared) <= num_features(FitCandidates(inst, inst.placeholder))
    /\ DOMAIN features \in {{}, 1..NRows}
    /\ \A r \in DOMAIN features : DOMAIN features[r] = DOMAIN Candidates
    /\ threads # <<>> => FlattenSeq([t \in 1..num_threads |-> Rows(t - 1)]) = AllRows(NRows)

\* The features are what the SQL code of the FastProp computes: whatever
\* conditions, memorized values, subfeatures built only where they are needed,
\* caches and threads have done to them.
FeaturesAreWhatTheSQLSays ==
    phase = "done" =>
        LET tables == ExecuteAll(to_sql(inst, fast_prop, <<>>))
        IN  \A r \in 1..NRows, k \in DOMAIN Candidates :
                features[r][k] = Coalesced(tables, <<k>>, r)

BetterThanDropped(kept, dropped) ==
    \A k \in kept, d \in dropped : Less(r_squared[d], r_squared[k])

BestOfAll(all) ==
    /\ LET IsKept(k) == \E i \in DOMAIN Candidates : Candidates[i] = all[k]
       IN  BetterThanDropped({k \in DOMAIN all : IsKept(k)}, {k \in DOMAIN all : ~IsKept(k)})
    /\ Cardinality({r_squared[k] : k \in DOMAIN all}) = Len(all)
            => Len(Candidates) = inst.num_features

\* No candidate that was dropped is better than one that was kept, and no
\* more are kept than were asked for.
TheBestFeaturesAreKept ==
    (phase \in {"transform", "done"} /\ r_squared # <<>>) =>
        /\ Len(Candidates) <= inst.num_features
        /\ BestOfAll(FitCandidates(inst, inst.placeholder).abstract_features)

\* The features that no column explains: counts, times between rows, and
\* features of such subfeatures.
RECURSIVE Unexplained(_, _)
Unexplained(fp, af) ==
    \/ af.data_used = "na"
    \/ /\ af.data_used = "subfeatures"
       /\ Unexplained(fp.subfeatures[af.peripheral],
                      fp.subfeatures[af.peripheral].abstract_features[af.input_col])

TotalOf(importances) == FoldFunctionOnSet(Add, Zero, importances, DOMAIN importances)

\* Every importance factor reaches the columns its feature is made of, through
\* all levels of subfeatures, and none reaches them twice.
ImportancesArePreserved ==
    phase = "done" =>
        LET factors == [k \in DOMAIN Candidates |-> Int2Float(2 * k)]
            share(k) == IF Unexplained(fast_prop, Candidates[k]) THEN Zero ELSE factors[k]
        IN  TotalOf(column_importances(inst, fast_prop, factors, FALSE))
              = Total([k \in DOMAIN Candidates |-> share(k)])

=============================================================================
