------------------------------ MODULE Learners ------------------------------
(***************************************************************************)
(* What a pipeline is fitted with: data frames as the pipeline sees them,  *)
(* the fingerprints under which the trackers keep what was fitted          *)
(* (commands::Fingerprint, dependency::Tracker), feature learners          *)
(* (FeatureLearner), and predictors with the implementation that says      *)
(* which columns they are fed (PredictorImpl, Predictors).                 *)
(*                                                                         *)
(* Data is symbolic: the content of a frame, of a feature and of whatever  *)
(* was learned is a term that names the operation and all it was applied   *)
(* to, so that two of them are equal exactly if they were computed the     *)
(* same way from the same data.                                            *)
(*                                                                         *)
(* A frame is [name, last_change, build_history, columns, content], a      *)
(* column [name, role, unit, subroles, null, whole, n]: whether it holds a *)
(* null, whether all its numbers are whole, and how many values there are. *)
(* A feature is [id, content, null, n].  Column names are sequences of     *)
(* tokens, as in Macros.                                                   *)
(***************************************************************************)
EXTENDS Macros, FiniteSetsExt

CONSTANTS
    Weight(_, _),       \* the importance of an input column to what a predictor learned
    FeatureColumn(_, _) \* the column a feature of a feature learner is made of

None == <<>>

-----------------------------------------------------------------------------
(* containers::DataFrame *)

columns_of(df, role) == SelectSeq(df.columns, LAMBDA c : c.role = role)
names_of(cols) == [i \in DOMAIN cols |-> cols[i].name]

column_named(df, name) == df.columns[SelectInSeq(df.columns, LAMBDA c : c.name = name)]

num_targets(df) == Len(columns_of(df, "target"))

\* The numbers of a column without fractions are discrete, if asked for.
to_schema(df, separate_discrete) ==
    LET discrete(c) == separate_discrete /\ c.whole
        numericals  == columns_of(df, "numerical")
    IN  [name         |-> df.name,
         categoricals |-> names_of(columns_of(df, "categorical")),
         discretes    |-> names_of(SelectSeq(numericals, discrete)),
         numericals   |-> names_of(SelectSeq(numericals, LAMBDA c : ~discrete(c))),
         text         |-> names_of(columns_of(df, "text")),
         targets      |-> names_of(columns_of(df, "target"))]

fingerprint_of_frame(df) ==
    IF df.build_history # None THEN df.build_history
    ELSE <<"OrdinaryDataFrame", df.name, df.last_change>>

fingerprints_of(dfs) == [i \in DOMAIN dfs |-> fingerprint_of_frame(dfs[i])]

-----------------------------------------------------------------------------
(* dependency::Tracker, DataFrameTracker.  The trackers look an element up    *)
(* by a hash and compare the fingerprint itself, so they are functions of it. *)

add(tracker, elem) == (elem.fingerprint :> elem) @@ tracker

retrieve(tracker, fingerprint) ==
    IF fingerprint \in DOMAIN tracker THEN tracker[fingerprint] ELSE None

make_build_history(dependencies, population_df, peripheral_dfs) ==
    <<"PipelineBuildHistory", dependencies,
      <<fingerprint_of_frame(population_df)>> \o fingerprints_of(peripheral_dfs)>>

\* The pair names a frame; it counts only if it has not been changed since.
get_df(pairs, build_history, data_frames) ==
    LET pair == pairs[build_history]
    IN  IF /\ build_history \in DOMAIN pairs
           /\ pair.name \in DOMAIN data_frames
           /\ data_frames[pair.name].last_change = pair.last_change
        THEN data_frames[pair.name] ELSE None

clean_up(pairs, data_frames) ==
    Restrict(pairs, {h \in DOMAIN pairs : get_df(pairs, h, data_frames) # None})

add_frame(pairs, df, build_history, data_frames) ==
    (build_history :> [name |-> df.name, last_change |-> df.last_change])
        @@ clean_up(pairs, data_frames)

retrieve_frame(pairs, data_frames, dependencies, population_df, peripheral_dfs) ==
    get_df(pairs, make_build_history(dependencies, population_df, peripheral_dfs),
           data_frames)

-----------------------------------------------------------------------------
(* predictors::PredictorImpl: the features are the autofeatures of every     *)
(* feature learner, then the numerical and the categorical columns.          *)

PredictorImpl(num_autofeatures, categorical_colnames, numerical_colnames) ==
    [autofeatures |-> [i \in DOMAIN num_autofeatures |->
                          [k \in 1..num_autofeatures[i] |-> k]],
     categorical_colnames |-> categorical_colnames,
     numerical_colnames   |-> numerical_colnames,
     encodings            |-> <<>>]

num_autofeatures(impl) ==
    FoldLeft(LAMBDA n, vec : n + Len(vec), 0, impl.autofeatures)

num_manual_features(impl) ==
    Len(impl.categorical_colnames) + Len(impl.numerical_colnames)

\* The columns whose place, counted from ix_begin, is among the first n_selected.
select_cols(n_selected, index, ix_begin, cols) ==
    LET selected == {index[k] : k \in 1..n_selected}
    IN  FoldLeftDomain(LAMBDA acc, i :
            IF ix_begin + i \in selected THEN Append(acc, cols[i]) ELSE acc, <<>>, cols)

\* From the last columns to the first: what precedes shrinks accordingly.
select_features(impl, n_selected, index) ==
    LET preceding(i) == FoldLeft(LAMBDA n, vec : n + Len(vec), 0,
                                 SubSeq(impl.autofeatures, 1, i - 1))
        autos == num_autofeatures(impl)
    IN  [impl EXCEPT
          !.encodings = <<>>,
          !.categorical_colnames =
              select_cols(n_selected, index, autos + Len(impl.numerical_colnames), @),
          !.numerical_colnames = select_cols(n_selected, index, autos, @),
          !.autofeatures = [i \in DOMAIN @ |->
              select_cols(n_selected, index, preceding(i), @[i])]]

fit_encodings(impl, X_categorical) ==
    [impl EXCEPT !.encodings =
        [i \in DOMAIN X_categorical |-> [of |-> X_categorical[i].content,
                                         n  |-> X_categorical[i].n]]]

\* [ok, X]: one encoding for every column, or the call is refused.
transform_encodings(impl, X_categorical) ==
    IF Len(X_categorical) # Len(impl.encodings) THEN [ok |-> FALSE, X |-> <<>>]
    ELSE [ok |-> TRUE,
          X  |-> [i \in DOMAIN X_categorical |->
                    [X_categorical[i] EXCEPT
                        !.content = <<"encoded", impl.encodings[i].of, @>>,
                        !.n = impl.encodings[i].n]]]

\* What stands for one column after its values became columns of their own.
make_csr(X_categorical, X_numerical) ==
    FlattenSeq([i \in 1..Len(X_numerical) + Len(X_categorical) |->
        IF i <= Len(X_numerical) THEN <<X_numerical[i].id>>
        ELSE [k \in 1..X_categorical[i - Len(X_numerical)].n |->
                X_categorical[i - Len(X_numerical)].id]])

Total(values) == FoldLeft(LAMBDA a, b : a + b, 0, values)

\* The columns of a categorical feature become one again.
compress_importances(impl, all_importances) ==
    LET n_dense == num_autofeatures(impl) + Len(impl.numerical_colnames)
        begin(i) == n_dense + Total([k \in 1..i - 1 |-> impl.encodings[k].n])
    IN  SubSeq(all_importances, 1, n_dense)
        \o [i \in DOMAIN impl.encodings |->
              Total(SubSeq(all_importances, begin(i) + 1,
                           begin(i) + impl.encodings[i].n))]

check_plausibility(X_categorical, X_numerical) ==
    X_categorical # <<>> \/ X_numerical # <<>>

-----------------------------------------------------------------------------
(* predictors::Predictor.  cmd is [name, classification].                    *)

new_predictor(cmd, impl, dependencies) ==
    [cmd         |-> cmd,
     impl        |-> impl,
     fingerprint |-> <<"Predictor", cmd, dependencies, impl.autofeatures,
                       impl.categorical_colnames, impl.numerical_colnames>>,
     csr         |-> <<>>,
     learned     |-> None]

fit_predictor(p, X_categorical, X_numerical, y, valid) ==
    [p EXCEPT !.csr = make_csr(X_categorical, X_numerical),
              !.learned = <<"predictor", p.cmd.name, X_numerical, X_categorical, y, valid>>]

predict(p, X_categorical, X_numerical) ==
    <<"prediction", p.learned, X_numerical, X_categorical>>

importances_of(p) ==
    compress_importances(p.impl, [k \in DOMAIN p.csr |-> Weight(p.learned, p.csr[k])])

-----------------------------------------------------------------------------
(* pipelines::Predictors: [impl, predictors], predictors[target][i].         *)

autofeature_names(predictors) ==
    FlattenSeq([i \in DOMAIN predictors.impl.autofeatures |->
        [k \in DOMAIN predictors.impl.autofeatures[i] |->
            <<"feature_", ToString(i), ToString(predictors.impl.autofeatures[i][k])>>]])

\* The names of the autofeatures, of the numerical and of the categorical columns.
feature_names(predictors) ==
    <<autofeature_names(predictors),
      [i \in DOMAIN predictors.impl.numerical_colnames |->
          make_staging_table_colname(predictors.impl.numerical_colnames[i])],
      [i \in DOMAIN predictors.impl.categorical_colnames |->
          make_staging_table_colname(predictors.impl.categorical_colnames[i])]>>

num_features(predictors) ==
    num_autofeatures(predictors.impl) + num_manual_features(predictors.impl)

num_predictors_per_set(predictors) ==
    IF predictors.predictors = <<>> THEN 0 ELSE Len(predictors.predictors[1])

-----------------------------------------------------------------------------
(* featurelearners::FeatureLearner.  hyp is [name, num_features,             *)
(* supports_multiple_targets, classification, subfeatures, needs_targets],   *)
(* needs_targets[i]: are the targets of the i-th peripheral table used?      *)

USE_ALL_TARGETS == -1
IGNORE_TARGETS  == -2

fl_fingerprint(hyp, params) ==
    <<"FeatureLearner", hyp, params.dependencies, params.peripheral, params.placeholder,
      params.target_num>>

\* params is FeatureLearnerParams.
new_feature_learner(hyp, params) ==
    [hyp               |-> hyp,
     target_num        |-> params.target_num,
     fingerprint       |-> fl_fingerprint(hyp, params),
     population_schema |-> params.population_schema,
     peripheral_schema |-> params.peripheral_schema,
     fast_prop         |-> None,
     vocabulary        |-> None,
     learned           |-> None]

\* FastProp is the only feature learner there is.
parse_subroles(subroles) ==
    subroles \cap {"exclude feature learners", "email only", "substring only",
                   "exclude fastprop"} = {}

Included(df, names, apply_subroles) ==
    SelectSeq(names, LAMBDA n : ~apply_subroles \/ parse_subroles(column_named(df, n).subroles))

include_target(schema, target_num, name) ==
    /\ target_num # IGNORE_TARGETS
    /\ target_num >= 0 => schema.targets[target_num + 1] = name

\* [ok, schema, content]: refused if a target it needs is not there.
extract_table_by_colnames(schema, df, target_num, apply_subroles) ==
    LET targets == SelectSeq(schema.targets, LAMBDA n : include_target(schema, target_num, n))
        s == [schema EXCEPT !.categoricals = Included(df, @, apply_subroles),
                            !.discretes    = Included(df, @, apply_subroles),
                            !.numericals   = Included(df, @, apply_subroles),
                            !.text         = Included(df, @, apply_subroles),
                            !.targets      = targets]
    IN  [ok      |-> \A i \in DOMAIN targets :
                        Contains(names_of(columns_of(df, "target")), targets[i]),
         schema  |-> s,
         content |-> <<"table", s, df.content>>]

\* The needs of the text tables that preprocessing added are those of the population.
infer_needs_targets(fl) ==
    fl.hyp.needs_targets
    \o [i \in 1..Len(fl.peripheral_schema) - Len(fl.hyp.needs_targets) |-> FALSE]

TablesIf(fits, pop, per) ==
    [ok         |-> fits /\ pop.ok /\ \A i \in DOMAIN per : per[i].ok,
     population |-> pop,
     peripheral |-> IF fits THEN per ELSE <<>>]

extract_tables_by_colnames(fl, pop_df, dfs, pop_schema, schemas, apply_subroles, targets) ==
    TablesIf(Len(schemas) = Len(dfs),
        extract_table_by_colnames(pop_schema, pop_df,
            IF targets THEN fl.target_num ELSE IGNORE_TARGETS, apply_subroles),
        [i \in DOMAIN schemas |->
            extract_table_by_colnames(schemas[i], dfs[i],
                IF infer_needs_targets(fl)[i] THEN USE_ALL_TARGETS ELSE IGNORE_TARGETS,
                apply_subroles)])

\* The words of the text columns, and the rows they occur in.
handle_text_fields(tables) ==
    LET text(t) == IF t.schema.text = <<>> THEN None ELSE <<"words", t.content>>
    IN  [vocabulary   |-> <<"vocabulary", text(tables.population),
                            [i \in DOMAIN tables.peripheral |-> text(tables.peripheral[i])]>>,
         word_indices |-> <<text(tables.population),
                            [i \in DOMAIN tables.peripheral |-> text(tables.peripheral[i])]>>]

contents_of(tables) == [i \in DOMAIN tables |-> tables[i].content]

\* The schemas the learner keeps are those of the tables it was fitted on.
FittedOn(fl, tables, text) ==
    [fl EXCEPT
        !.population_schema = tables.population.schema,
        !.peripheral_schema = [i \in DOMAIN tables.peripheral |-> tables.peripheral[i].schema],
        !.vocabulary = text.vocabulary,
        !.learned = <<"fl", fl.hyp.name, tables.population.content,
                      contents_of(tables.peripheral), text.word_indices>>]

FitOn(fl, tables) ==
    [ok |-> tables.ok, fl |-> FittedOn(fl, tables, handle_text_fields(tables))]

\* [ok, fl]
fit_feature_learner(fl, population_df, peripheral_dfs) ==
    FitOn(fl, extract_tables_by_colnames(fl, population_df, peripheral_dfs,
                  fl.population_schema, fl.peripheral_schema, TRUE, TRUE))

\* [ok, features]: the features of the index, from the tables as they were fitted.
FeaturesFrom(fl, index, prefix, tables) ==
    [ok       |-> tables.ok,
     features |-> [k \in DOMAIN index |->
        [id      |-> <<"feature_", ToString(prefix), ToString(index[k])>>,
         content |-> <<"feature", fl.learned, index[k], tables.population.content,
                       contents_of(tables.peripheral)>>,
         null    |-> FALSE, n |-> 1]]]

transform_feature_learner(fl, index, prefix, population_df, peripheral_dfs) ==
    FeaturesFrom(fl, index, prefix,
        extract_tables_by_colnames(fl, population_df, peripheral_dfs,
            fl.population_schema, fl.peripheral_schema, FALSE, FALSE))

\* The importances of the features become those of the columns they are made of.
fl_column_importances(fl, importance_factors) ==
    FoldLeftDomain(LAMBDA imp, ix :
        IF importance_factors[ix] > 0
        THEN add_to_importances(imp, FeatureColumn(fl.hyp.name, ix), importance_factors[ix])
        ELSE imp, <<>>, importance_factors)

\* The code of the subfeatures, then that of all features.
fl_to_sql(fl, prefix) ==
    [k \in 1..fl.hyp.subfeatures + fl.hyp.num_features |->
        IF k <= fl.hyp.subfeatures
        THEN <<"subfeature_", ToString(prefix), ToString(k)>>
        ELSE <<"feature_", ToString(prefix), ToString(k - fl.hyp.subfeatures)>>]
=============================================================================
