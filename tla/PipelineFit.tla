---------------------------- MODULE PipelineFit ----------------------------
(***************************************************************************)
(* Fitting a pipeline, transforming, predicting and scoring with it        *)
(* (engine/pipelines: fit, transform, score, check, load_fitted, to_sql;   *)
(* handlers::PipelineManager), and the trackers from which preprocessors,  *)
(* feature learners, predictors and whole tables of features that were     *)
(* computed before are taken again.  Locking is the subject of Pipelines,  *)
(* the columns that staging adds that of Staging, the preprocessors        *)
(* themselves that of Preprocessors.                                       *)
(*                                                                         *)
(* A pipeline is [obj, fitted, scores]; obj is [data_model, peripheral,    *)
(* placeholder, preprocessors, feature_learners, feature_selectors,        *)
(* predictors, share, include_categorical], share a percentage.            *)
(* Everything that is fitted in one call is computed by operators over the *)
(* trackers, env = [preprocessor, fe, pred, warning, pairs, data_frames].  *)
(***************************************************************************)
EXTENDS Learners

CONSTANTS
    Objs,         \* pipeline name -> obj
    FrameVersions,\* frame name -> set of [columns, content] it can be given
    Calls,        \* set of [population, peripheral, validation], names of frames
    Outputs,      \* names transform may store a frame under
    MaxSteps      \* number of calls

VARIABLES
    pipelines,   \* name -> pipeline
    data_frames, \* name -> frame
    pairs,       \* the frames on record: build history -> [name, last_change]
    trackers,    \* what was fitted: fingerprint -> element
    answer,      \* the last call and what it returned
    reopened,    \* ghost: the fingerprints of predictors that were loaded without that
                 \* of the frame they were validated with
    steps        \* the calls so far

vars == <<pipelines, data_frames, pairs, trackers, answer, reopened, steps>>

NoTrackers == [preprocessor |-> <<>>, fe |-> <<>>, pred |-> <<>>, warning |-> <<>>]

-----------------------------------------------------------------------------
(* Staging and preprocessors, as terms *)

contents(dfs) == [i \in DOMAIN dfs |-> dfs[i].content]

staged(obj, population_df, peripheral_dfs) ==
    [population_df EXCEPT !.content =
        <<"staged", obj.data_model, @, contents(peripheral_dfs)>>]

\* A preprocessor is [cmd, fingerprint, learned], cmd [name, mapping, adds], adds
\* the categorical columns it adds to the population.
preprocessor(cmd, dependencies) ==
    [cmd |-> cmd, fingerprint |-> <<"Preprocessor", cmd, dependencies>>, learned |-> None]

fit_preprocessor(p, population_df, peripheral_dfs) ==
    [p EXCEPT !.learned = <<"preprocessor", p.cmd.name, population_df.content,
                            contents(peripheral_dfs)>>]

transform_frame(p, df) ==
    [df EXCEPT !.content = <<"transformed", p.learned, @>>]

add_column(df, col) ==
    [df EXCEPT !.columns = Append(SelectSeq(@, LAMBDA c : c.name # col.name), col)]

new_column(name, role, content) ==
    [name |-> name, role |-> role, unit |-> "", subroles |-> {}, null |-> FALSE,
     whole |-> FALSE, n |-> 2, content |-> content]

\* [population, peripheral]
transform_preprocessor(p, population_df, peripheral_dfs) ==
    [population |-> FoldLeft(LAMBDA df, name :
            add_column(df, new_column(name, "categorical",
                                      <<"made", p.learned, population_df.content>>)),
        transform_frame(p, population_df), p.cmd.adds),
     peripheral |-> [i \in DOMAIN peripheral_dfs |->
                        transform_frame(p, peripheral_dfs[i])]]

-----------------------------------------------------------------------------
(* fit.cpp: preprocessors and feature learners *)

extract_df_fingerprints(obj, population_df, peripheral_dfs) ==
    <<<<"DataModel", obj.data_model>>, fingerprint_of_frame(population_df)>>
        \o fingerprints_of(peripheral_dfs)

\* What was fitted stands for what it depended on, if there is any of it.
extract_fingerprints(elems, dependencies) ==
    IF elems = <<>> THEN dependencies
    ELSE [i \in DOMAIN elems |-> elems[i].fingerprint]

extract_predictor_fingerprints(predictors, dependencies) ==
    IF predictors = <<>> \/ predictors[1] = <<>> THEN dependencies
    ELSE [i \in DOMAIN FlattenSeq(predictors) |-> FlattenSeq(predictors)[i].fingerprint]

extract_schemata(population_df, peripheral_dfs, separate_discrete) ==
    [population |-> to_schema(population_df, separate_discrete),
     peripheral |-> [i \in DOMAIN peripheral_dfs |->
                        to_schema(peripheral_dfs[i], separate_discrete)]]

\* The mappings come last; every preprocessor depends on the ones before it.
init_preprocessors(obj, dependencies) ==
    LET cmds == SelectSeq(obj.preprocessors, LAMBDA c : ~c.mapping)
                \o SelectSeq(obj.preprocessors, LAMBDA c : c.mapping)
        before(i) == [k \in 1..i - 1 |-> <<"Preprocessor", cmds[k], dependencies>>]
    IN  [i \in DOMAIN cmds |-> preprocessor(cmds[i], dependencies \o before(i))]

WithPreprocessor(acc, q, tracker) ==
    LET t == transform_preprocessor(q, acc.population, acc.peripheral)
    IN  [preprocessors |-> Append(acc.preprocessors, q),
         population    |-> t.population,
         peripheral    |-> t.peripheral,
         tracker       |-> tracker]

FitUnlessKnown(acc, p, known) ==
    IF known # None THEN <<known, acc.tracker>>
    ELSE LET q == fit_preprocessor(p, acc.population, acc.peripheral)
         IN  <<q, add(acc.tracker, q)>>

WithPair(acc, pair) == WithPreprocessor(acc, pair[1], pair[2])

fit_transform_preprocessors(obj, dependencies, population_df, peripheral_dfs, tracker) ==
    FoldLeft(LAMBDA acc, p :
        WithPair(acc, FitUnlessKnown(acc, p, retrieve(acc.tracker, p.fingerprint))),
        [preprocessors |-> <<>>, population |-> population_df,
         peripheral |-> peripheral_dfs, tracker |-> tracker],
        init_preprocessors(obj, dependencies))

WithFingerprints(r, df_fingerprints) ==
    r @@ [df_fingerprints |-> df_fingerprints,
          preprocessor_fingerprints |-> extract_fingerprints(r.preprocessors, df_fingerprints)]

fit_preprocessors_only(obj, population_df, peripheral_dfs, tracker) ==
    LET df_fingerprints == extract_df_fingerprints(obj, population_df, peripheral_dfs)
    IN  WithFingerprints(
            fit_transform_preprocessors(obj, df_fingerprints,
                staged(obj, population_df, peripheral_dfs), peripheral_dfs, tracker),
            df_fingerprints)

feature_learner_params(obj, dependencies, schemata) ==
    [dependencies      |-> dependencies,
     peripheral        |-> obj.peripheral,
     placeholder       |-> obj.placeholder,
     population_schema |-> schemata.population,
     peripheral_schema |-> schemata.peripheral,
     target_num        |-> USE_ALL_TARGETS]

\* One learner for all targets or one for each.
init_feature_learners(obj, params, n_targets) ==
    FlattenSeq([i \in DOMAIN obj.feature_learners |->
        IF obj.feature_learners[i].supports_multiple_targets
        THEN <<new_feature_learner(obj.feature_learners[i], params)>>
        ELSE [t \in 1..n_targets |->
                new_feature_learner(obj.feature_learners[i],
                                    [params EXCEPT !.target_num = t - 1])]])

\* Learners that were fitted stay in the tracker if a later one fails.
WithLearner(acc, r) ==
    IF ~r.ok THEN [acc EXCEPT !.ok = FALSE]
    ELSE [acc EXCEPT !.feature_learners = Append(@, r.fl), !.tracker = add(@, r.fl)]

FitLearnerUnlessKnown(acc, fl, known, population_df, peripheral_dfs) ==
    IF ~acc.ok THEN acc
    ELSE IF known # None THEN [acc EXCEPT !.feature_learners = Append(@, known)]
    ELSE WithLearner(acc, fit_feature_learner(fl, population_df, peripheral_dfs))

fit_feature_learners(obj, params, population_df, peripheral_dfs, tracker) ==
    FoldLeft(LAMBDA acc, fl :
        FitLearnerUnlessKnown(acc, fl, retrieve(acc.tracker, fl.fingerprint),
                              population_df, peripheral_dfs),
        [ok |-> TRUE, feature_learners |-> <<>>, tracker |-> tracker],
        init_feature_learners(obj, params, num_targets(population_df)))

-----------------------------------------------------------------------------
(* transform.cpp: from tables to features *)

apply_preprocessors(preprocessors, population_df, peripheral_dfs) ==
    FoldLeft(LAMBDA acc, p : transform_preprocessor(p, acc.population, acc.peripheral),
             [population |-> population_df, peripheral |-> peripheral_dfs], preprocessors)

manual_feature(df, name) ==
    LET c == column_named(df, name)
    IN  [id |-> name, content |-> c.content, null |-> c.null, n |-> c.n]

get_categorical_features(obj, population_df, impl) ==
    IF ~obj.include_categorical THEN <<>>
    ELSE [i \in DOMAIN impl.categorical_colnames |->
            manual_feature(population_df, impl.categorical_colnames[i])]

get_numerical_features(autofeatures, population_df, impl) ==
    autofeatures \o [i \in DOMAIN impl.numerical_colnames |->
                        manual_feature(population_df, impl.numerical_colnames[i])]

contains_null(features, autofeatures) ==
    \E i \in Len(autofeatures) + 1..Len(features) : features[i].null

WithFeatures(acc, r) == [ok |-> acc.ok /\ r.ok, features |-> acc.features \o r.features]

generate_autofeatures(feature_learners, impl, population_df, peripheral_dfs) ==
    FoldLeftDomain(LAMBDA acc, i :
        WithFeatures(acc, transform_feature_learner(feature_learners[i], impl.autofeatures[i],
                                                    i, population_df, peripheral_dfs)),
        [ok |-> TRUE, features |-> <<>>], feature_learners)

select_autofeatures(autofeatures, feature_learners, impl) ==
    LET offset(i) == Total([k \in 1..i - 1 |-> feature_learners[k].hyp.num_features])
    IN  FlattenSeq([i \in DOMAIN feature_learners |->
            [k \in DOMAIN impl.autofeatures[i] |->
                autofeatures[offset(i) + impl.autofeatures[i][k]]]])

\* Features that were made for the feature selectors are used again.
make_autofeatures(autofeatures, feature_learners, impl, population_df, peripheral_dfs) ==
    IF Len(autofeatures) = num_autofeatures(impl) THEN [ok |-> TRUE, features |-> autofeatures]
    ELSE IF autofeatures # <<>>
    THEN [ok |-> TRUE,
          features |-> select_autofeatures(autofeatures, feature_learners, impl)]
    ELSE generate_autofeatures(feature_learners, impl, population_df, peripheral_dfs)

retrieve_features_from_cache(df) ==
    LET to_feature(c) == [id |-> c.name, content |-> c.content, null |-> c.null, n |-> c.n]
        numericals    == columns_of(df, "numerical")
        categoricals  == columns_of(df, "categorical")
        autos == SelectSeq(numericals, LAMBDA c : c.name[1] = "feature_")
    IN  [error        |-> "",
         numerical    |-> [i \in DOMAIN numericals |-> to_feature(numericals[i])],
         categorical  |-> [i \in DOMAIN categoricals |-> to_feature(categoricals[i])],
         autofeatures |-> [i \in DOMAIN autos |-> to_feature(autos[i])]]

\* p = [obj, env, original_population, original_peripheral, population, peripheral,
\* impl, autofeatures]: the frames as they were passed and as they are now.
FeaturesMade(p, autos, numerical) ==
    [error        |-> IF ~autos.ok THEN "table does not fit"
                      ELSE IF contains_null(numerical, autos.features) THEN "null"
                      ELSE "",
     numerical    |-> numerical,
     categorical  |-> get_categorical_features(p.obj, p.population, p.impl),
     autofeatures |-> autos.features]

FeaturesWith(p, autos) ==
    FeaturesMade(p, autos, get_numerical_features(autos.features, p.population, p.impl))

FeaturesUnlessCached(p, feature_learners, df) ==
    IF df # None THEN retrieve_features_from_cache(df)
    ELSE FeaturesWith(p, make_autofeatures(p.autofeatures, feature_learners, p.impl,
                                           p.population, p.peripheral))

make_features(p, feature_learners, fs_fingerprints) ==
    FeaturesUnlessCached(p, feature_learners,
        retrieve_frame(p.env.pairs, p.env.data_frames, fs_fingerprints,
                       p.original_population, p.original_peripheral))

FeaturesOfFrames(p, t) ==
    make_features([obj |-> p.obj, env |-> p.env,
                   original_population |-> p.original_population,
                   original_peripheral |-> p.original_peripheral,
                   population |-> t.population, peripheral |-> t.peripheral,
                   impl |-> p.impl, autofeatures |-> <<>>],
                  p.feature_learners, p.fs_fingerprints)
    @@ [population |-> t.population]

\* p = [obj, env, original_population, original_peripheral, preprocessors,
\* feature_learners, fs_fingerprints, impl]
transform_features_only(p) ==
    FeaturesOfFrames(p, apply_preprocessors(p.preprocessors,
        staged(p.obj, p.original_population, p.original_peripheral), p.original_peripheral))

generate_predictions(fitted, categorical, numerical) ==
    [t \in DOMAIN fitted.predictors.predictors |->
        <<"mean", [j \in DOMAIN fitted.predictors.predictors[t] |->
                    predict(fitted.predictors.predictors[t][j], categorical, numerical)]>>]

-----------------------------------------------------------------------------
(* score.cpp *)

AddUp(v, w) == [i \in DOMAIN v |-> v[i] + w[i]]

\* The mean over the predictors of a target.
feature_importances(predictors) ==
    [t \in DOMAIN predictors.predictors |->
        LET set == predictors.predictors[t]
            zero == [i \in 1..num_features(predictors) |-> 0]
        IN  [i \in DOMAIN zero |->
                IF set = <<>> THEN 0
                ELSE FoldLeft(LAMBDA acc, p : AddUp(acc, importances_of(p)), zero, set)[i]
                        \div Len(set)]]

make_importance_factors(n_features, autofeatures, f_imp) ==
    [ix \in 1..n_features |->
        IF Contains(autofeatures, ix) THEN f_imp[SelectInSeq(autofeatures, LAMBDA a : a = ix)]
                ELSE 0]

column_importances_auto(fitted, f_imp) ==
    LET autos    == fitted.predictors.impl.autofeatures
        begin(j) == Total([k \in 1..j - 1 |-> Len(autos[k])])
    IN  FoldLeftDomain(LAMBDA imp, j :
            merge(imp, fl_column_importances(fitted.feature_learners[j],
                make_importance_factors(fitted.feature_learners[j].hyp.num_features, autos[j],
                    SubSeq(f_imp, begin(j) + 1, begin(j) + Len(autos[j]))))),
            <<>>, fitted.feature_learners)

column_importances_manual(obj, fitted, f_imp, imp) ==
    LET impl  == fitted.predictors.impl
        names == impl.numerical_colnames \o impl.categorical_colnames
    IN  FoldLeftDomain(LAMBDA acc, i :
            add_to_importances(acc, [marker |-> "[POPULATION]", table |-> obj.data_model,
                                     name |-> names[i]],
                               f_imp[num_autofeatures(impl) + i]),
            imp, names)

\* Every target gets the columns of all targets.
fill_all_zeros(makers) ==
    LET all == UNION {DOMAIN makers[t] : t \in DOMAIN makers}
    IN  [t \in DOMAIN makers |-> makers[t] @@ [desc \in all |-> 0]]

extract_coldesc(makers) == IF makers = <<>> THEN <<>> ELSE SetToSeq(DOMAIN makers[1])

extract_importance_values(maker) ==
    LET descs == SetToSeq(DOMAIN maker) IN [i \in DOMAIN descs |-> maker[descs[i]]]

MakersOf(obj, fitted, f_importances) ==
    fill_all_zeros([t \in DOMAIN f_importances |->
        modify_column_importances(
            column_importances_manual(obj, fitted, f_importances[t],
                column_importances_auto(fitted, f_importances[t])))])

\* [descriptions, importances], importances[target][column]
OfMakers(makers) ==
    [descriptions |-> extract_coldesc(makers),
     importances  |-> [t \in DOMAIN makers |-> extract_importance_values(makers[t])]]

column_importances(obj, fitted) ==
    OfMakers(MakersOf(obj, fitted, feature_importances(fitted.predictors)))

transpose(original) ==
    IF original = <<>> THEN <<>>
    ELSE [i \in DOMAIN original[1] |-> [t \in DOMAIN original |-> original[t][i]]]

\* "mixed" or "nothing" if a pipeline is neither a classifier nor a regressor.
is_classification(fitted) ==
    LET cl(p) == p.cmd.classification
        preds == FlattenSeq(fitted.feature_selectors.predictors)
                 \o FlattenSeq(fitted.predictors.predictors)
        kinds == {fitted.feature_learners[i].hyp.classification :
                    i \in DOMAIN fitted.feature_learners}
                 \cup {cl(preds[i]) : i \in DOMAIN preds}
    IN  IF kinds = {} THEN "nothing" ELSE IF Cardinality(kinds) = 2 THEN "mixed"
        ELSE IF kinds = {TRUE} THEN "classification" ELSE "regression"

to_history(scores) ==
    [scores EXCEPT !.history = Append(@, [metrics |-> scores.metrics,
                                          set_used |-> scores.set_used])]

\* [error, scores]
score(fitted, scores, population_df, population_name, yhat) ==
    LET y == columns_of(population_df, "target")
    IN  IF Len(yhat) # Len(y) THEN [error |-> "targets do not match", scores |-> scores]
        ELSE IF is_classification(fitted) \in {"mixed", "nothing"}
        THEN [error |-> is_classification(fitted), scores |-> scores]
        ELSE [error  |-> "",
              scores |-> to_history([scores EXCEPT
                !.metrics = <<is_classification(fitted), yhat, [i \in DOMAIN y |-> y[i].content]>>,
                !.set_used = population_name])]

\* The correlations are those of the numerical features, the names those of all.
calculate_feature_stats(fitted, scores, numerical, population_df) ==
    IF numerical = <<>> THEN scores
    ELSE [scores EXCEPT
            !.feature_correlations = [i \in DOMAIN numerical |->
                [t \in 1..num_targets(population_df) |-> <<"correlation", numerical[i].id, t>>]],
            !.feature_names = FlattenSeq(feature_names(fitted.predictors))]

NoScores ==
    [column_descriptions |-> <<>>, column_importances |-> <<>>, feature_importances |-> <<>>,
     feature_names |-> <<>>, feature_correlations |-> <<>>, metrics |-> None,
     set_used |-> None, history |-> <<>>]

-----------------------------------------------------------------------------
(* fit.cpp: feature selectors and predictors *)

SumOf(importances) == FoldLeft(AddUp, importances[1], Tail(importances))

calculate_sum_importances(feature_selectors) == SumOf(feature_importances(feature_selectors))

Descending(sums) == SortSeq([i \in DOMAIN sums |-> i], LAMBDA i, k : sums[i] > sums[k])

\* The places of the features, the most important ones first.
calculate_importance_index(feature_selectors) ==
    Descending(calculate_sum_importances(feature_selectors))

is_feature(c) ==
    /\ c.unit # "comparison only"
    /\ c.subroles \cap {"exclude predictors", "email only", "substring only"} = {}

EncodedImpl(obj, population_df, impl) ==
    fit_encodings(impl, get_categorical_features(obj, population_df, impl))

make_feature_selector_impl(obj, feature_learners, population_df) ==
    LET categoricals == SelectSeq(columns_of(population_df, "categorical"), is_feature)
        numericals   == SelectSeq(columns_of(population_df, "numerical"),
                                  LAMBDA c : is_feature(c) /\ ~c.null)
    IN  EncodedImpl(obj, population_df,
            PredictorImpl([i \in DOMAIN feature_learners |->
                              feature_learners[i].hyp.num_features],
                          IF obj.include_categorical THEN names_of(categoricals) ELSE <<>>,
                          names_of(numericals)))

AtLeast(a, b) == IF a >= b THEN a ELSE b

SelectedImpl(obj, feature_selectors, index) ==
    select_features(feature_selectors.impl,
                    AtLeast(1, (Len(index) * obj.share) \div 100), index)

make_predictor_impl(obj, feature_selectors, population_df) ==
    IF num_predictors_per_set(feature_selectors) = 0 \/ obj.share <= 0
    THEN feature_selectors.impl
    ELSE EncodedImpl(obj, population_df,
            SelectedImpl(obj, feature_selectors, calculate_importance_index(feature_selectors)))

init_predictors(cmds, impl, dependencies, n_targets) ==
    [t \in 1..n_targets |->
        [i \in DOMAIN cmds |->
            new_predictor(cmds[i], impl, Append(dependencies, <<"TargetNumber", t - 1>>))]]

\* [predictors, all_retrieved]: None for the ones that are not known.
retrieve_predictors(tracker, predictors) ==
    LET r == [t \in DOMAIN predictors |->
                [i \in DOMAIN predictors[t] |-> retrieve(tracker, predictors[t][i].fingerprint)]]
    IN  [predictors    |-> r,
         all_retrieved |-> \A t \in DOMAIN r : \A i \in DOMAIN r[t] : r[t][i] # None]

make_features_validation(p) ==
    IF p.validation = None \/ p.purpose = "feature_selectors" THEN None
    ELSE transform_features_only(
            [obj |-> p.obj, env |-> p.env, original_population |-> p.validation,
             original_peripheral |-> p.original_peripheral,
             preprocessors |-> p.preprocessors, feature_learners |-> p.feature_learners,
             fs_fingerprints |-> <<>>, impl |-> p.impl])

target(df, t) == columns_of(df, "target")[t].content

PredictorsAre(p, predictors, autofeatures, error) ==
    [error        |-> error,
     predictors   |-> [impl |-> p.impl, predictors |-> predictors],
     fingerprints |-> extract_predictor_fingerprints(predictors, p.dependencies),
     autofeatures |-> autofeatures,
     tracker      |-> IF error = "" THEN FoldLeft(add, p.env.pred, FlattenSeq(predictors))
                      ELSE p.env.pred]

\* Features with their categorical columns encoded; None stays None.
WithEncoded(impl, features) ==
    IF features = None THEN None
    ELSE features @@ [encoded |-> transform_encodings(impl, features.categorical)]

features_error(features) ==
    IF features.error # "" THEN features.error
    ELSE IF ~features.encoded.ok THEN "categorical columns" ELSE ""

\* The first error of the features, of the validation features, and of both.
fit_error(features, v) ==
    IF features_error(features) # "" THEN features_error(features)
    ELSE IF v # None /\ features_error(v) # "" THEN features_error(v)
    ELSE IF ~check_plausibility(features.encoded.X, features.numerical)
    THEN "no input columns" ELSE ""

FitMissing(p, predictors, known, features, v) ==
    LET valid(t) == IF v = None THEN None
                    ELSE <<v.numerical, v.encoded.X, target(p.validation, t)>>
    IN  IF fit_error(features, v) # ""
        THEN PredictorsAre(p, predictors, p.autofeatures, fit_error(features, v))
        ELSE PredictorsAre(p,
                [t \in DOMAIN predictors |->
                    [i \in DOMAIN predictors[t] |->
                        IF known[t][i] # None THEN known[t][i]
                        ELSE fit_predictor(predictors[t][i], features.encoded.X,
                                features.numerical, target(p.original_population, t),
                                valid(t))]],
                features.autofeatures, "")

FitNotRetrieved(p, predictors, retrieved) ==
    IF retrieved.all_retrieved
    THEN PredictorsAre(p, retrieved.predictors, p.autofeatures, "")
    ELSE FitMissing(p, predictors, retrieved.predictors,
                    WithEncoded(p.impl, make_features(p, p.feature_learners, <<>>)),
                    WithEncoded(p.impl, make_features_validation(p)))

FitUnlessRetrieved(p, predictors) ==
    FitNotRetrieved(p, predictors, retrieve_predictors(p.env.pred, predictors))

\* p is what make_features is passed and [purpose, cmds, dependencies, validation,
\* feature_learners, preprocessors].  A predictor that was fitted before is taken from
\* the tracker, and no features are made if all of them were.
fit_predictors(p) ==
    FitUnlessRetrieved(p, init_predictors(p.cmds, p.impl, p.dependencies,
                                          num_targets(p.population)))

ScoreFeatures(p, fitted, scores, features) ==
    IF features_error(features) # ""
    THEN [error |-> features_error(features), scores |-> scores]
    ELSE score(fitted, scores, p.population, p.original_population.name,
               generate_predictions(fitted, features.encoded.X, features.numerical))

score_after_fitting(p, fitted, scores) ==
    ScoreFeatures(p, fitted, scores,
        WithEncoded(fitted.predictors.impl,
                    make_features(p, fitted.feature_learners, fitted.fingerprints.fs)))

WithImportances(scores, fitted, columns) ==
    [scores EXCEPT
        !.column_descriptions = columns.descriptions,
        !.column_importances  = transpose(columns.importances),
        !.feature_importances = transpose(feature_importances(fitted.predictors)),
        !.feature_names       = FlattenSeq(feature_names(fitted.predictors))]

ScoreIfPredicting(p, fitted, scores) ==
    IF num_predictors_per_set(fitted.predictors) = 0
    THEN [error |-> "", scores |-> scores]
    ELSE score_after_fitting(p, fitted, scores)

make_scores(p, scores, fitted) ==
    ScoreIfPredicting(p, fitted,
        WithImportances(scores, fitted, column_importances(p.obj, fitted)))

\* A mutant: predictors do not depend on what they were validated with.
predictor_dependencies_unvalidated(fs_fingerprints, validation) == fs_fingerprints

predictor_dependencies(fs_fingerprints, validation) ==
    fs_fingerprints \o (IF validation = None THEN <<>>
                        ELSE <<fingerprint_of_frame(validation)>>)

\* The state of fit: what make_features and fit_predictors need, what has been fitted
\* so far, and the first error.
BeginFit(pipeline, env, population_df, peripheral_dfs, validation) ==
    [obj |-> pipeline.obj, env |-> env, error |-> "", scores |-> pipeline.scores,
     original_population |-> population_df, original_peripheral |-> peripheral_dfs,
     population |-> population_df, peripheral |-> peripheral_dfs, validation |-> validation,
     preprocessors |-> <<>>, feature_learners |-> <<>>, autofeatures |-> <<>>,
     impl |-> None, purpose |-> "feature_selectors", cmds |-> pipeline.obj.feature_selectors,
     dependencies |-> <<>>, fingerprints |-> None, schemata |-> None, selectors |-> None,
     fitted |-> None]

Then(st, Step_(_)) == IF st.error # "" THEN st ELSE Step_(st)

Preprocessed(st, pre) ==
    [st EXCEPT
        !.env.preprocessor = pre.tracker,
        !.error = IF num_targets(pre.population) = 0 THEN "no target" ELSE "",
        !.population = pre.population, !.peripheral = pre.peripheral,
        !.preprocessors = pre.preprocessors,
        !.schemata = extract_schemata(pre.population, pre.peripheral, TRUE),
        !.fingerprints = [df |-> pre.df_fingerprints,
                          preprocessor |-> pre.preprocessor_fingerprints,
                          fl |-> <<>>, fs |-> <<>>]]

FitPreprocessors(st) ==
    Preprocessed(st, fit_preprocessors_only(st.obj, st.population, st.peripheral,
                                            st.env.preprocessor))

WithFeatureLearners(st, fls, fl_fingerprints) ==
    [st EXCEPT
        !.env.fe = fls.tracker,
        !.error = IF fls.ok THEN "" ELSE "table does not fit",
        !.feature_learners = fls.feature_learners,
        !.fingerprints.fl = fl_fingerprints, !.dependencies = fl_fingerprints,
        !.impl = make_feature_selector_impl(st.obj, fls.feature_learners, st.population)]

LearnersFitted(st, fls) ==
    WithFeatureLearners(st, fls,
        extract_fingerprints(fls.feature_learners, st.fingerprints.preprocessor))

FitFeatureLearners(st) ==
    LearnersFitted(st, fit_feature_learners(st.obj,
        feature_learner_params(st.obj, st.fingerprints.preprocessor, st.schemata),
        st.population, st.peripheral, st.env.fe))

SelectorsFitted(st, fs) ==
    IF fs.error # "" THEN [st EXCEPT !.error = fs.error]
    ELSE [st EXCEPT
            !.env.pred = fs.tracker, !.autofeatures = fs.autofeatures,
            !.selectors = fs.predictors, !.fingerprints.fs = fs.fingerprints,
            !.impl = make_predictor_impl(st.obj, fs.predictors, st.population),
            !.purpose = "predictors", !.cmds = st.obj.predictors,
            !.dependencies = predictor_dependencies(fs.fingerprints, st.validation)]

FitFeatureSelectors(st) == SelectorsFitted(st, fit_predictors(st))

PredictorsFitted(st, ps) ==
    IF ps.error # "" THEN [st EXCEPT !.error = ps.error]
    ELSE [st EXCEPT
            !.env.pred = ps.tracker, !.autofeatures = ps.autofeatures,
            !.fitted = [feature_learners  |-> st.feature_learners,
                        feature_selectors |-> st.selectors,
                        fingerprints      |-> st.fingerprints,
                        modified_schemata |-> st.schemata,
                        schemata          |-> extract_schemata(st.original_population,
                                                               st.original_peripheral, FALSE),
                        predictors        |-> ps.predictors,
                        preprocessors     |-> st.preprocessors]]

FitPredictors(st) == PredictorsFitted(st, fit_predictors(st))

Scored(st, s) ==
    [st EXCEPT !.error = s.error,
               !.scores = IF s.error = "" THEN s.scores ELSE @,
               !.fitted = IF s.error = "" THEN @ ELSE None]

MakeScores(st) == Scored(st, make_scores(st, st.scores, st.fitted))

\* [error, env, fitted, scores, ...].  What was fitted before an error stays known.
fit(pipeline, env, population_df, peripheral_dfs, validation) ==
    Then(Then(Then(Then(
        FitPreprocessors(BeginFit(pipeline, env, population_df, peripheral_dfs, validation)),
        FitFeatureLearners), FitFeatureSelectors), FitPredictors), MakeScores)

\* What is answered if there is no error so far.
Answered(pipeline, features, predicts, scores) ==
    CASE features.error # "" -> [error |-> features.error, numerical |-> <<>>,
                                 categorical |-> <<>>, scores |-> pipeline.scores]
      [] features.error = "" /\ ~scores /\ ~predicts ->
            [error |-> "", numerical |-> features.numerical,
             categorical |-> features.categorical, scores |-> pipeline.scores]
      [] features.error = "" /\ (scores \/ predicts) /\ ~features.encoded.ok ->
            [error |-> "categorical columns", numerical |-> <<>>, categorical |-> <<>>,
             scores |-> pipeline.scores]
      [] OTHER ->
            [error |-> "",
             numerical |-> generate_predictions(pipeline.fitted, features.encoded.X,
                                                features.numerical),
             categorical |-> <<>>,
             scores |-> IF scores
                        THEN calculate_feature_stats(pipeline.fitted, pipeline.scores,
                                                     features.numerical, features.population)
                        ELSE pipeline.scores]

\* [error, numerical, categorical, scores]: features or predictions.
transform(pipeline, env, population_df, peripheral_dfs, predicts, scores) ==
    IF (scores \/ predicts) /\ num_predictors_per_set(pipeline.fitted.predictors) = 0
    THEN [error |-> "no predictors", numerical |-> <<>>, categorical |-> <<>>,
          scores |-> pipeline.scores]
    ELSE Answered(pipeline,
            WithEncoded(pipeline.fitted.predictors.impl,
                transform_features_only(
                    [obj |-> pipeline.obj, env |-> env,
                     original_population |-> population_df,
                     original_peripheral |-> peripheral_dfs,
                     preprocessors |-> pipeline.fitted.preprocessors,
                     feature_learners |-> pipeline.fitted.feature_learners,
                     fs_fingerprints |-> pipeline.fitted.fingerprints.fs,
                     impl |-> pipeline.fitted.predictors.impl])),
            predicts, scores)

-----------------------------------------------------------------------------
(* check.cpp, to_sql.cpp, load_fitted.cpp *)

\* The learners a data model would get.
Unfitted_learners(obj, pre, n_targets) ==
    init_feature_learners(obj,
        feature_learner_params(obj, pre.preprocessor_fingerprints,
                               extract_schemata(pre.population, pre.peripheral, TRUE)),
        n_targets)

WarningsFor(obj, pre, fingerprint) ==
    [fingerprint |-> fingerprint,
     learned |-> <<"warnings", obj.placeholder, obj.peripheral, pre.population.content,
                   contents(pre.peripheral)>>]

WarningsUnlessKnown(obj, pre, fingerprint, known) ==
    IF known # None THEN known ELSE WarningsFor(obj, pre, fingerprint)

RetrieveWarnings(obj, pre, env, fingerprint) ==
    WarningsUnlessKnown(obj, pre, fingerprint, retrieve(env.warning, fingerprint))

Warned(env, pre, warnings) ==
    [error |-> "", env |-> [env EXCEPT !.preprocessor = pre.tracker,
                                       !.warning = add(@, warnings)],
     warnings |-> warnings.learned]

CheckPreprocessed(obj, env, pre, n_targets) ==
    IF n_targets = 0
    THEN [error |-> "no target", env |-> [env EXCEPT !.preprocessor = pre.tracker],
          warnings |-> None]
    ELSE Warned(env, pre, RetrieveWarnings(obj, pre, env,
            <<"Warning", extract_fingerprints(Unfitted_learners(obj, pre, n_targets),
                                              pre.preprocessor_fingerprints)>>))

\* [error, env, warnings]: the warnings are known by the learners the data model would get.
check(obj, env, population_df, peripheral_dfs) ==
    CheckPreprocessed(obj, env,
        fit_preprocessors_only(obj, population_df, peripheral_dfs, env.preprocessor),
        num_targets(population_df))

make_autofeature_names(fitted) == autofeature_names(fitted.predictors)

\* The code of the subfeatures, and that of the features that were selected.
SelectedCode(all, n_subfeatures, autos) ==
    SubSeq(all, 1, n_subfeatures) \o [k \in DOMAIN autos |-> all[n_subfeatures + autos[k]]]

feature_learners_to_sql(fitted) ==
    FlattenSeq([i \in DOMAIN fitted.feature_learners |->
        SelectedCode(fl_to_sql(fitted.feature_learners[i], i),
                     fitted.feature_learners[i].hyp.subfeatures,
                     fitted.predictors.impl.autofeatures[i])])

\* What is read back are the states of the elements; the elements themselves are
\* made anew from the pipeline and added to the trackers under their fingerprints.
load_predictors(cmds, saved, dependencies, n_targets) ==
    LET fresh == init_predictors(cmds, saved.impl, dependencies, n_targets)
    IN  [impl |-> saved.impl,
         predictors |-> [t \in DOMAIN fresh |-> [i \in DOMAIN fresh[t] |->
            [fresh[t][i] EXCEPT !.learned = saved.predictors[t][i].learned,
                                !.csr = saved.predictors[t][i].csr]]]]

load_preprocessors(obj, f) ==
    LET fresh == init_preprocessors(obj, f.fingerprints.df)
    IN  [i \in DOMAIN fresh |-> [fresh[i] EXCEPT !.learned = f.preprocessors[i].learned]]

load_feature_learners(obj, f) ==
    LET fresh == init_feature_learners(obj,
            feature_learner_params(obj, f.fingerprints.preprocessor, f.modified_schemata),
            Len(f.modified_schemata.population.targets))
    IN  [i \in DOMAIN fresh |->
            [fresh[i] EXCEPT !.learned = f.feature_learners[i].learned,
                             !.vocabulary = f.feature_learners[i].vocabulary,
                             !.population_schema = f.feature_learners[i].population_schema,
                             !.peripheral_schema = f.feature_learners[i].peripheral_schema]]

load_fitted(obj, f) ==
    LET n == Len(f.modified_schemata.population.targets)
    IN  [f EXCEPT
            !.preprocessors     = load_preprocessors(obj, f),
            !.feature_learners  = load_feature_learners(obj, f),
            !.feature_selectors = load_predictors(obj.feature_selectors, @,
                                                  f.fingerprints.fl, n),
            !.predictors        = load_predictors(obj.predictors, @, f.fingerprints.fs, n)]

-----------------------------------------------------------------------------
(* handlers::PipelineManager *)

NumericalNames(names) == names[1] \o names[2]

\* One column with the i-th name and the i-th content.
AddFeatures(df, names, role, features) ==
    FoldLeftDomain(LAMBDA acc, i :
        add_column(acc, [new_column(names[i], role, features[i].content)
                            EXCEPT !.null = features[i].null, !.n = features[i].n]),
        df, names)

add_features_to_df(fitted, numerical, categorical, df) ==
    AddFeatures(
        AddFeatures(df, NumericalNames(feature_names(fitted.predictors)), "numerical",
                    numerical),
        feature_names(fitted.predictors)[3], "categorical", categorical)

add_predictions_to_df(fitted, predictions, df) ==
    LET targets == fitted.modified_schemata.population.targets
    IN  FoldLeftDomain(LAMBDA acc, t :
            add_column(acc, new_column(<<"prediction_", ToString(t), "__">> \o targets[t],
                                       "numerical", predictions[t])), df, targets)

Copied(df, cols) ==
    FoldLeft(LAMBDA acc, c :
        add_column(acc, [c EXCEPT !.name = make_staging_table_colname(@)]), df, cols)

add_join_keys_to_df(population_df, df) ==
    Copied(df, SelectSeq(columns_of(population_df, "join_key"), LAMBDA c :
        ~Contains(c.name, multiple_join_key_begin) /\ ~Contains(c.name, "NO_JOIN_KEY")))

add_time_stamps_to_df(population_df, df) ==
    Copied(df, SelectSeq(columns_of(population_df, "time_stamp"), LAMBDA c :
        \A i \in DOMAIN c.name : c.name[i] \notin
            {"$GETML_LOWER_TS", OTHER_TIME_STAMP, rowid[1], UPPER_TIME_STAMP, "$GETML_UPPER_TS"}))

WithPopulation(df, population_df) ==
    FoldLeft(add_column,
             add_time_stamps_to_df(population_df, add_join_keys_to_df(population_df, df)),
             columns_of(population_df, "target"))

\* A frame that is built now: its columns are added at this very moment.
to_df(df_name, fitted, population_df, t, predicts, now) ==
    LET empty == [name |-> df_name, last_change |-> now, build_history |-> None,
                  columns |-> <<>>, content |-> <<"built", t.numerical, t.categorical>>]
    IN  WithPopulation(
            IF predicts THEN add_predictions_to_df(fitted, t.numerical, empty)
            ELSE add_features_to_df(fitted, t.numerical, t.categorical, empty),
            population_df)

WithHistory(df, history, recorded, frames) ==
    [df    |-> [df EXCEPT !.build_history = history],
     pairs |-> add_frame(recorded, [df EXCEPT !.build_history = history], history, frames)]

\* [df, pairs]: predictions are not put on record.
store_df(fitted, predicts, population_df, peripheral_dfs, df, recorded, frames) ==
    IF predicts THEN [df |-> df, pairs |-> recorded]
    ELSE WithHistory(df,
            make_build_history(fitted.fingerprints.fs, population_df, peripheral_dfs),
            recorded, frames)

Frames(names) == [i \in DOMAIN names |-> data_frames[names[i]]]
Env == trackers @@ [pairs |-> pairs, data_frames |-> data_frames]
TrackersOf(env) == [t \in DOMAIN NoTrackers |-> env[t]]
Exists(call) ==
    {call.population} \cup ToSet(call.peripheral)
        \cup ToSet(call.validation) \subseteq DOMAIN data_frames
NoAnswer == [op |-> "none"]

InitFrames ==
    /\ data_frames \in
         [DOMAIN FrameVersions -> UNION {FrameVersions[f] : f \in DOMAIN FrameVersions}]
    /\ \A f \in DOMAIN FrameVersions : data_frames[f] \in FrameVersions[f]
    /\ pairs = <<>> /\ answer = NoAnswer /\ reopened = {} /\ steps = 0

Unfitted == [name \in DOMAIN Objs |-> [obj |-> Objs[name], fitted |-> None, scores |-> NoScores]]

Init == InitFrames /\ pipelines = Unfitted /\ trackers = NoTrackers

Step == steps < MaxSteps /\ steps' = steps + 1

\* A frame is changed by its user, which gives it another time of last change.
ChangeFrame(f, version) ==
    /\ Step /\ version.content # data_frames[f].content
    /\ data_frames' = [data_frames EXCEPT ![f] = [version EXCEPT !.last_change = steps + 1]]
    /\ answer' = NoAnswer
    /\ UNCHANGED <<pipelines, pairs, trackers, reopened>>

Arguments(call) ==
    [population |-> data_frames[call.population],
     peripheral |-> Frames(call.peripheral),
     validation |-> IF call.validation = <<>> THEN None ELSE data_frames[call.validation[1]]]

Fit(name, call) ==
    /\ Step /\ Exists(call)
    /\ \E args \in {Arguments(call)} :
        \E r \in {fit(pipelines[name], Env, args.population, args.peripheral,
                       args.validation)} :
          /\ trackers' = TrackersOf(r.env)
          /\ pipelines' = IF r.error # "" THEN pipelines
                ELSE [pipelines EXCEPT ![name].fitted = r.fitted, ![name].scores = r.scores]
          /\ answer' = [op |-> "fit", name |-> name, args |-> args, error |-> r.error,
                         result |-> [fitted |-> r.fitted, metrics |-> r.scores.metrics]]
    /\ UNCHANGED <<data_frames, pairs, reopened>>

Check(name, call) ==
    /\ Step /\ Exists(call) /\ call.validation = <<>>
    /\ \E args \in {Arguments(call)} :
        \E r \in {check(pipelines[name].obj, Env, args.population, args.peripheral)} :
          /\ trackers' = TrackersOf(r.env)
          /\ answer' = [op |-> "check", name |-> name, args |-> args, error |-> r.error,
                         result |-> [warnings |-> r.warnings]]
    /\ UNCHANGED <<pipelines, data_frames, pairs, reopened>>

\* mode is "transform", "predict" or "score"; df_name is None if nothing is stored.
Transform(name, call, mode, df_name) ==
    /\ Step /\ Exists(call) /\ call.validation = <<>>
    /\ mode = "score" => df_name = None
    /\ pipelines[name].fitted # None
    /\ \E args \in {Arguments(call)} :
        \E t \in {transform(pipelines[name], Env, args.population, args.peripheral,
                             mode = "predict", mode = "score")} :
          /\ IF t.error = "" /\ df_name # None
             THEN \E stored \in
                    {store_df(pipelines[name].fitted, mode = "predict", args.population,
                              args.peripheral,
                              to_df(df_name, pipelines[name].fitted, args.population, t,
                                    mode = "predict", steps + 1),
                              pairs, data_frames)} :
                    /\ data_frames' = (df_name :> stored.df) @@ data_frames
                    /\ pairs' = stored.pairs
             ELSE UNCHANGED <<data_frames, pairs>>
          /\ IF t.error = "" /\ mode = "score"
             THEN \E s \in {score(pipelines[name].fitted, t.scores, args.population,
                                   call.population, t.numerical)} :
                    pipelines' = IF s.error # "" THEN pipelines
                                 ELSE [pipelines EXCEPT ![name].scores = s.scores]
             ELSE pipelines' = pipelines
          /\ answer' = [op |-> mode, name |-> name, args |-> args, error |-> t.error,
                         result |-> [numerical |-> t.numerical, categorical |-> t.categorical]]
    /\ UNCHANGED <<trackers, reopened>>

Fitted == {name \in DOMAIN pipelines : pipelines[name].fitted # None}

AddAll(elements) == FoldLeft(add, <<>>, elements)

\* The elements of all pipelines in one tracker.
TrackersOfLoaded(loaded) ==
    LET all == SetToSeq({loaded[n] : n \in DOMAIN loaded})
    IN  [NoTrackers EXCEPT
            !.preprocessor = AddAll(FlattenSeq([i \in DOMAIN all |-> all[i].preprocessors])),
            !.fe   = AddAll(FlattenSeq([i \in DOMAIN all |-> all[i].feature_learners])),
            !.pred = AddAll(FlattenSeq(
                        FlattenSeq([i \in DOMAIN all |->
                            all[i].feature_selectors.predictors \o all[i].predictors.predictors])))]

Validated(p) == p.learned[6] # None

\* The project is opened again and all it holds is loaded: what was fitted and the
\* frames that carry a history are put on record once more.
Reopen ==
    /\ Step
    /\ Fitted # {}
    /\ \E loaded \in {[name \in Fitted |->
                            load_fitted(pipelines[name].obj, pipelines[name].fitted)]} :
          /\ pipelines' = [name \in DOMAIN pipelines |->
                IF name \in Fitted THEN [pipelines[name] EXCEPT !.fitted = loaded[name]]
                ELSE pipelines[name]]
          /\ trackers' = TrackersOfLoaded(loaded)
          /\ reopened' = {h \in DOMAIN trackers'.pred : Validated(trackers'.pred[h])}
    /\ pairs' = FoldSet(LAMBDA f, acc :
            add_frame(acc, data_frames[f], data_frames[f].build_history, data_frames),
            <<>>, {f \in DOMAIN data_frames : data_frames[f].build_history # None})
    /\ answer' = NoAnswer
    /\ UNCHANGED data_frames

Call ==
    \/ \E f \in DOMAIN FrameVersions : \E v \in FrameVersions[f] : ChangeFrame(f, v)
    \/ \E name \in DOMAIN Objs, call \in Calls :
        \/ Fit(name, call)
        \/ Check(name, call)
        \/ \E mode \in {"transform", "predict", "score"}, df_name \in Outputs \cup {None} :
              Transform(name, call, mode, df_name)

Next == Call \/ Reopen

Spec == Init /\ [][Next]_vars

-----------------------------------------------------------------------------

FrameOf(df) ==
    /\ DOMAIN df = {"name", "last_change", "build_history", "columns", "content"}
    /\ df.last_change \in 0..MaxSteps
    /\ \A i \in DOMAIN df.columns : df.columns[i].role \in
          {"categorical", "numerical", "text", "join_key", "time_stamp", "target"}
    /\ IsInjective(names_of(df.columns))

\* Frames are tables without two columns of one name, and what is recorded is
\* recorded under its own fingerprint.
TypeOK ==
    /\ \A f \in DOMAIN data_frames : FrameOf(data_frames[f]) /\ data_frames[f].name = f
    /\ DOMAIN pipelines = DOMAIN Objs
    /\ \A t \in DOMAIN trackers : \A h \in DOMAIN trackers[t] :
          trackers[t][h].fingerprint = h
    /\ \A h \in DOMAIN pairs : pairs[h].last_change \in 0..MaxSteps
    /\ steps \in 0..MaxSteps

OfFit(f)       == <<f.error, [fitted |-> f.fitted, metrics |-> f.scores.metrics]>>
OfCheck(c)     == <<c.error, [warnings |-> c.warnings]>>
OfTransform(t) == <<t.error, [numerical |-> t.numerical, categorical |-> t.categorical]>>

\* What a call would return if nothing had been fitted or stored before.
Fresh(a, p, env) ==
    CASE a.op = "fit"   -> OfFit(fit([p EXCEPT !.scores = NoScores, !.fitted = None], env,
                                     a.args.population, a.args.peripheral,
                                     a.args.validation))
      [] a.op = "check" -> OfCheck(check(p.obj, env, a.args.population, a.args.peripheral))
      [] OTHER          -> OfTransform(transform(p, env, a.args.population,
                                a.args.peripheral, a.op = "predict", a.op = "score"))

SameAs(a, fresh) == a.error = fresh[1] /\ (a.error = "" => a.result = fresh[2])

\* A call returns what it would return if nothing had been fitted or stored
\* before: whatever is taken from a tracker was computed from the same data in
\* the same way.  That is what the fingerprint of a predictor is for, which is
\* "necessary to build the dependency graphs" (XGBoostPredictor.hpp:94-95).
EveryResultIsFresh ==
    answer.op # "none" =>
        SameAs(answer, Fresh(answer, pipelines[answer.name],
                             NoTrackers @@ [pairs |-> <<>>, data_frames |-> <<>>]))

\* A fit that finds a predictor under the fingerprint it was loaded under, from which
\* the frame it was validated with is missing (load_fitted::load_predictors).
TakesReopened ==
    /\ answer.op = "fit" /\ answer.error = ""
    /\ \E t \in DOMAIN answer.result.fitted.predictors.predictors :
         \E i \in DOMAIN answer.result.fitted.predictors.predictors[t] :
            answer.result.fitted.predictors.predictors[t][i].fingerprint \in reopened

\* Every result is fresh except where a predictor is taken that came back without the
\* fingerprint of its validation frame (Tracker::retrieve, DataFrameTracker::retrieve).
ResultsAreFresh == ~TakesReopened => EveryResultIsFresh

NamesAgree(f, names) ==
    /\ SelectSeq(feature_learners_to_sql(f), LAMBDA s : s[1] = "feature_") = names
    /\ \A t \in DOMAIN f.predictors.predictors :
         \A i \in DOMAIN f.predictors.predictors[t] :
            LET X == f.predictors.predictors[t][i].learned[3]
            IN  [k \in DOMAIN X |-> X[k].id] = names \o f.predictors.impl.numerical_colnames

\* The features that a predictor was trained on, the names they are listed under
\* and the code that is shown for them are the same features in the same order.
FeaturesHaveTheirNames ==
    \A name \in Fitted :
        NamesAgree(pipelines[name].fitted, make_autofeature_names(pipelines[name].fitted))

AreTheBest(kept, all, sums) ==
    /\ kept \subseteq ToSet(all)
    /\ \A i, k \in DOMAIN all : all[i] \in kept /\ all[k] \notin kept => sums[i] >= sums[k]

\* The features that are left of the ones a feature selector saw are among the most
\* important ones (calculate_importance_index, PredictorImpl::select_features).
BestFeaturesAreSelected ==
    \A name \in Fitted :
        \E f \in {pipelines[name].fitted} :
            f.feature_selectors.predictors[1] # <<>> =>
                AreTheBest(ToSet(FlattenSeq(feature_names(f.predictors))),
                           FlattenSeq(feature_names(f.feature_selectors)),
                           calculate_sum_importances(f.feature_selectors))

\* For every target and every column that is described the importance is that of the
\* features made of the column, and nothing is lost (score::column_importances).
ImportancesAddUp ==
    \A name \in Fitted :
        LET f == pipelines[name].fitted
            s == pipelines[name].scores
            autos    == f.predictors.impl.autofeatures
            begin(j) == Total([k \in 1..j - 1 |-> Len(autos[k])])
            Of(desc, t) == Total(FlattenSeq([j \in DOMAIN autos |->
                [k \in DOMAIN autos[j] |->
                    IF FeatureColumn(f.feature_learners[j].hyp.name, autos[j][k]) = desc
                    THEN s.feature_importances[begin(j) + k][t] ELSE 0]]))
            OfTarget(table, t) == Total([i \in DOMAIN table |-> table[i][t]])
        IN  /\ Len(s.column_importances) = Len(s.column_descriptions)
            /\ \A t \in DOMAIN f.predictors.predictors :
                /\ \A i \in DOMAIN s.column_importances :
                     /\ t \in DOMAIN s.column_importances[i]
                     /\ s.column_importances[i][t] >= Of(s.column_descriptions[i], t)
                /\ Total([i \in DOMAIN s.column_descriptions |-> Of(s.column_descriptions[i], t)])
                      = OfTarget(SubSeq(s.feature_importances, 1,
                                        num_autofeatures(f.predictors.impl)), t)
                /\ OfTarget(s.column_importances, t) = OfTarget(s.feature_importances, t)
=============================================================================
