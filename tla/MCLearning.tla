------------------------------ MODULE MCLearning ------------------------------
(***************************************************************************)
(* The components that make features and learn from them, side by side: a  *)
(* behaviour is one of a single component (part), chosen in the beginning. *)
(* Components that are never in the same behaviour share the variables and *)
(* constants of the same name.  TableHolder and Pipelines are those that   *)
(* this module extends; the one has no tables and the other no requests    *)
(* while another component is chosen.                                      *)
(***************************************************************************)
EXTENDS TableHolder, Pipelines, TLC

CONSTANTS
  Active,     \* the components a behaviour may be one of
  Instances, ComparisonUnits, time_stamp_unit, num_threads, log_iter, batch_size,
  Inputs,
  Objs, FrameVersions, Calls, Outputs, MaxCalls, LearnedWeight(_, _), FeatureColumn(_, _), Selecting,
  Words(_), Lower(_), Upper(_), RawTables, Commands, CheckedModel, MaxSteps, MaxMatches, MaxDistinct,
    MaxMultirel, MaxRelmt,
  Predictions, TargetValues, FeatureValues, Categories, NumRows, NumBins, ONE, CurveLength,
    num_critical_values, MAX,
  c1, c2, p1

VARIABLES
  part,                                                                 \* the component
  inst, rownums, phase, fast_prop, r_squared, subfeatures, features, threads, \* FastProp
  input, frames, placeholder, joined, error,                            \* staging
  pipelines, data_frames, pairs, trackers, answer, reopened, steps,     \* pipelines
  categories, stored, tracker, pipeline, outcome,                       \* preprocessors
  yhat, y, result                                                       \* metrics

fastprop      == <<inst, rownums, fast_prop, r_squared, subfeatures, features, threads>>
staging       == <<input, frames, placeholder, joined, error>>
calls         == <<pipelines, data_frames, pairs, trackers, answer, reopened>>
preprocessing == <<categories, stored, tracker, pipeline, outcome>>
metrics       == <<yhat, y, result>>

learningVars ==
  <<part, phase, steps, vars, holderVars, fastprop, staging, calls, preprocessing, metrics>>

Fast      == INSTANCE FastProp WITH comparison_only <- ComparisonUnits
Staged    == INSTANCE Staging
Fitting   == INSTANCE PipelineFit WITH MaxSteps <- MaxCalls, Weight <- LearnedWeight
Preparing == INSTANCE Preprocessors WITH Model <- CheckedModel
Scoring   == INSTANCE Metrics WITH Targets <- TargetValues, Features <- FeatureValues

-----------------------------------------------------------------------------
(* Constants *)

FastValues      == INSTANCE MCFastProp
StagingValues   == INSTANCE MCStaging

AllParts ==
  {"holders", "fastprop", "staging", "calls", "preprocessing", "metrics", "pipelines"}

\* Two clients who both work on one pipeline.
ServedClients == {c1, c2}

ServedNames == {p1}

HolderScenarios == FastValues!MCScenarios

\* std::stable_sort of libstdc++ for up to three rows, which come by join key: each is
\* put behind the last one that it is not less than.
WithRow(s, r, jks, lower_ts) ==
  LET key(x) == make_key(jks, lower_ts, x)
      place  == Max({0} \cup {i \in DOMAIN s : ~KeyLess(key(r), key(s[i]))})
  IN  InsertAt(s, place + 1, r)

StableSort(jks, lower_ts, rows) ==
  FoldLeft(LAMBDA s, r : WithRow(s, r, jks, lower_ts), <<>>,
           SetToSortSeq(rows, LAMBDA a, b : jks[a] < jks[b] \/ (jks[a] = jks[b] /\ a < b)))

FastInstances      == FastValues!MCInstances
FastComparisonOnly == FastValues!MCComparisonOnly
FastTimeStampUnit  == FastValues!MCTimeStampUnit

StagingInputs == StagingValues!MCInputs

FittingObjs     == StagingValues!MCObjs
FittingVersions == StagingValues!MCFrameVersions
FittingCalls    == StagingValues!MCCalls
FittingOutputs  == StagingValues!MCOutputs
FittingWeight(learned, id)       == StagingValues!MCWeight(learned, id)
FittingFeatureColumn(name, ix)   == StagingValues!MCFeatureColumn(name, ix)

PreparingTables   == StagingValues!MCRawTables
PreparingCommands == StagingValues!MCCommands
PreparingModel    == StagingValues!MCModel
PreparingWords(s) == StagingValues!MCWords(s)
PreparingLower(w) == StagingValues!MCLower(w)
PreparingUpper(w) == StagingValues!MCUpper(w)

\* -1 is no number.
MetricTargets  == {-1, 0, 1, 3}
MetricFeatures == {-1, 1, 2, 5}

-----------------------------------------------------------------------------
NoHolders       == params = 0 /\ tables = None /\ matches = <<>>
NoFastProp      == /\ inst = 0 /\ rownums = 0 /\ fast_prop = 0 /\ r_squared = 0
                   /\ subfeatures = 0 /\ features = 0 /\ threads = 0
NoStaging       == input = 0 /\ frames = 0 /\ placeholder = 0 /\ joined = 0 /\ error = 0
NoCalls         == /\ pipelines = 0 /\ data_frames = 0 /\ pairs = 0 /\ trackers = 0
                   /\ answer = 0 /\ reopened = 0
NoPreprocessing == categories = 0 /\ stored = 0 /\ tracker = 0 /\ pipeline = 0 /\ outcome = 0
NoMetrics       == yhat = 0 /\ y = 0 /\ result = 0

Fitted(name, r) == [Fitting!Unfitted[name] EXCEPT !.fitted = r.fitted, !.scores = r.scores]

\* Both pipelines have been fitted before, one maybe with a validation frame, and the
\* features of one are stored.
InitFitted ==
  /\ answer = Fitting!NoAnswer /\ reopened = {} /\ steps = 0
  /\ \E versions \in {[f \in DOMAIN FrameVersions |->
        CHOOSE v \in FrameVersions[f] : \A i \in DOMAIN v.columns : ~v.columns[i].null]} :
     \E p \in {versions[<<"p">>]}, q \in {<<versions[<<"q">>]>>},
        v \in {Fitting!None, versions[<<"v">>]} :
     \E a \in {Fitting!fit(Fitting!Unfitted["a"],
                  Fitting!NoTrackers @@ [pairs |-> <<>>, data_frames |-> versions],
                  p, q, v)} :
     \E b \in {Fitting!fit(Fitting!Unfitted["b"], a.env, p, q, Fitting!None)} :
     \E t \in {Fitting!transform(Fitted("a", a), b.env, p, q, FALSE, FALSE)} :
     \E kept \in {Fitting!store_df(a.fitted, FALSE, p, q,
                     Fitting!to_df(<<"o">>, a.fitted, p, t, FALSE, 0), <<>>, versions)} :
        /\ pipelines = [a |-> Fitted("a", a), b |-> Fitted("b", b)]
        /\ trackers = Fitting!TrackersOf(b.env)
        /\ pairs = kept.pairs
        /\ data_frames = (<<"o">> :> kept.df) @@ versions

LearningInit ==
  /\ part \in Active
  /\ Init
  /\ \/ /\ part = "holders" /\ HolderInit /\ phase = 0 /\ steps = 0
        /\ NoFastProp /\ NoStaging /\ NoCalls /\ NoPreprocessing /\ NoMetrics
     \/ /\ part = "fastprop" /\ Fast!Init /\ steps = 0
        /\ NoHolders /\ NoStaging /\ NoCalls /\ NoPreprocessing /\ NoMetrics
     \/ /\ part = "staging" /\ Staged!Init /\ steps = 0
        /\ NoHolders /\ NoFastProp /\ NoCalls /\ NoPreprocessing /\ NoMetrics
     \/ /\ part = "calls" /\ (Fitting!Init \/ InitFitted) /\ phase = 0
        /\ NoHolders /\ NoFastProp /\ NoStaging /\ NoPreprocessing /\ NoMetrics
     \/ /\ part = "preprocessing" /\ Preparing!Init /\ phase = 0
        /\ NoHolders /\ NoFastProp /\ NoStaging /\ NoCalls /\ NoMetrics
     \/ /\ part = "metrics" /\ Scoring!Init /\ phase = 0 /\ steps = 0
        /\ NoHolders /\ NoFastProp /\ NoStaging /\ NoCalls /\ NoPreprocessing
     \/ /\ part = "pipelines" /\ phase = 0 /\ steps = 0
        /\ NoHolders /\ NoFastProp /\ NoStaging /\ NoCalls /\ NoPreprocessing /\ NoMetrics

MatchStep ==
  /\ part = "holders" /\ HolderNext
  /\ UNCHANGED <<part, vars, phase, steps, fastprop, staging, calls, preprocessing, metrics>>

FastPropStep ==
  /\ part = "fastprop" /\ Fast!Next
  /\ UNCHANGED <<part, vars, steps, holderVars, staging, calls, preprocessing, metrics>>

StagingStep ==
  /\ part = "staging" /\ Staged!Next
  /\ UNCHANGED <<part, vars, steps, holderVars, fastprop, calls, preprocessing, metrics>>

CallStep ==
  /\ part = "calls" /\ Fitting!Next
  /\ UNCHANGED <<part, vars, phase, holderVars, fastprop, staging, preprocessing, metrics>>

PreprocessingStep ==
  /\ part = "preprocessing" /\ Preparing!Next
  /\ UNCHANGED <<part, vars, phase, holderVars, fastprop, staging, calls, metrics>>

ScoringStep ==
  /\ part = "metrics" /\ Scoring!Next
  /\ UNCHANGED <<part, vars, phase, steps, holderVars, fastprop, staging, calls, preprocessing>>

PipelineStep ==
  /\ part = "pipelines" /\ Next
  /\ UNCHANGED <<part, phase, steps, holderVars, fastprop, staging, calls, preprocessing,
                 metrics>>

LearningNext ==
  \/ MatchStep \/ FastPropStep \/ StagingStep \/ CallStep \/ PreprocessingStep
  \/ ScoringStep \/ PipelineStep

\* Fairness is that of the threads that serve the requests on pipelines.
LearningSpec == LearningInit /\ [][LearningNext]_learningVars /\ Fairness

-----------------------------------------------------------------------------
(* Properties *)

LearningTypeOK ==
  CASE part = "holders"       -> HolderTypeOK
    [] part = "fastprop"      -> Fast!TypeOK
    [] part = "staging"       -> Staged!TypeOK
    [] part = "calls"         -> Fitting!TypeOK
    [] part = "preprocessing" -> Preparing!TypeOK
    [] part = "metrics"       -> Scoring!TypeOK
    [] part = "pipelines"     -> TypeOK

\* The features that the threads of FastProp write are those its SQL code says, for
\* every row, aggregation and condition, however the rows are divided among them.
FeaturesAreWhatTheSQLSays == part = "fastprop" => Fast!FeaturesAreWhatTheSQLSays

\* The features that are kept are no worse than those that are dropped, in a learner
\* and in a pipeline with feature selectors (FastProp::select_features,
\* PredictorImpl::select_features).
BestFeaturesAreKept ==
  /\ part = "fastprop" => Fast!TheBestFeaturesAreKept
  /\ part = "calls"    => Fitting!BestFeaturesAreSelected

\* Staging joins the tables as the data model says, row by row, or refuses it
\* (staging::Staging, DataFrameModifier).
TablesAreJoinedAsDeclared == part = "staging" => Staged!TablesAreJoinedAsDeclared

\* What is taken from a tracker is what would be computed without it: a call returns
\* what it would if nothing had been fitted or stored before, but for a predictor that
\* was loaded under a fingerprint without its validation frame (Tracker::retrieve,
\* DataFrameTracker::retrieve).
ResultsAreFresh ==
  /\ part = "calls"         => Fitting!ResultsAreFresh
  /\ part = "preprocessing" => Preparing!FitIsFresh

\* The same without an exception: a fit without a validation frame also returns what
\* it would if no pipeline had been fitted with one (load_fitted::load_predictors).
EveryResultIsFresh == part = "calls" => Fitting!EveryResultIsFresh

\* Importances of features are handed down to the columns they are made of, and none
\* is lost on the way (column_importances, importance_maker).
ImportancesArePreserved ==
  /\ part = "staging"  => Staged!ImportancesReachTheirColumns
  /\ part = "fastprop" => Fast!ImportancesArePreserved
  /\ part = "calls"    => Fitting!ImportancesAddUp

\* The names of tables, columns and features mean the same wherever they are made:
\* in a placeholder, in the features, in the predictors and in the SQL code.
NamesAgree ==
  /\ part = "staging"       => Staged!PlaceholderNamesExist
  /\ part = "calls"         => Fitting!FeaturesHaveTheirNames
  /\ part = "preprocessing" => Preparing!SQLBuildsThePreprocessedTables

\* A pipeline makes of the tables it was fitted on the same cells again, and of any
\* others the same columns; the tables it was fitted on are not refused
\* (Preprocessor::transform).
TransformAgreesWithFit ==
  part = "preprocessing" =>
    Preparing!TransformAgreesWithFit /\ Preparing!FittedTablesAreTransformed

\* Trimmed and imputed columns have no gaps, and the words of a text find the row
\* they are from (CategoryTrimmer, Imputation, TextFieldSplitter).
TablesAreComplete ==
  part = "preprocessing" => Preparing!FeaturesSeeNoGaps /\ Preparing!TextTablesRejoin

\* The scores and plots agree with their definitions: a ranking is scored by the
\* pairs it orders, errors are those of all rows, and the bins of a plot hold every
\* row once; and the matches that the check of a data model expects are those of an
\* average row (metrics::AUC, RSquared, Summarizer and others, data_model_checking).
ScoresAreRight ==
  /\ part = "metrics" =>
        Scoring!RankingsAreScored /\ Scoring!ErrorsAgree /\ Scoring!PlotsAddUp
  /\ part = "preprocessing" => Preparing!ExpectedMatchesAreTheAverage
=============================================================================
