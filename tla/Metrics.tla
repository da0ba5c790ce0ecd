------------------------------- MODULE Metrics -------------------------------
(***************************************************************************)
(* The scores of predictions and the plots of columns: src/metrics, and    *)
(* the requests that call them (engine/handlers/DataFrameManager.cpp,      *)
(* engine/pipelines/score.cpp).                                            *)
(*                                                                         *)
(* Numbers are natural numbers or NaN, quotients are pairs of a numerator  *)
(* and a denominator, and a denominator of zero is the NaN or the infinity *)
(* of the code.  A prediction of a probability is counted in ONEths.       *)
(* Logarithms are left out: a cross entropy is the product it is the       *)
(* logarithm of, a root mean squared error its square.  Every target and   *)
(* every feature is treated alike; here there is one of each.              *)
(***************************************************************************)
EXTENDS Integers, FiniteSetsExt, SequencesExt

CONSTANTS Predictions,  \* the predictions and the targets there may be
          Targets,
          Features,     \* the values of a feature
          Categories,   \* the values of a categorical column
          NumRows,      \* the numbers of rows
          NumBins,      \* what a client may ask for
          ONE,
          CurveLength,         \* 100: points of a curve
          num_critical_values, \* 200
          MAX

VARIABLES yhat, y,   \* the predictions, or the column of a plot, and the targets
          result     \* the last answer

vars == <<yhat, y, result>>

NaN == -1

Ratio(num, den) == [num |-> num, den |-> den]
Same(p, q) == p.num * q.den = q.num * p.den /\ (p.den = 0 <=> q.den = 0)
AtMost(p, q) == p.num * q.den <= q.num * p.den

Sum(seq) == FoldLeft(LAMBDA total, val : total + val, 0, seq)
SumOver(set, f(_)) == FoldSet(LAMBDA i, total : total + f(i), 0, set)

nrows == Len(y)
Rows == 1..nrows

-----------------------------------------------------------------------------
(* metrics::AUC *)

find_min_max == <<Min(Range(yhat)), Max(Range(yhat))>>

\* A stable sort by the prediction.
make_pairs ==
  LET before(i, k) == yhat[i] < yhat[k] \/ (yhat[i] = yhat[k] /\ i < k)
      order == SetToSortSeq(Rows, before)
  IN [i \in Rows |-> <<yhat[order[i]], y[order[i]]>>]

all_positives(pairs) == Sum([i \in DOMAIN pairs |-> pairs[i][2]])

calc_true_positives_uncompressed(pairs) ==
  [i \in DOMAIN pairs |-> all_positives(pairs) - Sum([k \in 1..i |-> pairs[k][2]])]

\* The last row of every prediction.
compress(pairs) ==
  SelectSeq([i \in Rows |-> i], LAMBDA i : i = nrows \/ pairs[i + 1][1] > pairs[i][1])

true_positives(pairs) ==
  <<all_positives(pairs)>>
    \o [k \in DOMAIN compress(pairs) |->
          calc_true_positives_uncompressed(pairs)[compress(pairs)[k]]]

predicted_negative(pairs) == <<0>> \o compress(pairs)

calc_false_positives(tp, pn) == [k \in DOMAIN tp |-> nrows - tp[k] - pn[k]]

calc_precision(tp, pn) ==
  [k \in DOMAIN tp |-> IF nrows > pn[k] THEN Ratio(tp[k], nrows - pn[k]) ELSE Ratio(1, 1)]

calc_lift(precision, positives) ==
  IF positives = 0 THEN <<>>
  ELSE [k \in DOMAIN precision |->
          Ratio(precision[k].num * nrows, precision[k].den * positives)]

calc_rate(raw, all) == [k \in DOMAIN raw |-> Ratio(raw[k], all)]

calc_auc(tpr, fpr) ==
  LET area(k) == (fpr[k - 1].num - fpr[k].num) * (tpr[k].num + tpr[k - 1].num)
  IN Ratio(SumOver(2..Len(tpr), area), 2 * tpr[1].den * fpr[1].den)

\* The last point is there once more.
downsample(original) ==
  LET step_size == Max({Len(original) \div CurveLength, 1})
      points == [k \in 1..((Len(original) + step_size - 1) \div step_size) |->
                   original[(k - 1) * step_size + 1]]
  IN IF original = <<>> THEN <<>> ELSE Append(points, Last(original))

make_default_values ==
  [auc |-> Ratio(1, 2), tpr |-> <<Ratio(1, 1), Ratio(0, 1)>>,
   fpr |-> <<Ratio(0, 1), Ratio(1, 1)>>, lift |-> <<Ratio(1, 1), Ratio(1, 1)>>,
   precision |-> <<Ratio(0, 1), Ratio(0, 1)>>]

auc_score ==
  IF find_min_max[1] = find_min_max[2] THEN make_default_values
  ELSE LET pairs == make_pairs
           tp == true_positives(pairs)
           pn == predicted_negative(pairs)
           positives == all_positives(pairs)
           tpr == calc_rate(tp, positives)
           fpr == calc_rate(calc_false_positives(tp, pn), nrows - positives)
           precision == calc_precision(tp, pn)
       IN [auc |-> calc_auc(tpr, fpr), tpr |-> downsample(tpr), fpr |-> downsample(fpr),
           precision |-> downsample(precision),
           lift |-> downsample(calc_lift(precision, positives))]

-----------------------------------------------------------------------------
(* The other scores *)

\* When all predictions are the same, 0/0 becomes an index: 0 on the platforms
\* the engine is built for.
critical_value(i) ==
  LET range == find_min_max[2] - find_min_max[1]
  IN IF range = 0 THEN 0
     ELSE ((yhat[i] - find_min_max[1]) * (num_critical_values - 1)) \div range

accuracies ==
  LET negatives(c) == Cardinality({i \in Rows : critical_value(i) <= c})
      false_positives(c) == Cardinality({i \in Rows : critical_value(i) <= c /\ y[i] = 1})
  IN [k \in 1..num_critical_values |->
        (Sum(y) - false_positives(k - 1)) + (negatives(k - 1) - false_positives(k - 1))]

accuracy_score == Ratio(Max(Range(accuracies)), nrows)

\* The probability of what happened; what has no logarithm gives -1.
cross_entropy_score ==
  LET likelihood(i) == IF y[i] = 1 THEN yhat[i] ELSE ONE - yhat[i]
  IN IF \E i \in Rows : likelihood(i) <= 0 THEN -1
     ELSE FoldLeft(LAMBDA product, i : product * likelihood(i), 1, [i \in Rows |-> i])

Abs(a) == IF a < 0 THEN -a ELSE a

mae_score == Ratio(Sum([i \in Rows |-> Abs(y[i] - yhat[i])]), nrows)

rmse_score == Ratio(Sum([i \in Rows |-> (y[i] - yhat[i]) * (y[i] - yhat[i])]), nrows)

\* nrows^2 times a covariance.
Covariance(a, b) == nrows * Sum([i \in Rows |-> a[i] * b[i]]) - Sum(a) * Sum(b)

rsquared_score ==
  LET var == Covariance(yhat, yhat) * Covariance(y, y)
  IN IF var = 0 THEN Ratio(-1, 1)
     ELSE Ratio(Covariance(yhat, y) * Covariance(yhat, y), var)

score(is_classification) ==
  IF is_classification
  THEN [kind |-> "classification", auc |-> auc_score, accuracy |-> accuracy_score,
        cross_entropy |-> cross_entropy_score]
  ELSE [kind |-> "regression", mae |-> mae_score, rmse |-> rmse_score,
        rsquared |-> rsquared_score]

-----------------------------------------------------------------------------
(* metrics::Summarizer: plots of a column of numbers *)

\* A value that is smaller than all before it is not compared with the maximum.
find_min_and_max ==
  FoldLeft(LAMBDA m, val : IF val = NaN THEN m
                           ELSE IF val < m.min THEN [m EXCEPT !.min = val]
                           ELSE IF val > m.max THEN [m EXCEPT !.max = val] ELSE m,
           [min |-> MAX, max |-> -MAX], yhat)

\* The number of steps may be rounded down.
calculate_step_sizes_and_num_bins(num_bins) ==
  IF find_min_and_max.min >= find_min_and_max.max \/ num_bins = 0 THEN {0}
  ELSE IF num_bins > 2 THEN {num_bins, num_bins - 1} ELSE {num_bins}

\* A mutant: the maximum has a bin of its own.
identify_bin_unbounded(num_bins, actual_num_bins, val) ==
  1 + ((val - find_min_and_max.min) * num_bins)
        \div (find_min_and_max.max - find_min_and_max.min)

identify_bin(num_bins, actual_num_bins, val) ==
  Min({1 + ((val - find_min_and_max.min) * num_bins)
             \div (find_min_and_max.max - find_min_and_max.min),
       actual_num_bins})

InBin(num_bins, actual_num_bins, bin) ==
  {i \in Rows : yhat[i] # NaN /\ identify_bin(num_bins, actual_num_bins, yhat[i]) = bin}

feature_densities(num_bins, actual_num_bins) ==
  [bin \in 1..actual_num_bins |-> Cardinality(InBin(num_bins, actual_num_bins, bin))]

\* The average of a bin, or its middle.
calculate_labels(num_bins, actual_num_bins) ==
  LET min == find_min_and_max.min
      range == find_min_and_max.max - min
  IN [bin \in 1..actual_num_bins |->
        LET rows == InBin(num_bins, actual_num_bins, bin)
        IN IF rows # {} THEN Ratio(SumOver(rows, LAMBDA i : yhat[i]), Cardinality(rows))
           ELSE Ratio(2 * min * num_bins + (2 * bin - 1) * range, 2 * num_bins)]

calculate_average_targets(num_bins, actual_num_bins) ==
  [bin \in 1..actual_num_bins |->
     LET rows == {i \in InBin(num_bins, actual_num_bins, bin) : y[i] # NaN}
     IN IF rows = {} THEN Ratio(0, 1)
        ELSE Ratio(SumOver(rows, LAMBDA i : y[i]), Cardinality(rows))]

calculate_feature_plots(num_bins) ==
  {[kind |-> "feature plots", densities |-> feature_densities(num_bins, actual),
    labels |-> calculate_labels(num_bins, actual),
    average_targets |-> calculate_average_targets(num_bins, actual)] :
   actual \in calculate_step_sizes_and_num_bins(num_bins)}

\* The covariance and what the correlation divides it by, squared; what is not
\* a number is replaced by zero.
calculate_feature_correlations ==
  LET var == Covariance(yhat, yhat) * Covariance(y, y)
  IN [kind |-> "correlations", cov |-> IF var = 0 THEN 0 ELSE Covariance(yhat, y),
      var |-> IF var = 0 THEN 1 ELSE var]

-----------------------------------------------------------------------------
(* Plots of a categorical column *)

\* The bins: the first ones hold one entry more.
Binned(num_bins, entries) ==
  LET per_bin == Len(entries) \div num_bins
      remaining == Len(entries) % num_bins
      first(k) == (k - 1) * per_bin + Min({k - 1, remaining}) + 1
  IN IF Len(entries) < num_bins THEN [k \in DOMAIN entries |-> <<entries[k]>>]
     ELSE [k \in 1..num_bins |-> SubSeq(entries, first(k), first(k + 1) - 1)]

RowsWith(category) == {i \in Rows : yhat[i] = category}

\* Entries in the order of the map, sorted, but not stably.
Sorted(entries, precedes(_, _)) ==
  {order \in SetToSeqs(entries) :
     \A i, k \in DOMAIN order : i < k => ~precedes(order[k], order[i])}

counts_plot(num_bins) ==
  LET entries == {[category |-> c, count |-> Cardinality(RowsWith(c))] : c \in Range(yhat)}
  IN {[kind |-> "counts",
       bins |-> Binned(num_bins, order),
       data |-> [k \in DOMAIN Binned(num_bins, order) |->
                   LET bin == Binned(num_bins, order)[k]
                   IN Ratio(Sum([e \in DOMAIN bin |-> bin[e].count]), Len(bin))]] :
      order \in Sorted(entries, LAMBDA p, q : p.count > q.count)}

\* Rows without a target are left out.
frequencies_plot(num_bins) ==
  LET rows(c) == {i \in RowsWith(c) : y[i] # NaN}
      entries == {[category |-> c, count |-> Cardinality(rows(c)),
                   total |-> SumOver(rows(c), LAMBDA i : y[i])] :
                  c \in {d \in Range(yhat) : rows(d) # {}}}
      above(p, q) == p.total * q.count > q.total * p.count
      counted(bin) == Sum([e \in DOMAIN bin |-> bin[e].count])
  IN {LET bins == Binned(num_bins, order)
      IN [kind |-> "frequencies", bins |-> bins,
          accumulated |-> [k \in DOMAIN bins |-> Sum([b \in 1..k |-> counted(bins[b])])],
          data |-> [k \in DOMAIN bins |->
                      Ratio(Sum([e \in DOMAIN bins[k] |-> bins[k][e].total]),
                            counted(bins[k]))]] :
      order \in Sorted(entries, above)}

-----------------------------------------------------------------------------
(* The requests *)

Nothing == [kind |-> "nothing"]
Throw == [kind |-> "error"]

Columns(values) == UNION {[1..n -> values] : n \in NumRows}

Init ==
  /\ yhat \in Columns(Predictions) \cup Columns(Features) \cup Columns(Categories)
  /\ y \in UNION {[1..n -> Targets] : n \in {Len(yhat)}}
  /\ result = Nothing

Numbers(values) == Range(yhat) \subseteq values

Answer(answers) ==
  /\ result = Nothing
  /\ result' \in answers
  /\ UNCHANGED <<yhat, y>>

Score ==
  /\ Numbers(Predictions) /\ NaN \notin Range(y)
  /\ \E is_classification \in BOOLEAN :
       Answer({IF is_classification /\ ~Range(y) \subseteq {0, 1} THEN Throw
               ELSE score(is_classification)})

calculate_feature_stats ==
  /\ Numbers(Features) /\ NaN \notin Range(y) \cup Range(yhat)
  /\ Answer({calculate_feature_correlations})

calc_column_plots ==
  /\ Numbers(Features)
  /\ \E num_bins \in NumBins : Answer(calculate_feature_plots(num_bins))

calc_categorical_column_plots ==
  /\ Numbers(Categories)
  /\ \E num_bins \in NumBins, with_target \in BOOLEAN :
       Answer(IF num_bins = 0 THEN {Throw}
              ELSE IF with_target THEN frequencies_plot(num_bins)
              ELSE counts_plot(num_bins))

Next ==
  \/ Score
  \/ calculate_feature_stats
  \/ calc_column_plots
  \/ calc_categorical_column_plots

Spec == Init /\ [][Next]_vars

-----------------------------------------------------------------------------
(* Properties *)

TypeOK ==
  /\ Len(yhat) = Len(y)
  /\ result.kind \in {"nothing", "error", "classification", "regression", "correlations",
                      "feature plots", "counts", "frequencies"}
  /\ result.kind = "classification" =>
       /\ Len(result.auc.tpr) = Len(result.auc.fpr)
       /\ Len(result.auc.precision) = Len(result.auc.tpr)

Positives == {i \in Rows : y[i] = 1}

\* The AUC is the share of pairs of a positive and a negative row that the
\* predictions order rightly, a tie counting half; the accuracy is that of a
\* threshold, no better than the best one and no worse than calling everything
\* negative; and the rates fall from one to zero.
RankingsAreScored ==
  result.kind = "classification" =>
    LET negatives == Rows \ Positives
        pairs == {p \in Positives \X negatives : yhat[p[1]] > yhat[p[2]]}
        ties == {p \in Positives \X negatives : yhat[p[1]] = yhat[p[2]]}
        right(t) == Cardinality({i \in Rows : (yhat[i] > t) = (y[i] = 1)})
        rates == result.auc.tpr
    IN /\ Positives # {} /\ negatives # {} =>
            Same(result.auc.auc,
                 Ratio(2 * Cardinality(pairs) + Cardinality(ties),
                       2 * Cardinality(Positives) * Cardinality(negatives)))
       /\ result.accuracy.num \in
            Cardinality(negatives)..Max({right(t) : t \in Range(yhat)})
       /\ Positives # {} =>
            \A k \in 2..Len(rates) : AtMost(rates[k], rates[k - 1])

\* The scores of a regression agree: the mean squared error is at least the
\* square of the mean error, and R squared is the square of the correlation of
\* two columns, at most one, and one when there is no error.
ErrorsAgree ==
  /\ result.kind = "regression" =>
       /\ AtMost(Ratio(result.mae.num * result.mae.num, nrows * nrows), result.rmse)
       /\ AtMost(result.rsquared, Ratio(1, 1))
       /\ result.rmse.num = 0 /\ Cardinality(Range(y)) > 1 =>
            Same(result.rsquared, Ratio(1, 1))
  /\ result.kind = "correlations" => result.cov * result.cov <= result.var

\* The bins of a plot hold every row that has a value once, in their order, and
\* the averages of the bins add up to the average of the column.
PlotsAddUp ==
  /\ result.kind = "feature plots" /\ result.densities # <<>> =>
       /\ Sum(result.densities) = Cardinality({i \in Rows : yhat[i] # NaN})
       /\ \A k \in 2..Len(result.labels) :
            result.densities[k] > 0 => AtMost(result.labels[k - 1], result.labels[k])
  /\ result.kind \in {"counts", "frequencies"} =>
       /\ \A k \in 2..Len(result.data) : AtMost(result.data[k], result.data[k - 1])
       /\ \A k, l \in DOMAIN result.bins : Abs(Len(result.bins[k]) - Len(result.bins[l])) <= 1
  /\ result.kind = "counts" =>
       Sum([k \in DOMAIN result.data |-> result.data[k].num]) = nrows
  /\ result.kind = "frequencies" =>
       /\ result.bins # <<>> =>
            Last(result.accumulated) = Cardinality({i \in Rows : y[i] # NaN})
       /\ Sum([k \in DOMAIN result.data |-> result.data[k].num])
            = SumOver({i \in Rows : y[i] # NaN}, LAMBDA i : y[i])

=============================================================================
