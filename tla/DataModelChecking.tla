-------------------------- MODULE DataModelChecking --------------------------
(***************************************************************************)
(* preprocessors::data_model_checking: what the check of a pipeline warns  *)
(* of, given the preprocessed tables, the data model and the feature       *)
(* learners.                                                               *)
(*                                                                         *)
(* A data frame is [name, columns], a column [name, role, unit, subroles,  *)
(* data].  Names and units are sequences of tokens (see Macros), texts     *)
(* sequences of characters, categories and join keys their numbers in the  *)
(* encoding (-1 is NULL), numbers integers or NaN or INF.  The data model  *)
(* is [name, joins], a join [table, join_key, other_join_key, time_stamp,  *)
(* other_time_stamp, upper_time_stamp, propositionalization].  A warning   *)
(* is [label, about, of]: what it is about stands for its wording.         *)
(***************************************************************************)
EXTENDS SQLGenerator

CONSTANTS
    MaxMatches,       \* above this many matches for a row a join takes long: 300
    MaxDistinct,      \* above this many values a category takes long: 1000
    MaxMultirel,      \* above this many columns Multirel takes long: 20
    MaxRelmt          \* above this many numbers RelMT takes long: 40

NaN == -1000000
INF ==  1000000

FASTPROP == "FastProp"
MULTIREL == "Multirel"
RELMT    == "RelMT"

-----------------------------------------------------------------------------
(* containers::DataFrame, containers::Column *)

nrows(df) == IF df.columns = <<>> THEN 0 ELSE Len(df.columns[1].data)

with_role(df, role) == SelectSeq(df.columns, LAMBDA c : c.role = role)

has_column(df, role, name) == \E i \in DOMAIN df.columns :
                                df.columns[i].role = role /\ df.columns[i].name = name

column(df, role, name) ==
    df.columns[CHOOSE i \in DOMAIN df.columns :
                    df.columns[i].role = role /\ df.columns[i].name = name]

\* The rows of a table in which a join key occurs.
find_rows(df, name, key) ==
    LET data == column(df, "join_key", name).data
    IN  IF key < 0 THEN {} ELSE {i \in DOMAIN data : data[i] = key}

-----------------------------------------------------------------------------
(* The warnings *)

column_should_be_unused(about, of) ==
    [label |-> "COLUMN SHOULD BE UNUSED", about |-> about, of |-> of]
data_model_can_be_improved(about, of) ==
    [label |-> "DATA MODEL CAN BE IMPROVED", about |-> about, of |-> of]
join_keys_not_found(about, of) ==
    [label |-> "FOREIGN KEYS NOT FOUND", about |-> about, of |-> of]
might_take_long(about, of) ==
    [label |-> "MIGHT TAKE LONG", about |-> about, of |-> of]

modify_df_name(df_name) == make_staging_table_name(df_name)

modify_colname(colname) == make_staging_table_colname(colname)

modify_join_key_name(jk_name) ==
    LET names == parse_join_key_name(jk_name)
    IN  [i \in DOMAIN names |-> IF Contains(names[i], COLUMN)
                                THEN get_param(names[i], COLUMN) ELSE names[i]]

ColumnOf(colname, df_name) == <<modify_colname(colname), modify_df_name(df_name)>>

\* The two tables and the two join keys a join is over.
JoinOf(population_df, peripheral_df, join) ==
    <<modify_df_name(population_df.name), modify_join_key_name(join.join_key),
      modify_df_name(peripheral_df.name), modify_join_key_name(join.other_join_key)>>

warn_all_equal(of) == column_should_be_unused("all equal", of)

warn_is_empty(df_name) ==
    data_model_can_be_improved("is empty", modify_df_name(df_name))

warn_many_to_one(of) == data_model_can_be_improved("many to one", of)

warn_no_matches(of) == data_model_can_be_improved("no matches", of)

warn_not_found(num_not_found, of) == join_keys_not_found(num_not_found, of)

warn_propositionalization_with_relmt(of) ==
    might_take_long("propositionalization with RelMT", of)

warn_too_many_columns_multirel(num_columns, df_name) ==
    might_take_long(num_columns, modify_df_name(df_name))

warn_too_many_columns_relmt(num_columns, pop, per) ==
    might_take_long(IF pop = per THEN num_columns \div 2 ELSE num_columns, <<pop, per>>)

warn_too_many_matches(num_matches, of) == might_take_long(<<"matches", num_matches>>, of)

warn_too_many_nulls(of) == column_should_be_unused("nulls", of)

warn_too_many_unique(num_distinct, of) == might_take_long(num_distinct, of)

warn_unique_share_too_high(of) == column_should_be_unused("unique share", of)

-----------------------------------------------------------------------------
(* Columns and tables.  The shares are compared as products of integers.     *)

When(condition, warning) == IF condition THEN <<warning>> ELSE <<>>

comparison_only(col) == Contains(col.unit, "comparison only")

CategoryWarnings(col, non_null, distinct, of) ==
    When(10 * (Len(col.data) - Len(non_null)) > 9 * Len(col.data), warn_too_many_nulls(of))
    \o IF non_null = <<>> \/ comparison_only(col) THEN <<>>
       ELSE When(distinct = 1, warn_all_equal(of))
            \o When(distinct > MaxDistinct, warn_too_many_unique(distinct, of))
            \o When(4 * distinct > Len(non_null), warn_unique_share_too_high(of))

check_categorical_column(col, df_name) ==
    LET non_null == SelectSeq(col.data, LAMBDA v : v >= 0)
    IN  CategoryWarnings(col, non_null, Cardinality(ToSet(non_null)), ColumnOf(col.name, df_name))

is_all_equal(col) == Cardinality(ToSet(col.data) \ {NaN}) <= 1

FloatWarnings(col, non_null, of) ==
    When(10 * (Len(col.data) - Len(non_null)) > 9 * Len(col.data), warn_too_many_nulls(of))
    \o When(~comparison_only(col) /\ is_all_equal(col), warn_all_equal(of))

check_float_column(col, df_name) ==
    FloatWarnings(col, SelectSeq(col.data, LAMBDA v : v # NaN), ColumnOf(col.name, df_name))

\* The warnings about every column, in their order.
OnEach(columns, df_name, Check(_, _)) ==
    FlattenSeq([i \in DOMAIN columns |-> Check(columns[i], df_name)])

check_df(df, check_num_columns) ==
    LET num_columns == Len(with_role(df, "numerical")) + Len(with_role(df, "categorical"))
    IN  IF nrows(df) = 0 THEN <<warn_is_empty(df.name)>>
        ELSE When(check_num_columns /\ num_columns > MaxMultirel,
                  warn_too_many_columns_multirel(num_columns, df.name))
             \o OnEach(with_role(df, "categorical"), df.name, check_categorical_column)
             \o OnEach(with_role(df, "numerical") \o with_role(df, "time_stamp"), df.name,
                       check_float_column)

check_num_columns_relmt(population_df, peripheral) ==
    LET Floats(df)  == Len(with_role(df, "numerical")) + Len(with_role(df, "time_stamp"))
        num_columns == Floats(population_df) + Floats(peripheral)
    IN  When(num_columns > MaxRelmt,
             warn_too_many_columns_relmt(num_columns, modify_df_name(population_df.name),
                                         modify_df_name(peripheral.name)))

find_feature_learner(feature_learners, model) ==
    \E i \in DOMAIN feature_learners : feature_learners[i].type = model

check_data_frames(population_df, peripheral, feature_learners) ==
    LET tables == <<population_df>> \o peripheral
    IN  FlattenSeq([i \in DOMAIN tables |->
            check_df(tables[i], i > 1 /\ find_feature_learner(feature_learners, MULTIREL))])
        \o IF ~find_feature_learner(feature_learners, RELMT) THEN <<>>
           ELSE FlattenSeq([i \in DOMAIN peripheral |->
                    check_num_columns_relmt(population_df, peripheral[i])])

-----------------------------------------------------------------------------
(* Joins *)

RECURSIVE calc_num_joins(_)
calc_num_joins(p) ==
    FoldLeft(LAMBDA n, join : n + calc_num_joins(join.table), Len(p.joins), p.joins)

is_in_range(ts1, ts2, upper) ==
    /\ NaN \notin {ts1, ts2} /\ ts2 <= ts1
    /\ upper = NaN \/ ts1 < upper

\* [ok, ts1, ts2, upper]: the time stamps of the rows, or what stands for them.
find_time_stamps(join, population_df, peripheral_df) ==
    LET Stamps(df, name, default) ==
            IF name # <<>> THEN column(df, "time_stamp", name).data
            ELSE [i \in 1..nrows(df) |-> default]
        known(df, name) == name # <<>> => has_column(df, "time_stamp", name)
        ok == /\ (join.time_stamp = <<>>) = (join.other_time_stamp = <<>>)
              /\ join.time_stamp = <<>> => join.upper_time_stamp = <<>>
              /\ known(population_df, join.time_stamp)
              /\ known(peripheral_df, join.other_time_stamp)
              /\ known(peripheral_df, join.upper_time_stamp)
    IN  [ok    |-> ok,
         ts1   |-> IF ok THEN Stamps(population_df, join.time_stamp, 0) ELSE <<>>,
         ts2   |-> IF ok THEN Stamps(peripheral_df, join.other_time_stamp, 0) ELSE <<>>,
         upper |-> IF ok THEN Stamps(peripheral_df, join.upper_time_stamp, NaN) ELSE <<>>]

PickedThrough(k, matches, prob_pick) ==
    FoldSet(LAMBDA i, p : p + prob_pick[i], 0, {i \in DOMAIN matches : k \in matches[i]})

CountMatches(found, matches, n_peripheral, prob_pick) ==
    [is_many_to_one |-> \A i \in DOMAIN matches : Cardinality(matches[i]) <= 1,
     num_matches    |-> FoldFunction(LAMBDA m, n : Cardinality(m) + n, 0, matches),
     num_expected   |-> FoldFunction(+, 0, [i \in DOMAIN matches |->
                            Cardinality(matches[i]) * prob_pick[i]]),
     num_not_found  |-> Cardinality({i \in DOMAIN found : found[i] = {}}),
     prob_pick      |-> [k \in 1..n_peripheral |-> PickedThrough(k, matches, prob_pick)]]

CountFound(found, stamps, n_peripheral, prob_pick) ==
    CountMatches(found,
        [i \in DOMAIN found |->
            {k \in found[i] : is_in_range(stamps.ts1[i], stamps.ts2[k], stamps.upper[k])}],
        n_peripheral, prob_pick)

\* prob_pick, the probability that a row is picked, and num_expected, the number of
\* matches of such a row, are counted in parts of the number of population rows.
check_matches(join, population_df, peripheral_df, prob_pick) ==
    LET jk1 == column(population_df, "join_key", join.join_key).data
    IN  CountFound([i \in DOMAIN jk1 |-> find_rows(peripheral_df, join.other_join_key, jk1[i])],
                   find_time_stamps(join, population_df, peripheral_df),
                   nrows(peripheral_df), prob_pick)

\* num_rows, the rows of the population, is what num_expected is counted in.
raise_join_warnings(is_prop, is_prop_with_relmt, m, num_rows, of) ==
    IF m.num_matches = 0 THEN <<warn_no_matches(of)>>
    ELSE When(m.is_many_to_one, warn_many_to_one(of))
         \o When(~is_prop /\ m.num_expected > MaxMatches * num_rows,
                 warn_too_many_matches(m.num_matches, of))
         \o When(is_prop_with_relmt, warn_propositionalization_with_relmt(of))
         \o When(m.num_not_found > 0, warn_not_found(m.num_not_found, of))

Refused == [ok |-> FALSE, warnings |-> <<>>]

WithWarnings(acc, r) == [ok |-> r.ok, warnings |-> acc.warnings \o r.warnings]

\* What a join is checked with: all = [names, peripheral, feature_learners, num_rows].
JoinWarnings(join, all, population_df, per, m) ==
    [ok       |-> TRUE,
     warnings |-> raise_join_warnings(
        join.propositionalization \/ \A i \in DOMAIN all.feature_learners :
                                          all.feature_learners[i].type = FASTPROP,
        join.propositionalization /\ find_feature_learner(all.feature_learners, RELMT),
        m, all.num_rows, JoinOf(population_df, per, join))]

joins_two(join, population_df, per) ==
    /\ has_column(population_df, "join_key", join.join_key)
    /\ has_column(per, "join_key", join.other_join_key)
    /\ find_time_stamps(join, population_df, per).ok

\* [ok, warnings]: the joins of a table, and of the tables joined to it, in order.
RECURSIVE check_join(_, _, _, _)
CheckBelow(join, all, population_df, per, m) ==
    WithWarnings(JoinWarnings(join, all, population_df, per, m),
                 check_join(join.table, all, per, m.prob_pick))

CheckJoined(join, all, population_df, prob_pick, dist) ==
    IF dist = 0 \/ ~joins_two(join, population_df, all.peripheral[dist]) THEN Refused
    ELSE CheckBelow(join, all, population_df, all.peripheral[dist],
                    check_matches(join, population_df, all.peripheral[dist], prob_pick))

check_join(placeholder, all, population_df, prob_pick) ==
    FoldLeft(LAMBDA acc, join :
        IF ~acc.ok THEN acc
        ELSE WithWarnings(acc, CheckJoined(join, all, population_df, prob_pick,
                SelectInSeq(all.names, LAMBDA n : n = join.table.name))),
        [ok |-> TRUE, warnings |-> <<>>], placeholder.joins)

check_peripheral_size(peripheral_names, peripheral) ==
    Len(peripheral_names) = Len(peripheral)

check_relational(peripheral, feature_learners) ==
    peripheral = <<>> => feature_learners = <<>>

check_all_propositionalization(placeholder, feature_learners) ==
    ~ /\ placeholder.joins # <<>>
      /\ \A i \in DOMAIN placeholder.joins : placeholder.joins[i].propositionalization
      /\ \E i \in DOMAIN feature_learners : feature_learners[i].type # FASTPROP

CheckJoins(placeholder, all, population_df) ==
    IF all.feature_learners = <<>> THEN [ok |-> TRUE, warnings |-> <<>>]
    ELSE check_join(placeholder, all, population_df, [i \in 1..nrows(population_df) |-> 1])

CheckTables(placeholder, all, population_df) ==
    WithWarnings([warnings |-> check_data_frames(population_df, all.peripheral,
                                                 all.feature_learners)],
                 CheckJoins(placeholder, all, population_df))

\* [ok, warnings]: the tables text fields were split into are left out.
check(placeholder, peripheral_names, population_df, all_peripheral, feature_learners) ==
    LET peripheral == SelectSeq(all_peripheral, LAMBDA df : ~Contains(df.name, text_field))
    IN  IF /\ check_relational(all_peripheral, feature_learners)
           /\ check_peripheral_size(peripheral_names, peripheral)
           /\ check_all_propositionalization(placeholder, feature_learners)
           /\ feature_learners # <<>> => nrows(population_df) > 0
        THEN CheckTables(placeholder,
                [names |-> peripheral_names, peripheral |-> peripheral,
                 feature_learners |-> feature_learners, num_rows |-> nrows(population_df)],
                population_df)
        ELSE Refused

=============================================================================
