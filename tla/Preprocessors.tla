---------------------------- MODULE Preprocessors ----------------------------
(***************************************************************************)
(* The preprocessors of a pipeline (src/engine/preprocessors): what they   *)
(* learn while they are fitted, the columns they make of the staged        *)
(* tables, the SQL code of these columns, and the calls that fit, check    *)
(* and apply them.                                                         *)
(*                                                                         *)
(* Tables and columns are those of DataModelChecking.  A text is a sequence *)
(* of characters; the encoding is the sequence of the categories, its      *)
(* numbers counted from 0.  A preprocessor is [type, op, dependencies,     *)
(* learned]; learned is a sequence of descriptions [part, marker, table,   *)
(* name, value], one for each column it was fitted on.  Tables are         *)
(* [population, peripheral].                                               *)
(***************************************************************************)
EXTENDS DataModelChecking

CONSTANTS
    Words(_)         \* the words of a text, in lower case

Null    == <<"N", "U", "L", "L">>   \* a NULL string, and what it reads as
Nan     == <<"n", "a", "n">>
TRIMMED == <<"(trimmed)">>

POPULATION == "[POPULATION]"
PERIPHERAL == "[PERIPHERAL]"

-----------------------------------------------------------------------------
(* containers::Encoding, containers::DataFrame *)

lookup(cats, str) == IF str = Null THEN -1 ELSE SelectInSeq(cats, LAMBDA s : s = str) - 1

insert(cats, str) ==
    IF str = Null \/ Contains(cats, str) THEN cats ELSE Append(cats, str)

insert_all(cats, strs) == FoldLeft(insert, cats, strs)

string_of(cats, id) == IF id < 0 THEN Null ELSE cats[id + 1]

Column(name, role, unit, subroles, data) ==
    [name |-> name, role |-> role, unit |-> unit, subroles |-> subroles, data |-> data]

remove_column(df, name) == [df EXCEPT !.columns = SelectSeq(@, LAMBDA c : c.name # name)]

\* A column of another length is refused.
can_add(df, col) == df.columns = <<>> \/ Len(col.data) = nrows(df)
add_column(df, col) == [remove_column(df, col.name) EXCEPT !.columns = Append(@, col)]

contains_any(col, subroles) == col.subroles \cap subroles # {}

-----------------------------------------------------------------------------
(* preprocessors::PreprocessorImpl.  A step of a preprocessor changes [ok,   *)
(* cats, df, learned].                                                       *)

Desc(part, marker, table, name, value) ==
    [part |-> part, marker |-> marker, table |-> table, name |-> name, value |-> value]

add(s, part, marker, table, name, value) ==
    [s EXCEPT !.learned = Append(@, Desc(part, marker, table, name, value))]

retrieve(learned, part, marker, table) ==
    SelectSeq(learned, LAMBDA d : d.part = part /\ d.marker = marker /\ d.table = table)

has_warnings(col) ==
    (IF col.role = "categorical" THEN check_categorical_column(col, <<"DUMMY">>)
     ELSE check_float_column(col, <<"DUMMY">>)) # <<>>

Put(s, col) == IF can_add(s.df, col) THEN [s EXCEPT !.df = add_column(@, col)]
               ELSE [s EXCEPT !.ok = FALSE]

\* A categorical column of texts: new ones get a number only where fitting is set.
Categorical(cats, name, unit, strs) ==
    Column(name, "categorical", unit, {}, [i \in DOMAIN strs |-> lookup(cats, strs[i])])

PutUnlessUseless(s, desc, col) ==
    IF has_warnings(col) THEN s ELSE Put([s EXCEPT !.learned = Append(@, desc)], col)

PutCategorical(s, desc, name, unit, strs) ==
    PutUnlessUseless(s, desc, Categorical(s.cats, name, unit, strs))

\* What fitting does with the texts it made: one useless column is not learned.
FitCategorical(s, desc, name, unit, strs) ==
    PutCategorical([s EXCEPT !.cats = insert_all(@, strs)], desc, name, unit, strs)

-----------------------------------------------------------------------------
(* EMailDomain *)

\* A text that is no address has no row in the column.
extract_domain_string(col) ==
    LET at      == SelectSeq(col.data, LAMBDA d : Contains(d, "@"))
        domains == [i \in DOMAIN at |-> SubSeq(at[i], find(at[i], "@"), Len(at[i]))]
    IN  SelectSeq(domains, LAMBDA d : Contains(d, "."))

email_name(name) == <<"EMAIL_DOMAIN">> \o name \o <<"EMAIL_END">>

email_fit_transform_df(p, s, marker, table) ==
    LET email(col) == /\ contains_any(col, {"email", "email_only"})
                      /\ ~contains_any(col, {"exclude_preprocessors", "substring_only"})
    IN  FoldLeft(LAMBDA acc, col :
                    IF ~acc.ok \/ ~email(col) THEN acc
                    ELSE FitCategorical(acc, Desc("cols", marker, table, col.name, <<>>),
                            email_name(col.name), <<"email domain">>,
                            extract_domain_string(col)),
                 s, with_role(s.df, "text"))

\* The columns are looked for among the unused ones.
email_transform_df(p, s, marker, table) ==
    FoldLeft(LAMBDA acc, d :
                IF ~acc.ok \/ ~has_column(acc.df, "unused_string", d.name)
                THEN [acc EXCEPT !.ok = FALSE]
                ELSE Put(acc, Categorical(acc.cats, email_name(d.name), <<"email domain">>,
                        extract_domain_string(column(acc.df, "unused_string", d.name)))),
             s, retrieve(p.learned, "cols", marker, table))

-----------------------------------------------------------------------------
(* Substring: op = [begin, length, unit] *)

make_str_col(cats, col) ==
    IF col.role = "categorical"
    THEN [col EXCEPT !.data = [i \in DOMAIN @ |-> string_of(cats, @[i])]] ELSE col

\* [ok, strs]: a text must not end before the substring begins.
extract_substring_string(op, col) ==
    LET ok == \A i \in DOMAIN col.data : Len(col.data[i]) >= op.begin
    IN  [ok |-> ok,
         strs |-> IF ~ok THEN <<>>
                  ELSE [i \in DOMAIN col.data |->
                            SubSeq(col.data[i], op.begin + 1, op.begin + op.length)]]

make_name(op, name) ==
    <<"SUBSTRING">> \o name \o <<"BEGIN", ToString(op.begin + 1), "LENGTH",
                                 ToString(op.length), "CLOSE_BRACKET">>
make_unit(op, unit) == unit \o <<", ", ToString(op.begin), ", ", ToString(op.length)>>

is_substring_of(p, col) ==
    /\ contains_any(col, {"substring", "substring_only"})
    /\ ~contains_any(col, {"exclude_preprocessors", "email_only"})
    /\ p.op.unit # <<>> => col.unit = p.op.unit

FitSubstring(p, s, desc, col, sub) ==
    IF ~sub.ok THEN [s EXCEPT !.ok = FALSE]
    ELSE FitCategorical(s, desc, make_name(p.op, col.name), make_unit(p.op, col.unit), sub.strs)

substring_extract_and_add(p, s, marker, table, col) ==
    IF ~s.ok \/ ~is_substring_of(p, col) THEN s
    ELSE FitSubstring(p, s, Desc("cols", marker, table, col.name, <<>>), col,
                      extract_substring_string(p.op, make_str_col(s.cats, col)))

substring_fit_transform_df(p, s, marker, table) ==
    FoldLeft(LAMBDA acc, col : substring_extract_and_add(p, acc, marker, table, col),
             s, with_role(s.df, "categorical") \o with_role(s.df, "text"))

PutSubstring(p, s, col, sub) ==
    IF ~sub.ok THEN [s EXCEPT !.ok = FALSE]
    ELSE Put(s, Categorical(s.cats, make_name(p.op, col.name), make_unit(p.op, col.unit),
                            sub.strs))

\* The column is looked for among the categorical ones first.
AddSubstring(p, s, df, roles, name) ==
    IF roles = <<>> THEN [s EXCEPT !.ok = FALSE]
    ELSE LET col == column(df, roles[1], name)
         IN  PutSubstring(p, s, col, extract_substring_string(p.op, make_str_col(s.cats, col)))

substring_transform_df(p, s, marker, table) ==
    FoldLeft(LAMBDA acc, d :
                IF ~acc.ok THEN acc
                ELSE AddSubstring(p, acc, s.df,
                        SelectSeq(<<"categorical", "text">>,
                                  LAMBDA role : has_column(s.df, role, d.name)),
                        d.name),
             s, retrieve(p.learned, "cols", marker, table))

-----------------------------------------------------------------------------
(* Seasonal: op is the set of the parts of a time that are disabled.  A time *)
(* is in seconds since 1970.                                                 *)

\* engine::utils::Time: year and month of a day, in years that begin in March.
civil(ts) ==
    LET days == ts \div 86400 + 719468
        era  == days \div 146097
        doe  == days % 146097
        yoe  == (doe - doe \div 1460 + doe \div 36524 - doe \div 146096) \div 365
        doy  == doe - (365 * yoe + yoe \div 4 - yoe \div 100)
        mp   == (5 * doy + 2) \div 153
        m    == IF mp < 10 THEN mp + 3 ELSE mp - 9
    IN  [month |-> m, year |-> yoe + era * 400 + IF m <= 2 THEN 1 ELSE 0]

hour(ts)    == (ts \div 3600) % 24
minute(ts)  == (ts \div 60) % 60
month(ts)   == civil(ts).month
weekday(ts) == (ts \div 86400 + 4) % 7
year(ts)    == civil(ts).year

missing(ts) == ts \in {NaN, INF, -INF}

\* to_categorical, to_int: what is missing is a category like any other.
to_strings(col, Part(_), add_zero) ==
    [i \in DOMAIN col.data |->
        LET val == Part(col.data[i])
        IN  IF missing(col.data[i]) THEN Nan
            ELSE (IF add_zero /\ val < 10 THEN <<"0">> ELSE <<>>) \o <<ToString(val)>>]

to_numerical(col, Part(_)) ==
    [i \in DOMAIN col.data |-> IF missing(col.data[i]) THEN NaN ELSE Part(col.data[i])]

Parts == <<"hour", "minute", "month", "weekday", "year">>

part_name(part, name) ==
    LET upper == [hour |-> "HOUR", minute |-> "MINUTE", month |-> "MONTH",
                  weekday |-> "WEEKDAY", year |-> "YEAR"]
    IN  <<upper[part] \o "_BEGIN">> \o name \o <<upper[part] \o "_END">>

extract_hour(col)    == to_strings(col, hour, TRUE)
extract_minute(col)  == to_strings(col, minute, TRUE)
extract_month(col)   == to_strings(col, month, TRUE)
extract_weekday(col) == to_strings(col, weekday, FALSE)

extract_year(col) ==
    Column(part_name("year", col.name), "numerical", <<"year", ", ", "comparison only">>, {},
           to_numerical(col, year))

Extracted(part, col) ==
    CASE part = "hour"  -> extract_hour(col)  [] part = "minute"  -> extract_minute(col)
      [] part = "month" -> extract_month(col) [] part = "weekday" -> extract_weekday(col)

seasonal_fit_transform_df(p, s, marker, table) ==
    LET used(col) == /\ ~Contains(col.name, generated_ts)
                     /\ ~contains_any(col, {"exclude_preprocessors", "email_only",
                                            "substring_only", "exclude_seasonal"})
        Fit(acc, part, col) ==
            IF part \in p.op THEN acc
            ELSE IF part = "year"
            THEN PutUnlessUseless(acc, Desc("year", marker, table, col.name, <<>>),
                                  extract_year(col))
            ELSE FitCategorical(acc, Desc(part, marker, table, col.name, <<>>),
                                part_name(part, col.name), <<part>>, Extracted(part, col))
    IN  FoldLeft(LAMBDA acc, col :
                    IF ~used(col) THEN acc
                    ELSE FoldLeft(LAMBDA t, part : Fit(t, part, col), acc, Parts),
                 s, with_role(s.df, "time_stamp"))

seasonal_transform_df(p, s, marker, table) ==
    LET Made(acc, part, d) ==
            IF ~acc.ok \/ ~has_column(acc.df, "time_stamp", d.name)
            THEN [acc EXCEPT !.ok = FALSE]
            ELSE LET col == column(acc.df, "time_stamp", d.name)
                 IN  Put(acc, IF part = "year" THEN extract_year(col)
                              ELSE Categorical(acc.cats, part_name(part, d.name), <<part>>,
                                               Extracted(part, col)))
    IN  FoldLeft(LAMBDA acc, part :
                    FoldLeft(LAMBDA t, d : Made(t, part, d), acc,
                             retrieve(p.learned, part, marker, table)),
                 s, Parts)

-----------------------------------------------------------------------------
(* Imputation: op says whether dummies are added.  A mean is rounded.        *)

imputation_name(name, mean) ==
    <<"IMPUTATION_BEGIN">> \o name \o <<"IMPUTATION_REPLACEMENT", ToString(mean), "IMPUTATION_END">>
make_dummy_name(name) == <<"DUMMY_BEGIN">> \o name \o <<"DUMMY_END">>

impute(s, col, mean) ==
    LET new == Column(imputation_name(col.name, mean), "numerical", col.unit, {},
                      [i \in DOMAIN col.data |->
                            IF col.data[i] = NaN THEN mean ELSE col.data[i]])
    IN  Put([s EXCEPT !.df = remove_column(@, col.name)], new)

add_dummy(s, col) ==
    Put(s, Column(make_dummy_name(col.name), "numerical", <<>>, {},
                  [i \in DOMAIN col.data |-> IF col.data[i] = NaN THEN 1 ELSE 0]))

imputation_extract_and_add(p, s, marker, table, col) ==
    LET known == SelectSeq(col.data, LAMBDA v : v # NaN)
        mean  == FoldLeft(+, 0, known) \div Len(known)
        dummy == p.op /\ Len(known) < Len(col.data)
        t     == impute(s, col, mean)
    IN  IF known = <<>> \/ ToSet(known) \cap {INF, -INF} # {} THEN [s EXCEPT !.ok = FALSE]
        ELSE add(IF dummy THEN add_dummy(t, col) ELSE t, "cols", marker, table, col.name,
                 [mean |-> mean, needs_dummy |-> dummy])

imputation_fit_transform_df(p, s, marker, table) ==
    LET used(col) == ~contains_any(col, {"exclude_preprocessors", "email_only",
                                         "substring_only", "exclude_imputation"})
    IN  FoldLeft(LAMBDA acc, col :
                    IF ~acc.ok \/ ~used(col) THEN acc
                    ELSE imputation_extract_and_add(p, acc, marker, table, col),
                 s, with_role(s.df, "numerical"))

\* A mutant: what is missing is replaced by the mean of the rows at hand.
imputation_transform_df_own_mean(p, s, marker, table) ==
    FoldLeft(LAMBDA acc, d :
                LET col   == column(s.df, "numerical", d.name)
                    known == SelectSeq(col.data, LAMBDA v : v # NaN)
                    t     == impute(acc, col, IF known = <<>> THEN 0
                                              ELSE FoldLeft(+, 0, known) \div Len(known))
                IN  IF ~has_column(s.df, "numerical", d.name) THEN [acc EXCEPT !.ok = FALSE]
                    ELSE IF d.value.needs_dummy THEN add_dummy(t, col) ELSE t,
             s, retrieve(p.learned, "cols", marker, table))

imputation_transform_df(p, s, marker, table) ==
    FoldLeft(LAMBDA acc, d :
                LET col == column(s.df, "numerical", d.name)
                    t   == impute(acc, col, d.value.mean)
                IN  IF ~has_column(s.df, "numerical", d.name) THEN [acc EXCEPT !.ok = FALSE]
                    ELSE IF d.value.needs_dummy THEN add_dummy(t, col) ELSE t,
             s, retrieve(p.learned, "cols", marker, table))

-----------------------------------------------------------------------------
(* CategoryTrimmer: op = [min_freq, max_num_categories]                      *)

make_map(col) ==
    LET ids == ToSet(col.data) \ {-1}
    IN  [id \in ids |-> Cardinality({i \in DOMAIN col.data : col.data[i] = id})]

\* The most frequent ones first; of those as frequent, the lowest number.
make_counts(col) ==
    LET count == make_map(col)
    IN  SetToSortSeq(DOMAIN count, LAMBDA a, b :
            count[a] > count[b] \/ (count[a] = count[b] /\ a < b))

make_category_set(op, col) ==
    LET count == make_map(col)
        often == SelectSeq(make_counts(col), LAMBDA id : count[id] >= op.min_freq)
    IN  ToSet(SubSeq(often, 1, IF Len(often) < op.max_num_categories THEN Len(often)
                               ELSE op.max_num_categories))

trimmer_fit_df(p, df, marker, table) ==
    LET used == SelectSeq(with_role(df, "categorical"), LAMBDA col :
                    ~contains_any(col, {"exclude_preprocessors", "email_only",
                                        "substring_only", "exclude_category_trimmer"}))
    IN  [i \in DOMAIN used |->
            Desc("sets", marker, table, used[i].name, make_category_set(p.op, used[i]))]

\* A mutant: a category that is not known to the trimmer is kept.
trimmed_keep(id, known, cats) == IF id = -1 THEN lookup(cats, TRIMMED) ELSE id

trimmed(id, known, cats) == IF id \in known THEN id ELSE lookup(cats, TRIMMED)

TrimColumn(s, col, known) ==
    Put(s, [col EXCEPT !.data = [i \in DOMAIN @ |-> trimmed(@[i], known, s.cats)]])

trimmer_transform_df(p, s, marker, table) ==
    FoldLeft(LAMBDA acc, d :
                IF ~acc.ok \/ ~has_column(s.df, "categorical", d.name)
                THEN [acc EXCEPT !.ok = FALSE]
                ELSE TrimColumn(acc, column(s.df, "categorical", d.name), d.value),
             s, retrieve(p.learned, "sets", marker, table))

\* The kept categories, 500 of them in a statement, and the join that replaces the
\* others.
TrimmingStatements(cats, staging, colname, trimming, ids) ==
    <<Statement("create", trimming, <<[name |-> <<"key">>]>>, <<>>, <<>>)>>
    \o [k \in 1..(Len(ids) + 499) \div 500 |->
            LET batch == SelectSeq(ids, LAMBDA id :
                            (SelectInSeq(ids, LAMBDA x : x = id) - 1) \div 500 = k - 1)
            IN  Statement("insert", trimming,
                          [i \in DOMAIN batch |->
                                [name |-> <<"key">>, expr |-> string_of(cats, batch[i])]],
                          <<>>, <<>>)]
    \o <<Statement("replace", staging, <<[name |-> colname]>>, trimming, <<TRIMMED>>)>>

TrimmingNamed(cats, staging, colname, value) ==
    TrimmingStatements(cats, staging, colname, staging \o <<"__TRIMMING_">> \o colname,
                       SetToSortSeq(value, <))

column_to_sql(cats, table, d) ==
    TrimmingNamed(cats, make_staging_table_name(table), make_staging_table_colname(d.name),
                  d.value)

-----------------------------------------------------------------------------
(* TextFieldSplitter *)

add_rowid(df) ==
    add_column(df, Column(<<"rowid">>, "join_key", <<>>, {}, [i \in 1..nrows(df) |-> i - 1]))

remove_text_fields(df) ==
    FoldLeft(LAMBDA acc, col :
                remove_column(add_column(acc, [col EXCEPT !.name = Append(@, text_field),
                                                          !.role = "unused_string"]),
                              col.name),
             df, with_role(df, "text"))

splitter_fit_df(df, marker) ==
    LET cols == with_role(df, "text")
    IN  [i \in DOMAIN cols |-> Desc("cols", marker, df.name, cols[i].name, <<>>)]

word_row(i, k) == i - 1

split_text_fields_on_col(col) ==
    LET words == FlattenSeq([i \in DOMAIN col.data |->
                    [k \in DOMAIN Words(col.data[i]) |->
                        <<word_row(i, k), Words(col.data[i])[k]>>]])
    IN  [rownums |-> [i \in DOMAIN words |-> words[i][1]],
         words   |-> [i \in DOMAIN words |-> words[i][2]]]

make_new_df(df_name, col) ==
    LET split_ == split_text_fields_on_col(col)
    IN  [name |-> df_name \o <<text_field>> \o col.name,
         columns |-> <<Column(<<"rownum">>, "join_key", <<>>, {}, split_.rownums),
                       Column(col.name, "text", <<>>, {}, split_.words)>>]

splitter_transform_df(p, df, marker) ==
    LET descs == retrieve(p.learned, "cols", marker, df.name)
    IN  [i \in DOMAIN descs |-> make_new_df(df.name, column(df, "text", descs[i].name))]

splitter_fit(tables) ==
    splitter_fit_df(tables.population, POPULATION)
    \o FlattenSeq([i \in DOMAIN tables.peripheral |->
                        splitter_fit_df(tables.peripheral[i], PERIPHERAL)])

\* A text column that was fitted on is asked for by its name.
splitter_transform(p, tables) ==
    LET modify(df) == IF with_role(df, "text") = <<>> THEN df
                      ELSE remove_text_fields(add_rowid(df))
        per == tables.peripheral
        known(df, marker) == \A d \in ToSet(retrieve(p.learned, "cols", marker, df.name)) :
                                has_column(df, "text", d.name)
        ok == /\ known(tables.population, POPULATION)
              /\ \A i \in DOMAIN per : known(per[i], PERIPHERAL)
    IN  [ok |-> ok,
         tables |-> IF ~ok THEN tables
            ELSE [population |-> modify(tables.population),
                  peripheral |-> [i \in DOMAIN per |-> modify(per[i])]
                    \o splitter_transform_df(p, tables.population, POPULATION)
                    \o FlattenSeq([i \in DOMAIN per |->
                            splitter_transform_df(p, per[i], PERIPHERAL)])]]

-----------------------------------------------------------------------------
(* preprocessors::Preprocessor *)

\* PreprocessorParser: a preprocessor that has learned nothing.
parse(cmd, dependencies) ==
    [type |-> cmd.type, op |-> cmd.op, dependencies |-> dependencies, learned |-> <<>>]

fingerprint(p) == <<p.type, p.op, p.dependencies>>

\* One table after the other: [ok, cats, tables, learned].
EachTable(p, cats, tables, Do(_, _, _, _)) ==
    LET Start(c, df, learned) == [ok |-> TRUE, cats |-> c, df |-> df, learned |-> learned]
        first == Do(p, Start(cats, tables.population, <<>>), POPULATION, 0)
        rest  == FoldLeft(LAMBDA acc, i :
                    IF ~acc.s.ok THEN acc
                    ELSE LET s == Do(p, Start(acc.s.cats, tables.peripheral[i],
                                              acc.s.learned), PERIPHERAL, i - 1)
                         IN  [s |-> s, dfs |-> Append(acc.dfs, s.df)],
                    [s |-> first, dfs |-> <<>>], [i \in DOMAIN tables.peripheral |-> i])
    IN  [ok |-> rest.s.ok, cats |-> rest.s.cats, learned |-> rest.s.learned,
         tables |-> [population |-> first.df, peripheral |-> rest.dfs]]

preprocessor_transform(p, cats, tables) ==
    CASE p.type = "EMailDomain"     -> EachTable(p, cats, tables, email_transform_df)
      [] p.type = "Substring"       -> EachTable(p, cats, tables, substring_transform_df)
      [] p.type = "Seasonal"        -> EachTable(p, cats, tables, seasonal_transform_df)
      [] p.type = "Imputation"      -> EachTable(p, cats, tables, imputation_transform_df)
      [] p.type = "CategoryTrimmer" -> EachTable(p, cats, tables, trimmer_transform_df)
      [] p.type = "TextFieldSplitter" ->
            LET r == splitter_transform(p, tables)
            IN  [ok |-> r.ok, cats |-> cats, tables |-> r.tables, learned |-> p.learned]

TransformLearned(p, cats, tables, learned) ==
    [preprocessor_transform([p EXCEPT !.learned = learned], cats, tables)
        EXCEPT !.learned = learned]

\* What it learns from the tables, and the tables it makes of them.
preprocessor_fit_transform(p, cats, tables) ==
    LET Trim(q, s, marker, table) ==
            [s EXCEPT !.learned = @ \o trimmer_fit_df(q, s.df, marker, table)]
    IN  CASE p.type = "EMailDomain" -> EachTable(p, cats, tables, email_fit_transform_df)
          [] p.type = "Substring"   -> EachTable(p, cats, tables, substring_fit_transform_df)
          [] p.type = "Seasonal"    -> EachTable(p, cats, tables, seasonal_fit_transform_df)
          [] p.type = "Imputation"  -> EachTable(p, cats, tables, imputation_fit_transform_df)
          [] p.type = "CategoryTrimmer" ->
                TransformLearned(p, insert(cats, TRIMMED), tables,
                                 EachTable(p, cats, tables, Trim).learned)
          [] p.type = "TextFieldSplitter" ->
                TransformLearned(p, cats, tables, splitter_fit(tables))

\* preprocessors_to_sql.  names are those of the tables the trimmers were fitted on.
preprocessors_to_sql(preprocessors, cats, tables) ==
    LET TableOf(d) == IF d.marker = POPULATION THEN tables.population.name
                      ELSE tables.peripheral[d.table + 1].name
        Code(p) == CASE p.type = "CategoryTrimmer" ->
                            FlattenSeq([i \in DOMAIN p.learned |->
                                column_to_sql(cats, TableOf(p.learned[i]), p.learned[i])])
                     [] p.type = "TextFieldSplitter" ->
                            [i \in DOMAIN p.learned |-> split_text_fields(p.learned[i])]
                     [] OTHER -> <<>>
    IN  FlattenSeq([i \in DOMAIN preprocessors |-> Code(preprocessors[i])])

-----------------------------------------------------------------------------
(* The calls: pipelines::fit, pipelines::check, pipelines::transform and the *)
(* handlers of the PipelineManager around them.                              *)

CONSTANTS
    RawTables,   \* the staged tables of a user, their categories still texts
    Commands,    \* the preprocessors of the pipelines that may be fitted
    Model,       \* [placeholder, peripheral_names, feature_learners]
    MaxSteps     \* the calls of a behaviour

VARIABLES
    categories,   \* the encoding all of the tables share
    stored,       \* the tables that have been uploaded
    tracker,      \* the fitted preprocessors, by their fingerprints
    pipeline,     \* [cmds, tables_id, preprocessors, tables], the last one fitted
    outcome,      \* [op, ok, cmds, id, tables, given, cats, warnings] of the last call
    steps

vars == <<categories, stored, tracker, pipeline, outcome, steps>>

None == [op |-> "none"]

Raw(id) == <<RawTables[id].population>> \o RawTables[id].peripheral

Encoded(df, cats) ==
    [df EXCEPT !.columns = [i \in DOMAIN @ |->
        IF @[i].role # "categorical" THEN @[i]
        ELSE [@[i] EXCEPT !.data = [k \in DOMAIN @ |-> lookup(cats, @[k])]]]]

TablesOf(id, cats) ==
    [population |-> Encoded(RawTables[id].population, cats),
     peripheral |-> [i \in DOMAIN RawTables[id].peripheral |->
                        Encoded(RawTables[id].peripheral[i], cats)]]

\* init_preprocessors: a preprocessor depends on the tables and on those before it.
init_preprocessors(cmds, dependencies) ==
    LET first == [i \in DOMAIN cmds |-> parse(cmds[i], dependencies)]
    IN  [i \in DOMAIN cmds |->
            [first[i] EXCEPT !.dependencies =
                @ \o [k \in 1..i - 1 |-> fingerprint(first[k])]]]

WithPreprocessor(acc, key, p, r) ==
    IF ~r.ok THEN [acc EXCEPT !.ok = FALSE]
    ELSE [ok |-> TRUE, cats |-> r.cats, tables |-> r.tables,
          preprocessors |-> Append(acc.preprocessors, p),
          tracker |-> (key :> p) @@ acc.tracker]

WithFitted(acc, key, p, r) == WithPreprocessor(acc, key, [p EXCEPT !.learned = r.learned], r)

FitUnlessKnown(acc, p, key) ==
    IF key \in DOMAIN acc.tracker
    THEN WithPreprocessor(acc, key, acc.tracker[key],
                          preprocessor_transform(acc.tracker[key], acc.cats, acc.tables))
    ELSE WithFitted(acc, key, p, preprocessor_fit_transform(p, acc.cats, acc.tables))

\* [ok, cats, tables, preprocessors, tracker]: one that is in the tracker is only
\* applied; a new one is put there at once, whatever becomes of the others.
fit_transform_preprocessors(cmds, dependencies, cats, tables, known) ==
    FoldLeft(LAMBDA acc, p : IF acc.ok THEN FitUnlessKnown(acc, p, fingerprint(p)) ELSE acc,
             [ok |-> TRUE, cats |-> cats, tables |-> tables, preprocessors |-> <<>>,
              tracker |-> known],
             init_preprocessors(cmds, dependencies))

\* apply_preprocessors of transform.cpp, with the categories all tables share.
apply_preprocessors(preprocessors, cats, tables) ==
    FoldLeft(LAMBDA acc, p :
                IF ~acc.ok THEN acc ELSE preprocessor_transform(p, cats, acc.tables),
             [ok |-> TRUE, cats |-> cats, tables |-> tables, learned |-> <<>>],
             preprocessors)

\* given and cats are the categories before and after the call.
Outcome(op, ok, cmds, id, tables, given, cats, warnings) ==
    [op |-> op, ok |-> ok, cmds |-> cmds, id |-> id, tables |-> tables, given |-> given,
     cats |-> cats, warnings |-> warnings]

Init ==
    /\ categories = <<>> /\ stored = {} /\ tracker = <<>>
    /\ pipeline = None /\ outcome = None /\ steps = 0

Step == steps < MaxSteps /\ steps' = steps + 1

\* The tables are sent to the engine.
Store(id) ==
    /\ Step /\ id \notin stored
    /\ LET dfs == Raw(id)
           texts(df) == FlattenSeq([i \in DOMAIN with_role(df, "categorical") |->
                                        with_role(df, "categorical")[i].data])
       IN  categories' = insert_all(categories,
                            FlattenSeq([i \in DOMAIN dfs |-> texts(dfs[i])]))
    /\ stored' = stored \cup {id}
    /\ UNCHANGED <<tracker, pipeline>> /\ outcome' = None

\* The categories a call has made are kept when it succeeds.
Fit(cmds, id) ==
    /\ Step /\ id \in stored
    /\ \E r \in {fit_transform_preprocessors(cmds, <<id>>, categories,
                                             TablesOf(id, categories), tracker)} :
        /\ tracker' = r.tracker
        /\ categories' = IF r.ok THEN r.cats ELSE categories
        /\ pipeline' = IF ~r.ok THEN pipeline
                       ELSE [op |-> "fitted", cmds |-> cmds, id |-> id,
                             preprocessors |-> r.preprocessors, tables |-> r.tables]
        /\ outcome' = Outcome("fit", r.ok, cmds, id, r.tables, categories, r.cats, <<>>)
    /\ UNCHANGED stored

Check(cmds, id) ==
    /\ Step /\ id \in stored
    /\ \E r \in {fit_transform_preprocessors(cmds, <<id>>, categories,
                                             TablesOf(id, categories), tracker)} :
       \E c \in {check(Model.placeholder, Model.peripheral_names, r.tables.population,
                        r.tables.peripheral, Model.feature_learners)} :
        /\ tracker' = r.tracker
        /\ categories' = IF r.ok /\ c.ok THEN r.cats ELSE categories
        /\ outcome' = Outcome("check", r.ok /\ c.ok, cmds, id, r.tables, categories,
                              r.cats, IF r.ok /\ c.ok THEN c.warnings ELSE <<>>)
    /\ UNCHANGED <<stored, pipeline>>

Transform(id) ==
    /\ Step /\ id \in stored /\ pipeline # None
    /\ \E r \in {apply_preprocessors(pipeline.preprocessors, categories,
                                     TablesOf(id, categories))} :
        outcome' = Outcome("transform", r.ok, pipeline.cmds, id, r.tables, categories,
                           categories, <<>>)
    /\ UNCHANGED <<categories, stored, tracker, pipeline>>

Next ==
    \E id \in DOMAIN RawTables :
        \/ Store(id)
        \/ \E cmds \in Commands : Fit(cmds, id) \/ Check(cmds, id)
        \/ Transform(id)

Spec == Init /\ [][Next]_vars

-----------------------------------------------------------------------------
(* The cells of the tables *)

AllTables(tables) == <<tables.population>> \o tables.peripheral

Places(tables) ==
    UNION {{i} \X DOMAIN AllTables(tables)[i].columns : i \in DOMAIN AllTables(tables)}

\* A cell's data; categories are read as texts.
Read(col, cats) ==
    IF col.role # "categorical" THEN col.data
    ELSE [k \in DOMAIN col.data |-> string_of(cats, col.data[k])]

\* The columns of the tables, as <<table, column, role>>, and with their cells.
Schema(tables) ==
    {LET df == AllTables(tables)[x[1]]
     IN  <<df.name, df.columns[x[2]].name, df.columns[x[2]].role>> : x \in Places(tables)}

Cells(tables, cats) ==
    {LET df == AllTables(tables)[x[1]]
     IN  <<df.name, df.columns[x[2]].name, df.columns[x[2]].role,
           Read(df.columns[x[2]], cats)>> : x \in Places(tables)}

-----------------------------------------------------------------------------
(* Properties *)

TypeOK ==
    /\ stored \subseteq DOMAIN RawTables /\ steps \in 0..MaxSteps
    /\ IsInjective(categories)
    /\ \A f \in DOMAIN tracker : fingerprint(tracker[f]) = f
    /\ pipeline # None => pipeline.id \in stored /\ pipeline.cmds \in Commands

SameTables(outcome_, fresh) ==
    fresh.ok /\ Cells(outcome_.tables, outcome_.cats) = Cells(fresh.tables, fresh.cats)

\* A fit, and a check, work on the tables that the preprocessors make when they are
\* fitted on the data at hand, whether they were fitted now or for another pipeline
\* (fit_transform_preprocessors).
FitIsFresh ==
    outcome.op \in {"fit", "check"} /\ outcome.ok =>
        SameTables(outcome,
            fit_transform_preprocessors(outcome.cmds, <<outcome.id>>, outcome.given,
                                        TablesOf(outcome.id, outcome.given), <<>>))

\* A fitted pipeline makes of any tables the columns it was fitted with, and of the
\* tables it was fitted on the same cells: its features find what they were learned
\* from (Preprocessor::transform).
TransformAgreesWithFit ==
    outcome.op = "transform" /\ outcome.ok =>
        /\ Schema(outcome.tables) = Schema(pipeline.tables)
        /\ outcome.id = pipeline.id =>
            Cells(outcome.tables, categories) = Cells(pipeline.tables, categories)

\* The tables a pipeline was fitted on can be transformed by it, unless it has an
\* EMailDomain: that takes text columns when it is fitted and looks for unused strings
\* of their names when it transforms.
FittedTablesAreTransformed ==
    /\ outcome.op = "transform" /\ outcome.id = pipeline.id
    /\ \A i \in DOMAIN pipeline.preprocessors : pipeline.preprocessors[i].type # "EMailDomain"
    => outcome.ok

\* The categories of a trimmed column are those it was fitted with or the one that
\* stands for all others, never NULL, and an imputed column has no gaps, also in
\* tables with categories and gaps that were not there when they were fitted.
FeaturesSeeNoGaps ==
    outcome.op \in {"fit", "transform"} /\ outcome.ok =>
        \A i \in DOMAIN pipeline.preprocessors, c \in Cells(outcome.tables, outcome.cats) :
            LET p == pipeline.preprocessors[i]
                named(d) == IF d.marker = POPULATION THEN outcome.tables.population.name
                            ELSE outcome.tables.peripheral[d.table + 1].name
            IN  /\ p.type = "CategoryTrimmer" =>
                    \A k \in DOMAIN p.learned :
                        <<named(p.learned[k]), p.learned[k].name>> = <<c[1], c[2]>> =>
                            ToSet(c[4]) \subseteq {TRIMMED} \cup
                                {categories[id + 1] : id \in p.learned[k].value}
                /\ Contains(c[2], "IMPUTATION_BEGIN") => NaN \notin ToSet(c[4])

\* The words a text was split into find their way back to the row they are from.
TextTablesRejoin ==
    outcome # None /\ outcome.ok =>
        \A i, k \in DOMAIN AllTables(outcome.tables) :
            LET df     == AllTables(outcome.tables)[i]
                parent == AllTables(outcome.tables)[k]
                words  == df.columns[2]
                texts  == column(parent, "unused_string", Append(words.name, text_field))
                rows   == column(parent, "join_key", rowid).data
            IN  i # k /\ Contains(df.name, text_field)
                /\ substr_to(df.name, text_field) = parent.name =>
                    \A r \in DOMAIN rows :
                        {words.data[w] : w \in {x \in DOMAIN words.data :
                                                  df.columns[1].data[x] = rows[r]}}
                            = ToSet(Words(texts.data[r]))

\* A join is said to take long where a row of the population reaches more than
\* MaxMatches rows of the joined table on average, over all the ways that lead there.
ExpectedMatchesAreTheAverage ==
    outcome.op = "check" /\ outcome.ok =>
        LET pop == outcome.tables.population
            q   == outcome.tables.peripheral[1]
            r   == outcome.tables.peripheral[2]
            of_pop == Model.placeholder.joins[1]
            of_q   == of_pop.table.joins[1]
            key(df, name, i)  == column(df, "join_key", name).data[i]
            time(df, name, i) == column(df, "time_stamp", name).data[i]
            Limit == MaxMatches * nrows(pop)
            first == {<<i, k>> \in (1..nrows(pop)) \X (1..nrows(q)) :
                        /\ key(q, of_pop.other_join_key, k) >= 0
                        /\ key(pop, of_pop.join_key, i) = key(q, of_pop.other_join_key, k)
                        /\ NaN \notin {time(q, of_pop.other_time_stamp, k),
                                       time(pop, of_pop.time_stamp, i)}
                        /\ time(q, of_pop.other_time_stamp, k)
                              <= time(pop, of_pop.time_stamp, i)}
            ways == {<<w, l>> \in first \X (1..nrows(r)) :
                        /\ key(r, of_q.other_join_key, l) >= 0
                        /\ key(q, of_q.join_key, w[2]) = key(r, of_q.other_join_key, l)}
            said == {outcome.warnings[i].of[3] : i \in {n \in DOMAIN outcome.warnings :
                        /\ outcome.warnings[n].label = "MIGHT TAKE LONG"
                        /\ Len(outcome.warnings[n].of) = 4}}
        IN  said = (IF Cardinality(first) > Limit THEN {modify_df_name(q.name)} ELSE {})
                   \cup (IF Cardinality(ways) > Limit THEN {modify_df_name(r.name)} ELSE {})

SchemaOf(df) ==
    LET Called(role) == [i \in DOMAIN with_role(df, role) |-> with_role(df, role)[i].name]
    IN  [name |-> df.name, categoricals |-> Called("categorical"), discretes |-> <<>>,
         join_keys |-> Called("join_key"), numericals |-> Called("numerical"),
         targets |-> <<>>, text |-> Called("text"), time_stamps |-> Called("time_stamp"),
         unused_strings |-> Called("unused_string")]

\* The SQL code of a pipeline whose tables and peripheral tables are these.
CodeOf(tables, per) ==
    staging_to_sql(SchemaOf(tables.population), [i \in DOMAIN per |-> SchemaOf(per[i])],
                   FALSE, [i \in DOMAIN per |-> FALSE])
    \o preprocessors_to_sql(pipeline.preprocessors, categories, tables)

ColumnsOfCode(columns) == {columns[i].name : i \in DOMAIN columns}

Creates(statement, df) ==
    /\ statement.op \in {"create", "split"}
    /\ statement.table = to_upper(make_staging_table_name(df.name))
    /\ \A x \in DOMAIN df.columns :
        df.columns[x].role \in {"categorical", "numerical", "time_stamp", "text"}
        => to_lower(make_staging_table_colname(df.columns[x].name))
                \in ColumnsOfCode(statement.columns)

CreatesAll(sql, dfs) ==
    \A k \in DOMAIN dfs : \E n \in DOMAIN sql : Creates(sql[n], dfs[k])

\* The SQL code of a pipeline creates every table its features are learned from, with
\* every column of the tables: staging and preprocessing agree on all of the names.
SQLBuildsThePreprocessedTables ==
    outcome.op = "fit" /\ outcome.ok =>
        CreatesAll(CodeOf(pipeline.tables, pipeline.tables.peripheral), AllTables(pipeline.tables))
=============================================================================
