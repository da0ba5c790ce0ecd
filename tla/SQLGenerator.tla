---------------------------- MODULE SQLGenerator ----------------------------
(***************************************************************************)
(* The SQL code of a pipeline before its features: the staging tables      *)
(* (transpilation::SQLGenerator, HumanReadableSQLGenerator) and what the   *)
(* preprocessors add (pipelines::to_sql).                                  *)
(*                                                                         *)
(* A statement is [op, table, columns, from, joins]: the table it creates  *)
(* or changes, the columns it has, as [name, type, expr], the table it     *)
(* reads and the tables it joins, each as [table, alias, on], on being the *)
(* pairs of columns that are compared.  Quotation and layout are left out. *)
(* A table that was staged is named by its name, its number and the text   *)
(* column it was split from.                                               *)
(***************************************************************************)
EXTENDS Macros

CONSTANTS Lower(_), Upper(_)    \* the lower and the upper case of a word

peripheral_marker == "PERIPHERAL"
self_join_key     == <<"SELF_JOIN_KEY">>

to_lower(s) == [i \in DOMAIN s |-> Lower(s[i])]
to_upper(s) == [i \in DOMAIN s |-> Upper(s[i])]

Statement(op, table, columns, from, joins) ==
    [op |-> op, table |-> table, columns |-> columns, from |-> from, joins |-> joins]

-----------------------------------------------------------------------------
(* transpilation::SQLGenerator *)

get_table_name(raw_name) ==
    substr_to(replace_all(split(raw_name, DELIMITER)[1], {population, peripheral_marker}),
              staging_table_num)

\* The text column a table was split from.
text_of(name) ==
    IF ~Contains(name, text_field) THEN <<>>
    ELSE <<"__">> \o to_upper(SubSeq(name, find(name, text_field) + 1, Len(name)))

make_staging_table_name(name) ==
    to_upper(get_table_name(name))
    \o IF ~Contains(name, staging_table_num) THEN <<>>
       ELSE <<"__STAGING_TABLE_", name[find(name, staging_table_num) + 1]>> \o text_of(name)

key_column(name, alias, for_staging) ==
    IF for_staging THEN make_staging_table_column(name, alias)
    ELSE alias \o <<".">> \o make_staging_table_colname(name)

EqualKeys(keys1, keys2, output_alias, input_alias, for_staging) ==
    IF Len(keys1) # Len(keys2) THEN [ok |-> FALSE, on |-> <<>>]
    ELSE [ok |-> TRUE,
          on |-> [i \in DOMAIN keys1 |->
                    <<key_column(keys1[i], output_alias, for_staging), "=",
                      key_column(keys2[i], input_alias, for_staging)>>]]

\* [ok, on]: the keys one by one; as many of the one table as of the other.
handle_multiple_join_keys(output_name, input_name, output_alias, input_alias, for_staging) ==
    EqualKeys(parse_join_key_name(output_name), parse_join_key_name(input_name),
              output_alias, input_alias, for_staging)

stamp_column(ts, alias) == alias \o <<".">> \o make_staging_table_colname(ts)

sql_time_stamps(time_stamp, other_time_stamp, upper_time_stamp, output_alias, input_alias) ==
    LET ts1 == stamp_column(time_stamp, output_alias)
    IN  <<<<stamp_column(other_time_stamp, input_alias), "<=", ts1>>>>
        \o IF upper_time_stamp = <<>> THEN <<>>
           ELSE <<<<stamp_column(upper_time_stamp, input_alias), "> or null", ts1>>>>

StampsOf(p, output_alias, input_alias) ==
    IF p.time_stamp = <<>> \/ p.other_time_stamp = <<>> THEN <<>>
    ELSE sql_time_stamps(p.time_stamp, p.other_time_stamp, p.upper_time_stamp,
                         output_alias, input_alias)

JoinedAs(p, to, alias) ==
    [table |-> p.name, alias |-> alias, to |-> to,
     on |-> handle_multiple_join_keys(p.join_key, p.other_join_key, to, alias, TRUE).on
            \o StampsOf(p, to, alias)]

JoinedAlias(p, alias) ==
    JoinedAs(p, IF p.joined_to_alias = t1_or_t2 THEN alias ELSE p.joined_to_alias,
             IF p.alias = t1_or_t2 THEN alias ELSE p.alias)

\* The tables that were joined to a table, in the order of its name; an alias
\* T1_OR_T2 is that of the table itself.
handle_many_to_one_joins(table_name, alias) ==
    LET parts == Tail(split(table_name, DELIMITER))
    IN  [i \in DOMAIN parts |->
            JoinedAlias(parse_table_name(<<DELIMITER>> \o parts[i]), alias)]

include_column(name) ==
    /\ name \notin {no_join_key, self_join_key}
    /\ ~Contains(name, multiple_join_key_begin)
    /\ ~Contains(name, mapping)

-----------------------------------------------------------------------------
(* transpilation::HumanReadableSQLGenerator.  A schema is [name,             *)
(* categoricals, discretes, join_keys, numericals, targets, text,            *)
(* time_stamps, unused_strings], all of them names.                          *)

cast_columns(names, type) ==
    LET included == SelectSeq(names, include_column)
    IN  [i \in DOMAIN included |->
            [name |-> to_lower(make_staging_table_colname(included[i])), type |-> type,
             expr |-> make_staging_table_column(included[i], <<"t1">>)]]

\* The columns by their types: keys and texts as text.
make_staging_columns(include_targets, schema) ==
    LET real(names) == [names |-> names, type |-> "REAL"]
        text(names) == [names |-> names, type |-> "TEXT"]
        groups == <<real(IF include_targets THEN schema.targets ELSE <<>>),
                    text(schema.categoricals), real(schema.discretes),
                    text(schema.join_keys), real(schema.numericals), text(schema.text),
                    [names |-> schema.time_stamps, type |-> "TIMESTAMP"]>>
    IN  FlattenSeq([i \in DOMAIN groups |-> cast_columns(groups[i].names, groups[i].type)])

make_staging_table(include_targets, schema) ==
    Statement("create", to_upper(make_staging_table_name(schema.name)),
              make_staging_columns(include_targets, schema), get_table_name(schema.name),
              handle_many_to_one_joins(schema.name, <<"t1">>))

make_staging_tables(pop_targets, targets, pop_schema, schemas) ==
    LET all   == <<pop_schema>> \o schemas
        needs == <<pop_targets>> \o targets
    IN  [i \in DOMAIN all |-> make_staging_table(needs[i], all[i])]

\* The words of a text column, with the rows they are in.
split_text_fields(desc) ==
    LET staging == to_upper(make_staging_table_name(desc.table))
        colname == to_lower(make_staging_table_colname(desc.name))
    IN  Statement("split", staging \o <<"__">> \o to_upper(colname),
                  <<[name |-> <<"rownum">>, type |-> "TEXT", expr |-> <<"t1", ".", "rowid">>],
                    [name |-> colname, type |-> "TEXT", expr |-> <<"value">>]>>,
                  staging, <<>>)

\* The features are what is left when the tables they are made of are dropped.
make_postprocessing(sql) == [i \in DOMAIN sql |-> Statement("drop", sql[i].table, <<>>, <<>>, <<>>)]

make_updates(autofeatures, main_table) ==
    [i \in DOMAIN autofeatures |->
        Statement("update", main_table, <<autofeatures[i]>>, autofeatures[i], <<>>)]

\* The table of the features: the columns that are features themselves are kept.
make_feature_table(main_table, autofeatures, targets, numerical, categorical) ==
    <<Statement("create", <<"FEATURES">>,
                autofeatures \o (IF targets \o numerical \o categorical # <<>>
                                 THEN <<<<"t1", ".", "*">>>> ELSE <<<<"rownum">>>>),
                make_staging_table_name(main_table), <<>>)>>
    \o make_updates(autofeatures, <<"FEATURES">>)

make_sql(sql, main_table, autofeatures, targets, numerical, categorical) ==
    sql \o make_feature_table(main_table, autofeatures, targets, numerical, categorical)
        \o make_postprocessing(sql)

-----------------------------------------------------------------------------
(* pipelines::to_sql.  What a preprocessor adds is taken from it.            *)

\* The text columns that were split are columns of the tables they came from.
make_staging_schemata(population_schema, peripheral_schema) ==
    LET fields(s) == SelectSeq(s.unused_strings, LAMBDA n : Contains(n, text_field))
        add_text_fields(s) ==
            [s EXCEPT !.text = @ \o [i \in DOMAIN fields(s) |-> remove_text_field(fields(s)[i])]]
        tables == SelectSeq(peripheral_schema, LAMBDA s : ~Contains(s.name, text_field))
    IN  [population |-> add_text_fields(population_schema),
         peripheral |-> [i \in DOMAIN tables |-> add_text_fields(tables[i])]]

staging_to_sql(pop_schema, schemas, pop_targets, targets) ==
    LET s == make_staging_schemata(pop_schema, schemas)
    IN  make_staging_tables(pop_targets, targets, s.population, s.peripheral)

\* The name of a feature is what the drop statement its code begins with names.
parse_feature_name(feature) == to_upper(feature.table)

\* A feature whose code is too long is an empty table of its name.
overwrite_oversized_features(features, Size(_), size_threshold) ==
    [i \in DOMAIN features |->
        IF Size(features[i]) <= size_threshold THEN features[i]
        ELSE Statement("create", parse_feature_name(features[i]), <<>>, <<>>, <<>>)]

\* p = [full_pipeline, targets, target_names, population_schema, peripheral_schema,
\* population_needs_targets, peripheral_needs_targets, preprocessing, features,
\* autofeatures, numerical, categorical, size_threshold].
to_sql(p, Size(_)) ==
    LET staging == staging_to_sql(p.population_schema, p.peripheral_schema,
                                  p.targets \/ p.population_needs_targets,
                                  p.peripheral_needs_targets)
        features == overwrite_oversized_features(p.features, Size, p.size_threshold)
    IN  make_sql((IF p.full_pipeline THEN staging \o p.preprocessing ELSE <<>>) \o features,
                 p.population_schema.name, p.autofeatures,
                 IF p.targets THEN p.target_names ELSE <<>>, p.numerical, p.categorical)
=============================================================================
