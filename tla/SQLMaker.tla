------------------------------ MODULE SQLMaker ------------------------------
(***************************************************************************)
(* fastprop::containers::SQLMaker and AbstractFeature::to_sql: the SQL     *)
(* statement that describes a feature, as a record, and what a data base   *)
(* computes when it executes the statement.                                *)
(*                                                                         *)
(* NAN stands for NULL.  A condition of WHERE or ON keeps the rows for     *)
(* which it is true: neither those for which it is false nor those for     *)
(* which it is unknown.  A frame has keys, a function from the names of    *)
(* its join keys to columns of Int; a join is [key, other_key].            *)
(***************************************************************************)
EXTENDS Aggregator

None == <<>>

-----------------------------------------------------------------------------
(* Expressions *)

Column(alias, name) == [e |-> "column", alias |-> alias, name |-> name]
TimeStamp(alias)    == [e |-> "time stamp", alias |-> alias]
Literal(category)   == [e |-> "literal", category |-> category]
Feature(number)     == [e |-> "feature", number |-> number]
Star                == [e |-> "star"]
Equal(a, b)         == [e |-> "case", a |-> a, b |-> b]
Difference(a, b)    == [e |-> "minus", a |-> a, b |-> b]

get_name(data_used, input, prefix, peripheral, input_col) ==
    IF data_used = "subfeatures" THEN Feature(prefix \o <<peripheral, input_col>>)
    ELSE Column("t2", columns(input, data_used)[input_col].name)

\* The role of the columns that a kind of data compares.
get_same_units(data_used, input, output, input_col, output_col) ==
    LET role == CASE data_used = "same_units_categorical" -> "categorical"
                  [] data_used \in {"same_units_discrete",
                                    "same_units_discrete_ts"} -> "discrete"
                  [] data_used \in {"same_units_numerical",
                                    "same_units_numerical_ts"} -> "numerical"
    IN  << Column("t1", columns(output, role)[output_col].name),
           Column("t2", columns(input, role)[input_col].name) >>

condition(cond, input, output) ==
    CASE cond.data_used = "categorical" ->
             Equal(get_name("categorical", input, <<>>, cond.peripheral,
                            cond.input_col), Literal(cond.category_used))
      [] cond.data_used = "lag" -> [e |-> "lag", bounds |-> cond.bounds]
      [] cond.data_used = "same_units_categorical" ->
             LET names == get_same_units(cond.data_used, input, output,
                                         cond.input_col, cond.output_col)
             IN  Equal(names[1], names[2])

value_to_be_aggregated(af, input, output, prefix) ==
    LET name  == get_name(af.data_used, input, prefix, af.peripheral, af.input_col)
        names == get_same_units(af.data_used, input, output, af.input_col,
                                af.output_col)
    IN  CASE af.data_used = "categorical" ->
                 IF af.categorical_value = NO_CATEGORICAL_VALUE THEN name
                 ELSE Equal(name, Literal(af.categorical_value))
          [] af.data_used \in {"discrete", "numerical", "subfeatures"} -> name
          [] af.data_used = "na" -> Star
          [] af.data_used = "same_units_categorical" -> Equal(names[1], names[2])
          [] OTHER -> Difference(names[1], names[2])

make_additional_argument(agg) ==
    IF agg \in {"FIRST", "LAST"} THEN TimeStamp("t2")
    ELSE Difference(TimeStamp("t1"), TimeStamp("t2"))

select_statement(af, input, output, prefix) ==
    [agg      |-> af.aggregation,
     value    |-> value_to_be_aggregated(af, input, output, prefix),
     argument |-> CASE af.aggregation = "AVG TIME BETWEEN" -> TimeStamp("t2")
                    [] is_first_last(af.aggregation) ->
                           make_additional_argument(af.aggregation)
                    [] OTHER -> None]

\* CREATE TABLE FEATURE_<number> AS SELECT ... FROM t1 INNER JOIN t2 ON ...
\* LEFT JOIN <table of the subfeature> ... WHERE ... GROUP BY t1.rowid
FeatureToSql(af, input, output, join, prefix, num) ==
    [number     |-> prefix \o <<num>>,
     select     |-> select_statement(af, input, output, prefix),
     t1         |-> output,
     t2         |-> input,
     on         |-> join,
     subfeature |-> IF af.data_used = "subfeatures"
                    THEN prefix \o <<af.peripheral, af.input_col>> ELSE None,
     time       |-> num_time_stamps(input) > 0 /\ num_time_stamps(output) > 0,
     where      |-> [i \in DOMAIN af.conditions |->
                        condition(af.conditions[i], input, output)]]

-----------------------------------------------------------------------------
(* The data base *)

Cell(df, name, row) ==
    LET c == df.cols[CHOOSE i \in DOMAIN df.cols : df.cols[i].name = name]
    IN  IF c.role # "categorical" THEN c.col[row]
        ELSE IF c.col[row] = NULL_CATEGORY THEN NAN ELSE Int2Float(c.col[row])

\* tables: the tables of the features made so far, functions of row numbers.
Coalesced(tables, number, row) ==
    IF row \in DOMAIN tables[number] /\ ~is_null(tables[number][row])
    THEN tables[number][row] ELSE Zero

Atom(sql, tables, x, row1, row2) ==
    LET df  == IF x.alias = "t1" THEN sql.t1 ELSE sql.t2
        row == IF x.alias = "t1" THEN row1 ELSE row2
    IN  CASE x.e = "column"     -> Cell(df, x.name, row)
          [] x.e = "time stamp" -> df.ts[1][row]
          [] x.e = "literal"    -> Int2Float(x.category)
          [] x.e = "feature"    -> Coalesced(tables, x.number, row2)
          [] x.e = "star"       -> One

IsTrueEqual(a, b) == ~is_null(a) /\ a = b

Value(sql, tables, x, row1, row2) ==
    LET at(y) == Atom(sql, tables, y, row1, row2)
    IN  CASE x.e = "case"  -> Indicator(IsTrueEqual(at(x.a), at(x.b)))
          [] x.e = "minus" -> Sub(at(x.a), at(x.b))
          [] OTHER         -> at(x)

IsTrue(sql, tables, x, row1, row2) ==
    IF x.e = "lag"
    THEN make_lag(sql.t1, sql.t2, x, [ix_output |-> row1, ix_input |-> row2])
    ELSE Value(sql, tables, x, row1, row2) = One

\* INNER JOIN ... ON, and the conditions on time stamps.
Joined(t1, t2, join, use_time, row1, row2) ==
    /\ t1.keys[join.key][row1] # NULL_CATEGORY
    /\ t1.keys[join.key][row1] = t2.keys[join.other_key][row2]
    /\ use_time => ~is_null(t1.ts[1][row1]) /\ ~is_null(t2.ts[1][row2])
                   /\ ~Less(t1.ts[1][row1], t2.ts[1][row2])

Group(sql, tables, row1) ==
    LET kept(row2) == /\ Joined(sql.t1, sql.t2, sql.on, sql.time, row1, row2)
                      /\ \A i \in DOMAIN sql.where :
                            IsTrue(sql, tables, sql.where[i], row1, row2)
    IN  SelectSeq([i \in 1..sql.t2.nrows |-> i], kept)

\* The values of an expression in the rows of a group.
ValuesIn(sql, tables, x, row1, rows) ==
    [i \in DOMAIN rows |-> Value(sql, tables, x, row1, rows[i])]

PairsOf(args, vals) ==
    SelectSeq([i \in DOMAIN vals |-> <<args[i], vals[i]>>], LAMBDA p : ~is_null(p[2]))

AggregatedRows(sql, tables, agg, row1, rows) ==
    LET Of(x) == ValuesIn(sql, tables, x, row1, rows)
    IN  IF is_first_last(agg)
        THEN aggregate_first_last(agg, PairsOf(Of(sql.select.argument), Of(sql.select.value)))
        ELSE aggregate_numerical_range(agg,
                IF agg = "AVG TIME BETWEEN" THEN Of(sql.select.argument)
                ELSE NotNull(Of(sql.select.value)))

Aggregated(sql, tables, row1) ==
    AggregatedRows(sql, tables, sql.select.agg, row1, Group(sql, tables, row1))

\* The table FEATURE_<number>: a row for every group.
Execute(sql, tables) ==
    LET groups == {r \in 1..sql.t1.nrows : Group(sql, tables, r) # <<>>}
    IN  [r \in groups |-> Aggregated(sql, tables, r)]

\* All statements in order, as a function from the numbers of the features.
ExecuteAll(statements) ==
    FoldLeft(LAMBDA tables, s : (s.number :> Execute(s, tables)) @@ tables,
             [n \in {} |-> <<>>], statements)

=============================================================================
