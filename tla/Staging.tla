------------------------------- MODULE Staging -------------------------------
(***************************************************************************)
(* Staging (pipelines::transform::stage_data_frames): the columns the data *)
(* model asks for are added to the frames, the data model is turned into   *)
(* the tree of placeholders the feature learners see, in which the tables  *)
(* joined to-one have become part of the table they are joined to, and     *)
(* these tables are joined.                                                *)
(*                                                                         *)
(* A data model is [name, joins], a join [table, relationship, join_key,   *)
(* other_join_key, time_stamp, other_time_stamp, upper_time_stamp,         *)
(* horizon, memory, allow_lagged_targets]; its parallel vectors are the    *)
(* fields of joins.  A frame is [name, nrows, columns] of columns [name,   *)
(* role, unit, data], rows counted from 1; -1 is the null of every type.   *)
(* frames[0] is the population, frames[i] the i-th peripheral frame.       *)
(***************************************************************************)
EXTENDS Macros, FiniteSetsExt

CONSTANTS
    Inputs       \* set of [data_model, names, frames]

VARIABLES
    input,       \* what stage_data_frames was called with
    phase,       \* what it does next
    frames,      \* the frames with the columns added to them
    placeholder, \* the placeholder that was made
    joined,      \* the staged tables: the population, then the peripheral ones
    error        \* what it threw, or ""

vars == <<input, phase, frames, placeholder, joined, error>>

Null == -1
is_to_many(relationship) ==
    relationship \in {"many-to-many", "propositionalization", "one-to-many"}

-----------------------------------------------------------------------------
(* containers::DataFrame, as far as staging uses it *)

has_column(df, role, name) ==
    \E i \in DOMAIN df.columns : df.columns[i].role = role /\ df.columns[i].name = name

column(df, role, name) ==
    df.columns[SelectInSeq(df.columns, LAMBDA c : c.role = role /\ c.name = name)]

columns_of(df, role) == SelectSeq(df.columns, LAMBDA c : c.role = role)

add_column(df, col) ==
    [df EXCEPT !.columns =
        Append(SelectSeq(@, LAMBDA c : c.name # col.name),
               IF col.role = "time_stamp" /\ col.unit = ""
               THEN [col EXCEPT !.unit = "time stamp, comparison only"] ELSE col)]

Column(name, role, unit, data) ==
    [name |-> name, role |-> role, unit |-> unit, data |-> data]

-----------------------------------------------------------------------------
(* modify_data_frames.  A state st is [frames, error, encoding]; after an    *)
(* error it does not change.                                                 *)

Throw(st, what) == IF st.error = "" THEN [st EXCEPT !.error = what] ELSE st
Update(st, ix, df) == IF st.error = "" THEN [st EXCEPT !.frames[ix] = df] ELSE st

\* 0 where the table is not among the peripheral tables
find_data_frame(table, names) == SelectInSeq(names, LAMBDA n : n = table.name)

make_ts_name(ts_used, diff) ==
    IF Contains(ts_used, "rowid")
    THEN <<"OPEN_BRACKET">> \o ts_used \o <<diffstr, ToString(diff), "CLOSE_BRACKET">>
    ELSE <<generated_ts>> \o ts_used \o <<diffstr, ToString(diff)>>

add_rowid(df) ==
    IF has_column(df, "time_stamp", rowid) THEN df
    ELSE add_column(df, Column(rowid, "time_stamp", "rowid, comparison only",
                               [r \in 1..df.nrows |-> r - 1]))

Shifted(data, diff) ==
    [r \in DOMAIN data |-> IF data[r] = Null THEN Null ELSE data[r] + diff]

\* The columns of a join: its horizon, if any, and its memory, if any.
make_time_stamps(df, j) ==
    LET ts == column(df, "time_stamp", j.other_time_stamp)
        shifted(diff) == Column(make_ts_name(j.other_time_stamp, diff), "time_stamp",
                                ts.unit, Shifted(ts.data, diff))
    IN  (IF j.horizon # 0 THEN <<shifted(j.horizon)>> ELSE <<>>)
        \o (IF j.memory > 0 THEN <<shifted(j.horizon + j.memory)>> ELSE <<>>)

add_ts(st, ix, j) ==
    LET df == st.frames[ix]
    IN  IF j.memory > 0 /\ j.upper_time_stamp # <<>>
        THEN Throw(st, "upper time stamp and memory")
        ELSE IF j.other_time_stamp = <<>>
        THEN IF j.horizon # 0 \/ j.memory > 0 THEN Throw(st, "time stamp missing") ELSE st
        ELSE IF ~has_column(df, "time_stamp", j.other_time_stamp)
        THEN Throw(st, "no time stamp")
        ELSE Update(st, ix, FoldLeft(add_column, df, make_time_stamps(df, j)))

RECURSIVE add_time_stamps(_, _, _, _)
add_time_stamps(dm, own, names, st) ==
    FoldLeft(LAMBDA acc, j :
        LET ix == find_data_frame(j.table, names)
            s1 == IF j.time_stamp = rowid
                  THEN Update(acc, own, add_rowid(acc.frames[own])) ELSE acc
            s2 == IF j.other_time_stamp = rowid
                  THEN Update(s1, ix, add_rowid(s1.frames[ix])) ELSE s1
        IN  IF acc.error # "" THEN acc
            ELSE IF ix = 0 THEN Throw(acc, "not among the peripheral tables")
            ELSE add_time_stamps(j.table, ix, names, add_ts(s2, ix, j)),
        st, dm.joins)

add_jk(df) ==
    IF has_column(df, "join_key", no_join_key) THEN df
    ELSE add_column(df, Column(no_join_key, "join_key", "", [r \in 1..df.nrows |-> 0]))

ColumnsNamed(df, jk_names) == [i \in DOMAIN jk_names |-> column(df, "join_key", jk_names[i])]

get_old_join_keys(name, df) == ColumnsNamed(df, parse_join_key_name(name))

\* (*_encoding)[str]: the number of a string, which is new if it is not known.
Encoded(encoding, str) ==
    IF Contains(encoding, str) THEN encoding ELSE Append(encoding, str)

\* The string of a row, or the empty one if any of its keys is null.
row_key(keys, r) ==
    IF \E i \in DOMAIN keys : keys[i].data[r] = Null THEN <<>>
    ELSE [i \in DOMAIN keys |-> keys[i].data[r]]

row_keys(keys, nrows) == [r \in 1..nrows |-> row_key(keys, r)]

\* The column of the numbers of the strings.
AddConcatenated(st, ix, name, strs, encoding) ==
    LET data == [r \in DOMAIN strs |->
                    IF strs[r] = <<>> THEN Null
                    ELSE SelectInSeq(encoding, LAMBDA s : s = strs[r]) - 1]
    IN  [st EXCEPT !.frames[ix] = add_column(@, Column(name, "join_key", "", data)),
                   !.encoding = encoding]

Concatenate(st, ix, name, strs) ==
    AddConcatenated(st, ix, name, strs,
        FoldLeft(LAMBDA enc, str : IF str = <<>> THEN enc ELSE Encoded(enc, str),
                 st.encoding, strs))

has_join_keys(df, jk_names) ==
    \A i \in DOMAIN jk_names : has_column(df, "join_key", jk_names[i])

concat_join_keys(st, ix, name) ==
    LET df == st.frames[ix]
    IN  IF st.error # "" \/ has_column(df, "join_key", name) THEN st
        ELSE IF ~has_join_keys(df, parse_join_key_name(name)) THEN Throw(st, "no join key")
        ELSE Concatenate(st, ix, name, row_keys(get_old_join_keys(name, df), df.nrows))

RECURSIVE add_join_keys(_, _, _, _)
add_join_keys(dm, own, names, st) ==
    FoldLeft(LAMBDA acc, j :
        LET ix == find_data_frame(j.table, names)
            s1 == Update(acc, ix, add_jk(acc.frames[ix]))
            s2 == IF j.join_key = no_join_key THEN Update(s1, own, add_jk(s1.frames[own]))
                  ELSE IF Contains(j.join_key, multiple_join_key_sep)
                  THEN concat_join_keys(concat_join_keys(acc, ix, j.other_join_key),
                                        own, j.join_key)
                  ELSE acc
        IN  IF acc.error # "" THEN acc
            ELSE IF ix = 0 THEN Throw(acc, "not among the peripheral tables")
            ELSE add_join_keys(j.table, ix, names, s2),
        st, dm.joins)

-----------------------------------------------------------------------------
(* make_placeholder *)

handle_horizon(j) ==
    IF j.horizon = 0 THEN j.other_time_stamp ELSE make_ts_name(j.other_time_stamp, j.horizon)

handle_memory(j) ==
    IF j.memory <= 0 THEN j.upper_time_stamp
    ELSE make_ts_name(j.other_time_stamp, j.horizon + j.memory)

make_colnames(tname, alias, colname) ==
    IF colname = <<>> THEN <<>> ELSE make_colname(tname, alias, colname)

make_alias(num_alias) == <<"t" \o ToString(num_alias + 1)>>

\* A table joined to-many stays a table of its own.
joined_to_many(j, table) ==
    [table |-> table, join_key |-> j.join_key, other_join_key |-> j.other_join_key,
     time_stamp |-> j.time_stamp, other_time_stamp |-> handle_horizon(j),
     upper_time_stamp |-> handle_memory(j),
     propositionalization |-> j.relationship = "propositionalization",
     allow_lagged_targets |-> j.allow_lagged_targets]

\* A mutant: the joins of a table that was joined to-one keep the names its
\* columns had before.
taken_over_unnamed(joins, name, alias) == joins

\* What is joined to a table that was joined to-one is joined to the result.
taken_over(joins, name, alias) ==
    [i \in DOMAIN joins |->
        [joins[i] EXCEPT !.join_key = make_colnames(name, alias, @),
                         !.time_stamp = make_colnames(name, alias, @)]]

joined_name(dm, alias, j, own_alias_, table) ==
    make_table_name(Parameters(table.name, own_alias_, j.join_key, j.other_join_key,
                               j.time_stamp, j.other_time_stamp, j.upper_time_stamp,
                               dm.name, alias, j.relationship = "one-to-one"))

RECURSIVE make_placeholder(_, _, _, _)

\* handle_joined_tables: acc is [placeholder, num_alias].
handle_joined_table(dm, alias, acc, j) ==
    LET to_many   == make_placeholder(j.table, t1_or_t2, acc.num_alias, FALSE)
        new_alias == make_alias(acc.num_alias)
        to_one    == make_placeholder(j.table, new_alias, acc.num_alias + 1, FALSE)
    IN  IF is_to_many(j.relationship)
        THEN [placeholder |-> [acc.placeholder EXCEPT !.joins =
                                  Append(@, joined_to_many(j, to_many.placeholder))],
              num_alias   |-> to_many.num_alias]
        ELSE [placeholder |->
                [name  |-> acc.placeholder.name
                           \o joined_name(dm, alias, j, new_alias, to_one.placeholder),
                 joins |-> acc.placeholder.joins
                           \o taken_over(to_one.placeholder.joins, j.table.name, new_alias)],
              num_alias   |-> to_one.num_alias]

make_placeholder(dm, alias, num_alias, is_population) ==
    FoldLeft(LAMBDA acc, j : handle_joined_table(dm, alias, acc, j),
             [placeholder |-> [name  |-> dm.name \o (IF is_population THEN <<population>>
                                                    ELSE <<>>),
                               joins |-> <<>>],
              num_alias   |-> num_alias],
             dm.joins)

RECURSIVE extract_joined_tables(_)
extract_joined_tables(p) ==
    UNION {{p.joins[i].table.name} \cup extract_joined_tables(p.joins[i].table) :
              i \in DOMAIN p.joins}

\* std::set keeps the names in an order, which one does not matter here.
make_peripheral(p) == SetToSeq(extract_joined_tables(p))

\* Placeholder::check_data_model
RECURSIVE check_data_model(_, _, _)
check_data_model(p, names, is_population) ==
    /\ is_population => p.joins # <<>>
    /\ \A i \in DOMAIN p.joins :
          /\ Contains(names, p.joins[i].table.name)
          /\ check_data_model(p.joins[i].table, names, FALSE)

\* Placeholder::infer_needs_targets
RECURSIVE infer_needs_targets(_, _)
infer_needs_targets(p, names) ==
    [n \in DOMAIN names |->
        \E i \in DOMAIN p.joins :
            \/ p.joins[i].allow_lagged_targets /\ p.joins[i].table.name = names[n]
            \/ infer_needs_targets(p.joins[i].table, names)[n]]

-----------------------------------------------------------------------------
(* staging.  A column is looked for under the name it has after a join and   *)
(* then under its own; one that is not there at all is an error.             *)

Missing == [data |-> <<>>]

extract(df, role, tname, alias, colname) ==
    LET name == make_colname(tname, alias, colname)
    IN  IF has_column(df, role, name) THEN column(df, role, name)
        ELSE IF has_column(df, role, colname) THEN column(df, role, colname)
        ELSE Missing

extract_join_key(df, tname, alias, colname) ==
    extract(df, "join_key", tname, alias, colname)

extract_time_stamp(df, tname, alias, colname) ==
    IF colname = <<>> THEN Missing ELSE extract(df, "time_stamp", tname, alias, colname)

\* extract_index: the rows of a key; a null key is not in an index.
RowsOf(jk_data, jk) == {r \in DOMAIN jk_data : jk >= 0 /\ jk_data[r] = jk}

\* A mutant: a row is matched from its upper time stamp on, too.
match_in_range_upper(lower, upper, ts) ==
    lower # Null /\ ts # Null /\ lower <= ts

match_in_range(lower, upper, ts) ==
    lower # Null /\ ts # Null /\ lower <= ts /\ (upper = Null \/ upper > ts)

\* The row that matches, counted from 0, or the number of rows of the
\* population; not ok if there are two.
retrieve_index(nrows, jk, ts, jk_data, other, upper) ==
    LET at(data, r, default) == IF data = <<>> THEN default ELSE data[r]
        rows == {r \in RowsOf(jk_data, jk) :
                    match_in_range(at(other, r, 0), at(upper, r, Null), ts)}
    IN  [ix |-> IF rows = {} THEN nrows ELSE Min(rows) - 1, ok |-> Cardinality(rows) <= 1]

\* A column with the data <<>> is one of a frame without rows or missing.
join_columns(p, pop, per) ==
    [jk    |-> extract_join_key(pop, p.joined_to_name, p.joined_to_alias, p.join_key).data,
     index |-> extract_join_key(per, p.name, p.alias, p.other_join_key).data,
     ts    |-> extract_time_stamp(pop, p.joined_to_name, p.joined_to_alias,
                                  p.time_stamp).data,
     other |-> extract_time_stamp(per, p.name, p.alias, p.other_time_stamp).data,
     upper |-> extract_time_stamp(per, p.name, p.alias, p.upper_time_stamp).data]

rows_found(nrows, c) ==
    [r \in 1..nrows |->
        retrieve_index(nrows, c.jk[r], IF c.ts = <<>> THEN 0 ELSE c.ts[r],
                       c.index, c.other, c.upper)]

FoundTwice(found, nrows) ==
    \E r, s \in 1..nrows : r # s /\ found[r].ix = found[s].ix /\ found[r].ix < nrows

join_error(p, c, found, nrows) ==
    IF (p.time_stamp = <<>>) # (p.other_time_stamp = <<>>) THEN "time stamps"
    ELSE IF c.jk = <<>> \/ c.index = <<>> THEN "no join key"
    ELSE IF \/ p.time_stamp # <<>> /\ c.ts = <<>>
            \/ p.other_time_stamp # <<>> /\ c.other = <<>>
            \/ p.upper_time_stamp # <<>> /\ c.upper = <<>>
    THEN "no time stamp"
    ELSE IF \E r \in 1..nrows : ~found[r].ok THEN "two matches"
    ELSE IF p.one_to_one /\ FoundTwice(found, nrows) THEN "matched twice"
    ELSE ""

index_of(p, c, found, nrows) ==
    [index |-> [r \in 1..nrows |-> found[r].ix], error |-> join_error(p, c, found, nrows)]

index_by(p, c, nrows) == index_of(p, c, rows_found(nrows, c), nrows)

make_index(p, pop, per) == index_by(p, join_columns(p, pop, per), pop.nrows)

\* Column::sort_by_key
sort_by_key(col, key) ==
    [col EXCEPT !.data = [i \in DOMAIN key |->
        IF key[i] < Len(col.data) THEN col.data[key[i] + 1] ELSE Null]]

joined_columns(per) ==
    columns_of(per, "categorical") \o columns_of(per, "join_key")
    \o columns_of(per, "numerical") \o columns_of(per, "text")
    \o columns_of(per, "time_stamp")
    \o SelectSeq(columns_of(per, "unused_string"), LAMBDA c : c.unit # "")

find_peripheral(name, names) == SelectInSeq(names, LAMBDA n : n = name)

\* acc is [df, error].
join_by(acc, p, per, index) ==
    LET col(c) == [sort_by_key(c, index.index) EXCEPT
                      !.name = make_colname(p.name, p.alias, c.name)]
    IN  IF index.error # "" THEN [acc EXCEPT !.error = index.error]
        ELSE [acc EXCEPT !.df = FoldLeft(LAMBDA df, c : add_column(df, col(c)),
                                         @, joined_columns(per))]

join_table(acc, p, ix, dfs) ==
    IF ix = 0 THEN [acc EXCEPT !.error = "no placeholder of this name"]
    ELSE join_by(acc, p, dfs[ix], make_index(p, acc.df, dfs[ix]))

join_named(acc, p, names, dfs) == join_table(acc, p, find_peripheral(p.name, names), dfs)

join_one(acc, splitted, names, dfs) ==
    IF acc.error # "" THEN acc ELSE join_named(acc, parse_table_name(splitted), names, dfs)

join_all(number, is_population, name, names, dfs) ==
    LET splitted == split(name, DELIMITER)
        start    == IF is_population THEN 0 ELSE find_peripheral(splitted[1], names)
        result   == FoldLeft(LAMBDA acc, s : join_one(acc, s, names, dfs),
                             [df |-> dfs[start], error |-> ""], Tail(splitted))
    IN  [result EXCEPT !.df.name = name \o <<staging_table_num, ToString(number)>>]

-----------------------------------------------------------------------------
(* stage_data_frames *)

Init ==
    /\ input \in Inputs
    /\ phase = "time_stamps"
    /\ frames = input.frames
    /\ placeholder = <<>>
    /\ joined = <<>>
    /\ error = ""

Unmodified == [frames |-> frames, error |-> "", encoding |-> <<>>]

AddTimeStamps ==
    /\ phase = "time_stamps"
    /\ IF Len(input.names) + 1 # Cardinality(DOMAIN frames)
       THEN error' = "number of peripheral tables" /\ UNCHANGED frames
       ELSE \E st \in {add_time_stamps(input.data_model, 0, input.names, Unmodified)} :
               error' = st.error /\ frames' = st.frames
    /\ phase' = IF error' = "" THEN "join_keys" ELSE "failed"
    /\ UNCHANGED <<input, placeholder, joined>>

AddJoinKeys ==
    /\ phase = "join_keys"
    /\ \E st \in {add_join_keys(input.data_model, 0, input.names, Unmodified)} :
          /\ error' = st.error
          /\ frames' = st.frames
    /\ phase' = IF error' = "" THEN "placeholder" ELSE "failed"
    /\ UNCHANGED <<input, placeholder, joined>>

MakePlaceholder ==
    /\ phase = "placeholder"
    /\ placeholder' = make_placeholder(input.data_model, <<"t1">>, 2, TRUE).placeholder
    /\ phase' = "join"
    /\ UNCHANGED <<input, frames, joined, error>>

\* One table of join_tables: the population, then the peripheral ones.
JoinTable ==
    LET number == Len(joined) + 1
        names  == make_peripheral(placeholder)
    IN  /\ phase = "join"
        /\ \E result \in {join_all(number, number = 1,
                                   IF number = 1 THEN placeholder.name ELSE names[number - 1],
                                   input.names, frames)} :
              /\ error' = result.error
              /\ joined' = IF error' = "" THEN Append(joined, result.df) ELSE joined
        /\ phase' = IF error' # "" THEN "failed"
                    ELSE IF number = Len(names) + 1 THEN "done" ELSE "join"
        /\ UNCHANGED <<input, frames, placeholder>>

Next == AddTimeStamps \/ AddJoinKeys \/ MakePlaceholder \/ JoinTable

Spec == Init /\ [][Next]_vars /\ WF_vars(Next)
-----------------------------------------------------------------------------
(* What staging promises, said of the frames as they were given and of the   *)
(* data model alone.                                                         *)

Value(df, role, name, r) ==
    IF name = rowid THEN r - 1 ELSE column(df, role, name).data[r]

\* The rows of a peripheral table that belong to row r of the table it is
\* joined to; row 0 is a row that was not found itself.
MatchesOf(j, own, per, r) ==
    LET mine == parse_join_key_name(j.join_key)
        its  == parse_join_key_name(j.other_join_key)
        KeysAgree(s) ==
            \/ j.join_key = no_join_key
            \/ \A i \in DOMAIN mine :
                  /\ Value(own, "join_key", mine[i], r) # Null
                  /\ Value(own, "join_key", mine[i], r) = Value(per, "join_key", its[i], s)
        InTime(s) ==
            \/ j.time_stamp = <<>>
            \/ LET ts    == Value(own, "time_stamp", j.time_stamp, r)
                   lower == Value(per, "time_stamp", j.other_time_stamp, s)
                   upper == IF j.upper_time_stamp = <<>> THEN Null
                            ELSE Value(per, "time_stamp", j.upper_time_stamp, s)
               IN  /\ ts # Null /\ lower # Null /\ lower <= ts
                   /\ upper # Null => ts < upper
    IN  IF r = 0 THEN {} ELSE {s \in 1..per.nrows : KeysAgree(s) /\ InTime(s)}

\* Where row r of a table finds the rows of the tables joined to-one, in the
\* order of the data model: [join, frame, rows].
RECURSIVE Located(_, _, _)
LocatedBy(j, ix, rows, LocatedIn(_, _, _)) ==
    <<[join |-> j, frame |-> ix, rows |-> rows]>>
    \o LocatedIn(j.table, ix, IF rows = {} THEN 0 ELSE Min(rows))

Located(dm, own, r) ==
    FoldLeft(LAMBDA acc, j :
        LET ix == find_data_frame(j.table, input.names)
        IN  IF is_to_many(j.relationship) THEN acc
            ELSE acc \o LocatedBy(j, ix, MatchesOf(j, input.frames[own], input.frames[ix], r),
                                  Located),
        <<>>, dm.joins)

\* The tables that are staged: [dm, frame], the population first.
RECURSIVE ToManyTables(_)
ToManyTables(dm) ==
    UNION {(IF is_to_many(dm.joins[i].relationship)
            THEN {[dm |-> dm.joins[i].table,
                   frame |-> find_data_frame(dm.joins[i].table, input.names)]}
            ELSE {}) \cup ToManyTables(dm.joins[i].table) : i \in DOMAIN dm.joins}

Root == [dm |-> input.data_model, frame |-> 0]

LocatedRows(t) ==
    [r \in 1..input.frames[t.frame].nrows |-> Located(t.dm, t.frame, r)]

Violated(rows) ==
    \/ \E r \in DOMAIN rows : \E i \in DOMAIN rows[r] : Cardinality(rows[r][i].rows) > 1
    \/ \E r, s \in DOMAIN rows : \E i \in DOMAIN rows[r] :
          /\ r # s
          /\ rows[r][i].join.relationship = "one-to-one"
          /\ rows[r][i].rows # {} /\ rows[r][i].rows = rows[s][i].rows

Shown(cols) == [i \in DOMAIN cols |-> <<cols[i].role, cols[i].unit, cols[i].data>>]

\* The columns of a table and of everything that is joined to it.
Expected(t, rows) ==
    LET of(i) == joined_columns(frames[rows[1][i].frame])
        col(i, c) == [c EXCEPT !.data = [r \in DOMAIN rows |->
                        IF rows[r][i].rows = {} THEN Null
                        ELSE c.data[Min(rows[r][i].rows)]]]
    IN  Shown(frames[t.frame].columns)
        \o FlattenSeq([i \in DOMAIN rows[1] |->
                Shown([k \in DOMAIN of(i) |-> col(i, of(i)[k])])])

\* Every staged table has the columns of its own frame and, for every table
\* joined to it to-one, the values of the one row that matches or nulls; staging
\* fails if and only if a declared relationship does not hold
\* (staging::join_all, make_index, retrieve_index, Column::sort_by_key).
TablesAreJoinedAsDeclared ==
    LET tables == {Root} \cup ToManyTables(input.data_model)
    IN  /\ phase = "done" =>
             \A t \in tables : \E k \in IF t = Root THEN {1} ELSE 2..Len(joined) :
                Shown(joined[k].columns) = Expected(t, LocatedRows(t))
        /\ phase \in {"done", "failed"} =>
             (error # "" <=> \E t \in tables : Violated(LocatedRows(t)))

RECURSIVE Nodes(_)
Nodes(p) == {p} \cup UNION {Nodes(p.joins[i].table) : i \in DOMAIN p.joins}

\* The staged table of a placeholder, by the name it was given in join_all.
StagedTable(p) ==
    joined[SelectInSeq(joined, LAMBDA df : substr_to(df.name, staging_table_num) = p.name)]

\* What the placeholders name is there: the tables the feature learners look up
\* have the join keys and time stamps the joins between them use, horizons,
\* memories and the names of merged tables included (make_placeholder against
\* modify_data_frames and staging).
PlaceholderNamesExist ==
    phase = "done" =>
        /\ check_data_model(placeholder, make_peripheral(placeholder), FALSE)
        /\ \A p \in Nodes(placeholder) : \A i \in DOMAIN p.joins :
              LET j == p.joins[i]
                  has(q, name) ==
                      name # <<>> => has_column(StagedTable(q), "time_stamp", name)
              IN  /\ has_column(StagedTable(p), "join_key", j.join_key)
                  /\ has_column(StagedTable(j.table), "join_key", j.other_join_key)
                  /\ has(p, j.time_stamp)
                  /\ has(j.table, j.other_time_stamp) /\ has(j.table, j.upper_time_stamp)

\* A column, the columns the preprocessors make of it, and the table its text
\* is split into.
Generated(table, name) ==
    {<<table, name>>, <<table, name \o <<mapping, "1">>>>,
     <<table, <<"EMAIL_DOMAIN">> \o name \o <<"EMAIL_END">>>>,
     <<table, <<"IMPUTATION_BEGIN">> \o name \o <<"IMPUTATION_REPLACEMENT", "0",
                                                 "IMPUTATION_END">>>>,
     <<table, <<"SUBSTRING">> \o name \o <<"BEGIN", "0", "LENGTH", "2">>>>,
     <<table, <<"MONTH_BEGIN">> \o name \o <<"MONTH_END">>>>,
     <<table \o <<text_field>> \o name, name>>}

FramesOf(located) == [i \in DOMAIN located |-> located[i].frame]

\* The columns of the users' tables that the columns of the population stem from.
OwnersOf(origins) ==
    LET columns(k) == IF k = 1 THEN frames[0].columns ELSE joined_columns(frames[origins[k]])
        user(ix, name) ==
            [marker |-> "[POPULATION]",
             table  |-> IF ix = 0 THEN input.data_model.name ELSE input.names[ix],
             name   |-> replace_all(substr_to(name, diffstr), {generated_ts})]
    IN  FlattenSeq([k \in DOMAIN origins |->
            [c \in DOMAIN columns(k) |-> user(origins[k], columns(k)[c].name)]])

\* One for each of the seven that Generated makes of a column.
SevenEach(owners, cols) ==
    [u \in {owners[c] : c \in cols} |-> 7 * Cardinality({c \in cols : owners[c] = u})]

\* Importances that were given to the columns of the staged tables and to what
\* the preprocessors made of them reach the columns of the user's tables, and
\* none is lost or counted twice (Macros::modify_column_importances).
ImportancesReachTheirColumns ==
    phase = "done" =>
        LET cols == {c \in DOMAIN joined[1].columns :
                        /\ joined[1].columns[c].role \in {"categorical", "numerical", "text",
                                                           "time_stamp"}
                        /\ ~Contains(joined[1].columns[c].name, "rowid")}
            descs == UNION {{[marker |-> "[POPULATION]", table |-> g[1], name |-> g[2]] :
                                g \in Generated(joined[1].name, joined[1].columns[c].name)} :
                              c \in cols}
        IN  modify_column_importances([d \in descs |-> 1])
              = SevenEach(OwnersOf(<<0>> \o FramesOf(Located(Root.dm, 0, 1))), cols)

TypeOK ==
    /\ input \in Inputs
    /\ phase \in {"time_stamps", "join_keys", "placeholder", "join", "done", "failed"}
    /\ (phase = "failed") = (error # "")
    /\ \A ix \in DOMAIN frames : \A i \in DOMAIN frames[ix].columns :
          Len(frames[ix].columns[i].data) = frames[ix].nrows
    /\ Len(joined) <= Len(input.names) + 1
=============================================================================
