-------------------------------- MODULE Macros --------------------------------
(***************************************************************************)
(* The names the engine makes for tables and columns while it joins them   *)
(* (helpers::Macros), and how importances find their way back from these   *)
(* names to the columns of the user (modify_column_importances).           *)
(*                                                                         *)
(* A name is a sequence of tokens: words of the user and the macros.  A    *)
(* search for a macro in a string is a search for its token.  The empty    *)
(* string is the empty sequence.  The importances of an ImportanceMaker    *)
(* are a function of ColumnDescriptions [marker, table, name] to integers. *)
(***************************************************************************)
EXTENDS Integers, Sequences, FiniteSets, SequencesExt, Functions, Folds, TLC

\* What separates the parameters of a name: every token starts with join_param.
NAME == "NAME="
ALIAS == "ALIAS="
JOIN_KEY == "JOIN_KEY="
OTHER_JOIN_KEY == "OTHER_JOIN_KEY="
TIME_STAMP == "TIME_STAMP="
OTHER_TIME_STAMP == "OTHER_TIME_STAMP="
UPPER_TIME_STAMP == "UPPER_TIME_STAMP="
ONE_TO_ONE == "ONE_TO_ONE="
JOINED_TO_NAME == "JOINED_TO_NAME="
JOINED_TO_ALIAS == "JOINED_TO_ALIAS="
TABLE == "TABLE="
COLUMN == "COLUMN="
DELIMITER == "DELIMITER"
END == "END"

join_params ==
    {NAME, ALIAS, JOIN_KEY, OTHER_JOIN_KEY, TIME_STAMP, OTHER_TIME_STAMP,
     UPPER_TIME_STAMP, ONE_TO_ONE, JOINED_TO_NAME, JOINED_TO_ALIAS, TABLE,
     COLUMN, DELIMITER, END}

rowid             == <<"rowid">>
no_join_key       == <<"NO_JOIN_KEY">>
t1_or_t2          == <<"T1_OR_T2">>
population        == "POPULATION"
staging_table_num == "STAGING_TABLE_NUM"
text_field        == "TEXT_FIELD"
mapping           == "__mapping_"
generated_ts      == "GENERATED_TS"
diffstr           == "DIFFSTR"

multiple_join_key_begin == "MULTIPLE_JOIN_KEYS_BEGIN"
multiple_join_key_end   == "MULTIPLE_JOIN_KEYS_END"
multiple_join_key_sep   == "JOIN_KEY_SEP"

-----------------------------------------------------------------------------
(* std::string and helpers::StringSplitter *)

find(s, token) == SelectInSeq(s, LAMBDA t : t = token)

\* What stands before a token, or everything where it does not occur.
substr_to(s, token) ==
    IF Contains(s, token) THEN SubSeq(s, 1, find(s, token) - 1) ELSE s

replace_all(s, tokens) == SelectSeq(s, LAMBDA t : t \notin tokens)

split(s, sep) ==
    FoldLeft(LAMBDA parts, t :
                IF t = sep THEN Append(parts, <<>>)
                ELSE [parts EXCEPT ![Len(parts)] = Append(@, t)],
             <<<<>>>>, s)

-----------------------------------------------------------------------------
(* Making and parsing names *)

get_param(s, key) ==
    LET rest == SubSeq(s, find(s, key) + 1, Len(s))
    IN  SubSeq(rest, 1, SelectInSeq(rest, LAMBDA t : t \in join_params) - 1)

make_colname(tname, alias, colname) ==
    IF Contains(colname, COLUMN) THEN colname
    ELSE <<TABLE>> \o tname \o <<ALIAS>> \o alias \o <<COLUMN>> \o colname \o <<END>>

\* The parameters of a join: what make_table_name is given and what
\* parse_table_name returns.
Parameters(name, alias, jk, other_jk, ts, other_ts, upper_ts, to_name, to_alias, one_to_one) ==
    [name |-> name, alias |-> alias, join_key |-> jk, other_join_key |-> other_jk,
     time_stamp |-> ts, other_time_stamp |-> other_ts, upper_time_stamp |-> upper_ts,
     joined_to_name |-> to_name, joined_to_alias |-> to_alias,
     one_to_one |-> one_to_one]

MadeName(p) ==
    <<DELIMITER, NAME>> \o p.name \o <<ALIAS>> \o p.alias
    \o <<JOIN_KEY>> \o p.join_key \o <<OTHER_JOIN_KEY>> \o p.other_join_key
    \o <<TIME_STAMP>> \o p.time_stamp \o <<OTHER_TIME_STAMP>> \o p.other_time_stamp
    \o <<UPPER_TIME_STAMP>> \o p.upper_time_stamp
    \o <<JOINED_TO_NAME>> \o p.joined_to_name
    \o <<JOINED_TO_ALIAS>> \o p.joined_to_alias
    \o <<ONE_TO_ONE, IF p.one_to_one THEN "true" ELSE "false", END>>

\* A table that was joined to is named by the table its first join started at.
StartOf(name, alias) ==
    IF Contains(name, JOINED_TO_NAME)
    THEN <<get_param(name, JOINED_TO_NAME), get_param(name, JOINED_TO_ALIAS)>>
    ELSE <<name, alias>>

Extra(name) == IF Contains(name, JOINED_TO_NAME) THEN name ELSE <<>>

make_table_name(p) ==
    LET start  == StartOf(p.name, p.alias)
        joined == StartOf(p.joined_to_name, p.joined_to_alias)
    IN  Extra(p.joined_to_name)
        \o MadeName([p EXCEPT !.name = start[1], !.alias = start[2],
                              !.joined_to_name = joined[1],
                              !.joined_to_alias = joined[2]])
        \o Extra(p.name)

parse_table_name(s) ==
    Parameters(get_param(s, NAME), get_param(s, ALIAS), get_param(s, JOIN_KEY),
               get_param(s, OTHER_JOIN_KEY), get_param(s, TIME_STAMP),
               get_param(s, OTHER_TIME_STAMP), get_param(s, UPPER_TIME_STAMP),
               get_param(s, JOINED_TO_NAME), get_param(s, JOINED_TO_ALIAS),
               get_param(s, ONE_TO_ONE) = <<"true">>)

parse_join_key_name(jk_name) ==
    LET parts == split(jk_name, multiple_join_key_sep)
    IN  [i \in DOMAIN parts |->
            IF Len(parts) = 1 THEN parts[i]
            ELSE replace_all(parts[i],
                    (IF i = 1 THEN {multiple_join_key_begin} ELSE {})
                    \cup (IF i = Len(parts) THEN {multiple_join_key_end} ELSE {}))]

parse_table_colname(table, colname) ==
    LET begin == find(colname, TABLE)
        end   == find(colname, END)
        owner == IF Contains(colname, TABLE) THEN get_param(colname, TABLE)
                 ELSE IF Contains(table, JOINED_TO_NAME)
                      THEN get_param(table, JOINED_TO_NAME)
                 ELSE table
    IN  [table |-> substr_to(owner, staging_table_num),
         name  |-> IF ~Contains(colname, TABLE) THEN colname
                   ELSE SubSeq(colname, 1, begin - 1) \o get_param(colname, COLUMN)
                        \o SubSeq(colname, end + 1, Len(colname))]

\* Every column of the query is named as in its table, the rest left alone.
RECURSIVE remove_colnames(_)
remove_colnames(sql) ==
    LET begin == find(sql, TABLE)
        end   == begin - 1 + find(SubSeq(sql, begin, Len(sql)), END)
    IN  IF begin = 0 THEN sql
        ELSE remove_colnames(SubSeq(sql, 1, begin - 1)
                             \o parse_table_colname(<<>>, SubSeq(sql, begin, end)).name
                             \o SubSeq(sql, end + 1, Len(sql)))

-----------------------------------------------------------------------------
(* Taking a generated column back to the one it was made of *)

remove_email(c) == replace_all(c, {"EMAIL_DOMAIN", "EMAIL_END"})

remove_imputation(c) ==
    LET d == replace_all(c, {"DUMMY_BEGIN", "DUMMY_END"})
    IN  IF ~Contains(d, "IMPUTATION_BEGIN") THEN d
        ELSE SubSeq(d, find(d, "IMPUTATION_BEGIN") + 1,
                    find(d, "IMPUTATION_REPLACEMENT") - 1)

remove_mappings(c) == substr_to(c, mapping)

remove_population(t) == substr_to(t, population)

remove_substring(c) ==
    IF ~Contains(c, "SUBSTRING") THEN c
    ELSE SubSeq(c, find(c, "SUBSTRING") + 1, find(c, "BEGIN") - 1)

remove_seasonal(c) ==
    replace_all(c, {"HOUR_BEGIN", "HOUR_END", "MINUTE_BEGIN", "MINUTE_END",
                    "MONTH_BEGIN", "MONTH_END", "WEEKDAY_BEGIN", "WEEKDAY_END",
                    "YEAR_BEGIN", "YEAR_END"})

remove_text_field(t) == substr_to(t, text_field)

remove_time_diff(c) ==
    IF Contains(c, generated_ts) THEN substr_to(c, diffstr) ELSE c

-----------------------------------------------------------------------------
(* transpilation::HumanReadableSQLGenerator: the names a reader sees *)

PREFIX == "PREFIX"
POSTFIX == "POSTFIX"

Opening ==
    [OPEN_BRACKET |-> "( ", EMAIL_DOMAIN |-> "email_domain( ",
     IMPUTATION_BEGIN |-> "COALESCE( ", DUMMY_BEGIN |-> "( CASE WHEN ",
     SUBSTRING |-> "substr( ", HOUR_BEGIN |-> "hour( ", MINUTE_BEGIN |-> "minute( ",
     MONTH_BEGIN |-> "month( ", WEEKDAY_BEGIN |-> "weekday( ", YEAR_BEGIN |-> "year( "]

Closing ==
    [CLOSE_BRACKET |-> " )", EMAIL_END |-> " )", IMPUTATION_REPLACEMENT |-> ", ",
     IMPUTATION_END |-> " )", DUMMY_END |-> " IS NULL THEN 1 ELSE 0 END )",
     BEGIN |-> ", ", LENGTH |-> ", ", HOUR_END |-> " )", MINUTE_END |-> " )",
     MONTH_END |-> " )", WEEKDAY_END |-> " )", YEAR_END |-> " )"]

Replaced(t) ==
    IF t = generated_ts THEN <<>>
    ELSE IF t = diffstr THEN <<POSTFIX>>
    ELSE IF t \in DOMAIN Opening THEN <<Opening[t], PREFIX>>
    ELSE IF t \in DOMAIN Closing THEN <<POSTFIX, Closing[t]>>
    ELSE <<t>>

ColumnIn(inner) == IF Contains(inner, COLUMN) THEN get_param(inner, COLUMN) ELSE inner

\* What lies between the last prefix and the first postfix is the column; a name
\* in which they come the other way round is refused.
DividedAt(text, pos1, pos2) ==
    [ok       |-> pos1 < pos2,
     prefix   |-> replace_all(SubSeq(text, 1, pos1), {PREFIX}),
     new_name |-> ColumnIn(SubSeq(text, pos1 + 1, pos2 - 1)),
     postfix  |-> replace_all(SubSeq(text, pos2, Len(text)), {POSTFIX})]

Divided(text) ==
    DividedAt(text, SelectLastInSeq(text, LAMBDA t : t = PREFIX), find(text, POSTFIX))

demangled(name) ==
    Divided(FlattenSeq(<<<<PREFIX>>>> \o [i \in DOMAIN name |-> Replaced(name[i])]
                       \o <<<<POSTFIX>>>>))

\* The alias of a column that was joined under an alias of its own.
own_alias(raw_name) ==
    IF Contains(raw_name, ALIAS) /\ get_param(raw_name, ALIAS) # t1_or_t2
    THEN get_param(raw_name, ALIAS) ELSE <<>>

Before(alias, sep) == alias \o IF alias = <<>> THEN <<>> ELSE <<sep>>

\* A demangled name without a table, under the alias it was joined with.
WithoutTable(raw_name, d) ==
    Before(IF Contains(raw_name, mapping) THEN <<>> ELSE own_alias(raw_name), "__")
    \o d.prefix \o d.new_name \o d.postfix

staged_colname(raw_name) == WithoutTable(raw_name, demangled(raw_name))

StagedUpTo(raw_name, m_pos) ==
    IF m_pos = 0 THEN raw_name
    ELSE staged_colname(SubSeq(raw_name, 1, m_pos - 1))
         \o SubSeq(raw_name, m_pos, Len(raw_name))

demangle_colname(raw_name) == demangled(StagedUpTo(raw_name, find(raw_name, mapping)))

make_staging_table_colname(raw_name) == WithoutTable(raw_name, demangle_colname(raw_name))

InTable(d, owner) == d.prefix \o Before(owner, ".") \o d.new_name \o d.postfix

make_staging_table_column(raw_name, alias) ==
    IF Contains(raw_name, "NO_JOIN_KEY") THEN <<"1">>
    ELSE InTable(demangle_colname(raw_name),
                 IF alias # <<>> /\ own_alias(raw_name) # <<>> THEN own_alias(raw_name)
                 ELSE alias)

-----------------------------------------------------------------------------
(* helpers::ImportanceMaker *)

add_to_importances(imp, desc, value) ==
    IF desc \in DOMAIN imp THEN [imp EXCEPT ![desc] = @ + value]
    ELSE imp @@ (desc :> value)

erase(imp, desc) == Restrict(imp, DOMAIN imp \ {desc})

\* A mutant: what has arrived at the target already is overwritten.
transfer_over(imp, from, to) ==
    IF from \notin DOMAIN imp THEN imp
    ELSE erase((to :> imp[from]) @@ imp, from)

transfer(imp, from, to) ==
    IF from \notin DOMAIN imp THEN imp
    ELSE erase(add_to_importances(imp, to, imp[from]), from)

merge(imp, other) ==
    FoldSet(LAMBDA desc, acc : add_to_importances(acc, desc, other[desc]),
            imp, DOMAIN other)

transfer_population(imp) ==
    FoldSet(LAMBDA desc, acc :
                add_to_importances(acc, [desc EXCEPT !.marker = "[PERIPHERAL]"],
                                   imp[desc]),
            <<>>, DOMAIN imp)

to_desc(desc) ==
    LET parsed == parse_table_colname(desc.table, desc.name)
    IN  [marker |-> desc.marker,
         table  |-> remove_text_field(remove_population(parsed.table)),
         name   |-> make_staging_table_column(
                        remove_time_diff(remove_seasonal(remove_substring(
                            remove_imputation(remove_email(
                                remove_mappings(parsed.name)))))), <<>>)]

TransferUnlessSame(imp, from, to) ==
    IF to = from THEN imp ELSE transfer(imp, from, to)

modify_column_importances(imp) ==
    FoldSet(LAMBDA from, acc :
                TransferUnlessSame(acc, from, to_desc(from)),
            imp, DOMAIN imp)
=============================================================================
