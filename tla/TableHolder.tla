----------------------------- MODULE TableHolder -----------------------------
(***************************************************************************)
(* The tables a feature learner sees (helpers::TableHolder), the views of  *)
(* the data frames they are made of (helpers::DataFrame), and how the rows *)
(* of a peripheral table that belong to a row of the population table are  *)
(* found (helpers::Matchmaker), through the index of the join key alone or *)
(* through an index sorted by join key and time stamp (tsindex).           *)
(*                                                                         *)
(* A name is a sequence of parts.  A data frame has join keys              *)
(* [name, data], time stamps [name, data, generated], where generated says *)
(* that the name has the mark of a time stamp the engine computed, and     *)
(* columns of other roles, which these functions only pass on; its rows    *)
(* are numbered from 1.  A null join key is -1, a null time stamp NAN.     *)
(***************************************************************************)
EXTENDS Aggregations

CONSTANTS
    Scenarios,    \* set of [population, peripheral, peripheral_names, placeholder]
    SortedWithNulls(_, _, _)  \* what std::stable_sort makes of rows, by join keys and
                  \* time stamps, when some time stamp is null: it has no order to go by

VARIABLES
    params,          \* TableHolderParams
    tables,          \* the TableHolder, None before it is built
    matches          \* the matches found, by table and row of the population

holderVars == <<params, tables, matches>>

None == <<>>
TEXT_FIELD == "$GETML_TEXT_FIELD"
ROWID      == <<"$GETML_ROWID">>

-----------------------------------------------------------------------------
(* helpers::DataFrame *)

Rows(df) == 1..df.nrows

\* The elements of the finite set S, in the order of the relation R.
Sorted(S, R) ==
    CHOOSE s \in [1..Cardinality(S) -> S] :
        \A i, j \in 1..Cardinality(S) : i < j => <<s[i], s[j]>> \in R

Ascending(S) == Sorted(S, {x \in S \X S : x[1] < x[2]})

\* The rows with one of the join keys: null keys are not in the index.
RowsWith(df, jks, keys) == {r \in Rows(df) : jks[r] >= 0 /\ jks[r] \in keys}

\* index[jk]: the rows of a join key, in order.
find(df, jk) == Ascending(RowsWith(df, df.join_keys[1].data, {jk}))

has(df, jk) == find(df, jk) # <<>>

time_stamp(df, r) ==
    IF df.time_stamps = <<>> THEN Zero ELSE df.time_stamps[1].data[r]

upper_time_stamp(df, r) ==
    IF Len(df.time_stamps) <= 1 THEN NAN ELSE df.time_stamps[2].data[r]

find_ix_join_key(df, name) ==
    CHOOSE i \in DOMAIN df.join_keys : df.join_keys[i].name = name
find_ix_time_stamp(df, name) ==
    CHOOSE i \in DOMAIN df.time_stamps : df.time_stamps[i].name = name

make_numericals_and_time_stamps(df, additional, allow_lagged_targets, upper) ==
    df.numericals \o additional
    \o (IF allow_lagged_targets THEN df.targets ELSE <<>>)
    \o SelectSeq([i \in DOMAIN df.time_stamps |-> df.time_stamps[i].name],
                 LAMBDA name : upper = <<>> \/ name # upper)

-----------------------------------------------------------------------------
(* tsindex::InMemoryIndex *)

\* Key: operator< compares the join key, then the time stamp.
KeyLess(a, b) == IF a[1] # b[1] THEN a[1] < b[1] ELSE Less(a[2], b[2])

make_key(jks, lower_ts, r) == <<jks[r], lower_ts[r]>>

\* std::stable_sort by key: rows of one key keep their order.
make_row_indices(jks, lower_ts, rownums) ==
    LET key(r) == make_key(jks, lower_ts, r)
    IN  IF \E r \in rownums : is_null(lower_ts[r])
        THEN SortedWithNulls(jks, lower_ts, rownums)
        ELSE Sorted(rownums, {x \in rownums \X rownums :
                            \/ KeyLess(key(x[1]), key(x[2]))
                            \/ ~KeyLess(key(x[2]), key(x[1])) /\ x[1] < x[2]})

\* The first place, from 0, at which a key is found.  A null time stamp is neither
\* less nor greater than any other: once a join key has such an entry, or where it has
\* any, the map takes them to be the same.
make_key_map(jks, lower_ts, row_indices) ==
    LET key(i)    == make_key(jks, lower_ts, row_indices[i])
        before(k) == {l \in 1..k - 1 : key(l)[1] = key(k)[1]}
        known(k)  == \E l \in before(k) :
                        \/ key(l) = key(k)
                        \/ is_null(key(k)[2])
                        \/ is_null(key(l)[2]) /\ before(l) = {}
    IN  {[key |-> key(i), ix |-> i - 1] : i \in {k \in DOMAIN row_indices : ~known(k)}}

\* upper_bound of the key map
find_ix(index, key) ==
    LET above == {e \in index.key_map : KeyLess(key, e.key)}
    IN  IF above = {} THEN Len(index.row_indices)
        ELSE Min({e.ix : e \in above})

\* A mutant: the lower end of the range is looked up like the upper one is, so
\* that a row whose memory ends at the time stamp is still found.
find_range_late(index, jk, ts) ==
    LET at(e) == e.key = <<jk, Sub(ts, index.memory)>>
        old   == {e \in index.key_map : at(e)}
    IN  SubSeq(index.row_indices,
               (IF old = {} THEN find_ix(index, <<jk, Sub(ts, index.memory)>>)
                ELSE Min({e.ix : e \in old})) + 1,
               find_ix(index, <<jk, ts>>))

\* What a loop over a range whose begin lies behind its end reads: it never meets the
\* end, and takes what lies behind the rows for row numbers.  No row has the number 0.
PastTheEnd == <<0>>

find_range(index, jk, ts) ==
    LET begin == find_ix(index, <<jk, Sub(ts, index.memory)>>)
        end   == find_ix(index, <<jk, ts>>)
    IN  IF begin <= end THEN SubSeq(index.row_indices, begin + 1, end) ELSE PastTheEnd

\* helpers::DataFrame::make_ts_index: the memory is the difference of the two
\* time stamps in the first row.
make_ts_index(df, join_key, ts, upper, population_join_keys) ==
    LET jks   == df.join_keys[find_ix_join_key(df, join_key)].data
        lower == df.time_stamps[find_ix_time_stamp(df, ts)].data
        up    == df.time_stamps[find_ix_time_stamp(df, upper)]
        rownums     == RowsWith(df, jks, Range(population_join_keys))
        row_indices == make_row_indices(jks, lower, rownums)
    IN  IF df.nrows = 0 \/ population_join_keys = <<>> \/ ~up.generated
        THEN None
        ELSE [memory      |-> Sub(up.data[1], lower[1]),
              row_indices |-> row_indices,
              key_map     |-> make_key_map(jks, lower, row_indices)]

create_subview(df, p) ==
    LET jk == df.join_keys[find_ix_join_key(df, p.join_key)]
        ts == df.time_stamps[find_ix_time_stamp(df, p.time_stamp)]
        up == df.time_stamps[find_ix_time_stamp(df, p.upper_time_stamp)]
        view == [df EXCEPT !.join_keys = <<jk>>,
                           !.numericals = make_numericals_and_time_stamps(df,
                                p.additional, p.allow_lagged_targets, p.upper_time_stamp),
                           !.time_stamps = <<>>,
                           !.ts_index = None]
    IN  IF p.time_stamp = <<>> THEN view
        ELSE IF p.upper_time_stamp = <<>> THEN [view EXCEPT !.time_stamps = <<ts>>]
        ELSE [view EXCEPT !.time_stamps = <<ts, up>>,
                          !.ts_index = make_ts_index(df, p.join_key, p.time_stamp,
                                            p.upper_time_stamp, p.population_join_keys)]

-----------------------------------------------------------------------------
(* helpers::Matchmaker *)

make_matches_using_linear_method(per, jk, ts_out) ==
    LET match_in_range(r) ==
            LET lower == time_stamp(per, r)
                upper == upper_time_stamp(per, r)
            IN  /\ ~is_null(lower) /\ ~is_null(ts_out) /\ ~Less(ts_out, lower)
                /\ is_null(upper) \/ Less(ts_out, upper)
    IN  Ascending({r \in Range(find(per, jk)) : match_in_range(r)})

make_matches_using_ts_index(per, jk, ts_out) == find_range(per.ts_index, jk, ts_out)

make_matches(pop, per, r) ==
    LET jk     == pop.join_keys[1].data[r]
        ts_out == time_stamp(pop, r)
    IN  IF ~has(per, jk) THEN <<>>
        ELSE IF per.ts_index # None THEN make_matches_using_ts_index(per, jk, ts_out)
        ELSE make_matches_using_linear_method(per, jk, ts_out)

-----------------------------------------------------------------------------
(* helpers::TableHolder.  p is TableHolderParams, with the rows of the view *)
(* of the population table in p.rows.                                       *)

Joined(p) == p.placeholder.joined_tables

find_peripheral_ix(names, name) == CHOOSE i \in DOMAIN names : names[i] = name

\* std::string::find of part in name
NameContains(name, part) ==
    \E i \in 0..Len(name) - Len(part) : SubSeq(name, i + 1, i + Len(part)) = part

is_relevant_text_field(p, df) ==
    NameContains(df.name, p.population.name \o <<TEXT_FIELD>>)

RelevantTextFields(p) ==
    LET ixs == Ascending({i \in DOMAIN p.peripheral : is_relevant_text_field(p, p.peripheral[i])})
    IN  [k \in DOMAIN ixs |-> p.peripheral[ixs[k]]]

PopulationParams(p, i) ==
    [join_key |-> p.placeholder.join_keys_used[i],
     time_stamp |-> p.placeholder.time_stamps_used[i], upper_time_stamp |-> <<>>,
     additional |-> p.additional, allow_lagged_targets |-> FALSE,
     population_join_keys |-> <<>>]

population_join_keys(p, i) ==
    LET col == p.population.join_keys[
                   find_ix_join_key(p.population, p.placeholder.join_keys_used[i])].data
    IN  [k \in DOMAIN p.rows |-> col[p.rows[k]]]

PeripheralParams(p, i) ==
    [join_key |-> p.placeholder.other_join_keys_used[i],
     time_stamp |-> p.placeholder.other_time_stamps_used[i],
     upper_time_stamp |-> p.placeholder.upper_time_stamps_used[i],
     additional |-> <<>>,
     allow_lagged_targets |-> p.placeholder.allow_lagged_targets[i],
     population_join_keys |-> population_join_keys(p, i)]

parse_main_tables(p) ==
    [i \in DOMAIN Joined(p) |-> create_subview(p.population, PopulationParams(p, i))]
    \o [i \in DOMAIN RelevantTextFields(p) |->
            create_subview(p.population,
                [join_key |-> ROWID, time_stamp |-> <<>>, upper_time_stamp |-> <<>>,
                 additional |-> p.additional, allow_lagged_targets |-> FALSE,
                 population_join_keys |-> <<>>])]

add_text_fields_to_peripheral_tables(original, p) == original \o RelevantTextFields(p)

parse_peripheral_tables(p) ==
    add_text_fields_to_peripheral_tables(
        [i \in DOMAIN Joined(p) |->
            create_subview(p.peripheral[find_peripheral_ix(p.peripheral_names,
                                                           Joined(p)[i].name)],
                           PeripheralParams(p, i))],
        p)

\* Every row of the peripheral table whose join key some row of the population
\* has, whatever the time stamps.
make_subrows(pop, rows, per) ==
    Ascending(UNION {Range(find(per, pop.join_keys[1].data[rows[k]])) : k \in DOMAIN rows})

\* The peripheral table j, with the rows the population view may match.
make_output(p, i, j) ==
    [p EXCEPT !.population  = p.peripheral[j],
              !.rows        = make_subrows(create_subview(p.population, PopulationParams(p, i)),
                                           p.rows,
                                           create_subview(p.peripheral[j], PeripheralParams(p, i))),
              !.placeholder = Joined(p)[i],
              !.additional  = <<>>]

\* One level: the subtables of the joined tables that have joined tables.
parse_subtables(p) ==
    [i \in DOMAIN Joined(p) |->
        IF Joined(p)[i].joined_tables = <<>> THEN None
        ELSE LET sub == make_output(p, i, find_peripheral_ix(p.peripheral_names,
                                                             Joined(p)[i].name))
             IN  [params            |-> sub,
                  main_tables       |-> parse_main_tables(sub),
                  peripheral_tables |-> parse_peripheral_tables(sub)]]
    \o [i \in DOMAIN RelevantTextFields(p) |-> None]

NewTableHolder(p) ==
    [params            |-> p,
     main_tables       |-> parse_main_tables(p),
     peripheral_tables |-> parse_peripheral_tables(p),
     subtables         |-> parse_subtables(p)]

-----------------------------------------------------------------------------
HolderInit ==
    /\ params \in Scenarios
    /\ tables = None
    /\ matches = <<>>

Build ==
    /\ tables = None
    /\ tables' = NewTableHolder(params)
    /\ UNCHANGED <<params, matches>>

\* A learner asks for the matches of one row of the view, table by table.
MatchRow ==
    /\ tables # None
    /\ Len(matches) < Len(params.rows)
    /\ LET r == params.rows[Len(matches) + 1]
       IN  matches' = Append(matches,
               [i \in DOMAIN tables.main_tables |->
                   make_matches(tables.main_tables[i], tables.peripheral_tables[i], r)])
    /\ UNCHANGED <<params, tables>>

HolderNext == Build \/ MatchRow

HolderSpec == HolderInit /\ [][HolderNext]_holderVars

-----------------------------------------------------------------------------
(* Properties *)

IsFrame(df) ==
    /\ {"nrows", "join_keys", "numericals", "time_stamps", "ts_index"} \subseteq DOMAIN df
    /\ df.nrows \in Nat
    /\ \A i \in DOMAIN df.join_keys : df.join_keys[i].data \in [Rows(df) -> Int]
    /\ \A i \in DOMAIN df.time_stamps : df.time_stamps[i].data \in [Rows(df) -> Rational \cup {NAN}]

HasKey(df, name)  == \E i \in DOMAIN df.join_keys : df.join_keys[i].name = name
HasTime(df, name) == \E i \in DOMAIN df.time_stamps : df.time_stamps[i].name = name

\* An upper time stamp that the engine computed lies a memory after the lower one,
\* the same for all rows, and is null where the lower one is
\* (modify_data_frames::make_time_stamps).
LiesAMemoryAfter(up, low, df) ==
    \A s \in Rows(df) :
        IF is_null(low[s]) THEN is_null(up[s])
        ELSE /\ up[s] \in Rational /\ ~Less(up[s], low[s])
             /\ \A r \in Rows(df) : ~is_null(low[r]) => up[s] = Add(low[s], Sub(up[r], low[r]))

\* The table that is joined i-th.
Peripheral(p, i) ==
    p.peripheral[find_peripheral_ix(p.peripheral_names, Joined(p)[i].name)]

\* What staging hands over: frames that have the columns which the placeholder
\* names.
WellFormed(p) ==
    LET ph == p.placeholder
    IN  /\ {"population", "rows", "additional", "peripheral", "peripheral_names",
             "placeholder"} = DOMAIN p
        /\ IsFrame(p.population) /\ \A i \in DOMAIN p.peripheral : IsFrame(p.peripheral[i])
        /\ Len(p.rows) \in Nat /\ p.rows \in [1..Len(p.rows) -> Rows(p.population)]
        /\ IsFiniteSet(DOMAIN p.peripheral) /\ DOMAIN p.peripheral \subseteq Nat
        /\ DOMAIN p.peripheral_names \subseteq DOMAIN p.peripheral
        /\ Len(Joined(p)) \in Nat /\ DOMAIN Joined(p) = 1..Len(Joined(p))
        /\ \A i \in DOMAIN Joined(p) :
            LET name  == ph.time_stamps_used[i]
                lower == ph.other_time_stamps_used[i]
                upper == ph.upper_time_stamps_used[i]
                per   == Peripheral(p, i)
                Time(n) == per.time_stamps[find_ix_time_stamp(per, n)]
            IN  /\ \E k \in DOMAIN p.peripheral_names : p.peripheral_names[k] = Joined(p)[i].name
                /\ HasKey(p.population, ph.join_keys_used[i]) /\ HasKey(per, ph.other_join_keys_used[i])
                /\ name = <<>> <=> lower = <<>>
                /\ name # <<>> => HasTime(p.population, name) /\ HasTime(per, lower)
                /\ upper # <<>> => name # <<>> /\ HasTime(per, upper)
                /\ upper # <<>> /\ Time(upper).generated =>
                        LiesAMemoryAfter(Time(upper).data, Time(lower).data, per)

ASSUME TableHolderAssumption ==
    NAN \notin Rational /\ \A p \in Scenarios : WellFormed(p)

\* The tables come in pairs, one of the population and one peripheral.
HolderTypeOK ==
    /\ WellFormed(params)
    /\ tables # None =>
          /\ Len(tables.main_tables) = Len(tables.peripheral_tables)
          /\ Len(tables.subtables) = Len(tables.main_tables)
          /\ \A i \in DOMAIN tables.main_tables :
                Len(tables.main_tables[i].join_keys) = 1
    /\ Len(matches) <= Len(params.rows)

\* What the data model asks for: the row s of the joined table i belongs to the
\* row r of the population.
Belongs(i, r, s) ==
    LET ph  == params.placeholder
        pop == params.population
        per == Peripheral(params, i)
        Key(df, name)  == df.join_keys[find_ix_join_key(df, name)].data
        Time(df, name) == df.time_stamps[find_ix_time_stamp(df, name)].data
        k1  == Key(pop, ph.join_keys_used[i])[r]
        k2  == Key(per, ph.other_join_keys_used[i])[s]
    IN  /\ k1 = k2 /\ k1 >= 0
        /\ ph.time_stamps_used[i] # <<>> =>
              LET now == Time(pop, ph.time_stamps_used[i])[r]
                  low == Time(per, ph.other_time_stamps_used[i])[s]
              IN  /\ ~is_null(low) /\ ~is_null(now) /\ ~Less(now, low)
                  /\ ph.upper_time_stamps_used[i] # <<>> =>
                        LET up == Time(per, ph.upper_time_stamps_used[i])[s]
                        IN  is_null(up) \/ Less(now, up)

\* Where the rows are found through an index by time stamps, none of these is null.
\* Nothing in the engine sees to it: tsindex::Key only asserts it (Key.hpp:26-27,38-39),
\* and with a null the index finds too much, too little, or rows that are not there.
TimesAreKnown(i) ==
    LET per   == Peripheral(params, i)
        lower == params.placeholder.other_time_stamps_used[i]
        upper == params.placeholder.upper_time_stamps_used[i]
    IN  upper # <<>> /\ per.time_stamps[find_ix_time_stamp(per, upper)].generated =>
            \A s \in Rows(per) : ~is_null(per.time_stamps[find_ix_time_stamp(per, lower)].data[s])

\* A feature of a row is computed from exactly the rows of the past that have
\* its key, each of them once, however they are found: no row of the future
\* leaks into it, as long as the index by time stamps has no null to sort
\* (Matchmaker::make_matches, InMemoryIndex::find_range).
MatchesAreExact ==
    \A k \in DOMAIN matches : \A i \in DOMAIN Joined(params) : TimesAreKnown(i) =>
        LET m   == matches[k][i]
            all == Rows(tables.peripheral_tables[i])
        IN  /\ Range(m) = {s \in all : Belongs(i, params.rows[k], s)}
            /\ Len(m) = Cardinality(Range(m))

\* The subfeatures are only built for the rows of a subtable's main table: every
\* row that is matched is one of them, as long as the index by time stamps has no
\* null to sort (TableHolder::make_subrows).
MatchedRowsAreInTheSubtable ==
    \A k \in DOMAIN matches : \A i \in DOMAIN Joined(params) :
        TimesAreKnown(i) /\ tables.subtables[i] # None =>
            Range(matches[k][i]) \subseteq Range(tables.subtables[i].params.rows)

\* A row of the population is matched with the rows of a joined table that have its
\* key and lie in its time window, all of which are in the subtable, unless they are
\* looked up by time stamps of which one is null (helpers::Matchmaker, TableHolder).
MatchesAreTheRowsThatBelong == MatchesAreExact /\ MatchedRowsAreInTheSubtable

=============================================================================
