----------------------------- MODULE MCFastProp -----------------------------
(***************************************************************************)
(* For TableHolder, two rows of a population, three of a table with time   *)
(* stamps, a table that is joined to that one, and a text field.           *)
(*                                                                         *)
(* For FastProp, one peripheral table with every kind of column, with and  *)
(* without conditions on the matches, from whose candidates all are kept;  *)
(* the same with more candidates than features, on samples of the          *)
(* population; and a snowflake, where a peripheral table has a peripheral  *)
(* table of its own.                                                       *)
(***************************************************************************)
EXTENDS Aggregations

\* As in TableHolder.
None       == <<>>
TEXT_FIELD == "$GETML_TEXT_FIELD"
ROWID      == <<"$GETML_ROWID">>

Jk(name, data)      == [name |-> name, data |-> data]
Ts(name, data, gen) == [name |-> name, data |-> data, generated |-> gen]
F(n) == Int2Float(n)

Frame(name, nrows, jks, tss) ==
    [name |-> name, nrows |-> nrows, join_keys |-> jks, time_stamps |-> tss,
     numericals |-> <<>>, targets |-> <<>>, ts_index |-> None]

Population(keys, times) ==
    Frame(<<"p">>, 2, <<Jk(<<"k">>, keys), Jk(ROWID, <<0, 1>>)>>,
          <<Ts(<<"t">>, times, FALSE)>>)

\* kind 1: no upper time stamp; 2: one that lies a memory of 1 later; 3: one of
\* the user, null in the first row.
Orders(keys, times, kind) ==
    Frame(<<"o">>, 3, <<Jk(<<"k">>, keys), Jk(<<"j">>, <<0, 1, 1>>)>>,
          <<Ts(<<"t">>, times, FALSE)>> \o
          (CASE kind = 1 -> <<>>
             [] kind = 2 -> <<Ts(<<"u">>, [i \in 1..3 |-> Add(times[i], F(1))], TRUE)>>
             [] kind = 3 -> <<Ts(<<"u">>, <<NAN, F(2), F(3)>>, FALSE)>>))

Items == Frame(<<"i">>, 3, <<Jk(<<"j">>, <<1, 0, 1>>)>>, <<>>)

Text(owner) == Frame(owner \o <<TEXT_FIELD, "c">>, 2, <<Jk(ROWID, <<0, 0>>)>>, <<>>)

Leaf(name) ==
    [name |-> name, joined_tables |-> <<>>, join_keys_used |-> <<>>,
     other_join_keys_used |-> <<>>, time_stamps_used |-> <<>>,
     other_time_stamps_used |-> <<>>, upper_time_stamps_used |-> <<>>,
     allow_lagged_targets |-> <<>>]

Node(name, sub, jk, ts, upper) ==
    [Leaf(name) EXCEPT !.joined_tables = <<sub>>, !.join_keys_used = <<jk>>,
        !.other_join_keys_used = <<jk>>, !.time_stamps_used = <<ts>>,
        !.other_time_stamps_used = <<ts>>, !.upper_time_stamps_used = <<upper>>,
        !.allow_lagged_targets = <<FALSE>>]

Scenario(pkeys, ptimes, okeys, otimes, kind, owner) ==
    [population       |-> Population(pkeys, ptimes),
     rows             |-> <<1, 2>>,
     additional       |-> <<>>,
     peripheral       |-> <<Orders(okeys, otimes, kind), Items, Text(owner)>>,
     peripheral_names |-> <<<<"o">>, <<"i">>>>,
     placeholder      |-> Node(<<"p">>,
                              Node(<<"o">>, Leaf(<<"i">>), <<"j">>, <<>>, <<>>),
                              <<"k">>, <<"t">>,
                              IF kind = 1 THEN <<>> ELSE <<"u">>)]

MCScenarios ==
    {Scenario(pk, pt, ok, ot, kind, <<"p">>) :
        pk \in {<<0, 1>>, <<0, 0>>, <<-1, 1>>},
        pt \in {<<F(1), F(2)>>, <<F(2), F(1)>>, <<F(1), NAN>>},
        ok \in {<<0, 0, 1>>, <<1, 0, -1>>},
        ot \in [1..3 -> {F(0), F(1), F(2)}]
               \cup {<<NAN, F(1), F(2)>>, <<F(2), NAN, F(1)>>, <<F(0), F(1), NAN>>},
        kind \in 1..3}

-----------------------------------------------------------------------------
(* FastProp *)

Cat(name, unit, col)  == [name |-> name, role |-> "categorical", unit |-> unit, col |-> col]
Num(name, unit, col)  == [name |-> name, role |-> "numerical", unit |-> unit, col |-> col]
Disc(name, unit, col) == [name |-> name, role |-> "discrete", unit |-> unit, col |-> col]
Ints(s) == [i \in DOMAIN s |-> F(s[i])]

PopKeys == <<1, 2, 1, 3, 1>>
N == Len(PopKeys)

P == [name |-> "P", nrows |-> N, keys |-> [k |-> PopKeys],
      ts   |-> <<Ints(<<3, 3, 2, 1, 9>>)>>,
      cols |-> <<Cat("pc", "city", <<0, 1, 1, 0, 0>>),
                 Num("pn", "euro", <<F(1), F(2), NAN, F(2), F(4)>>),
                 Disc("pd", "ts", Ints(<<3, 1, 2, 2, 1>>))>>,
      targets |-> <<Ints(<<1, 2, 2, 3, 4>>)>>]

A == [name |-> "A", nrows |-> 5, keys |-> [k |-> <<1, 1, 2, 1, -1>>, b |-> <<7, 8, 7, -1, 8>>],
      ts   |-> <<Ints(<<1, 2, 1, 4, 1>>)>>,
      cols |-> <<Cat("ac", "city", <<0, 1, -1, 0, 0>>),
                 Cat("ax", "city, comparison only", <<2, 2, 2, 3, 3>>),
                 Num("an", "euro", <<F(2), F(5), F(1), NAN, F(8)>>),
                 Disc("ad", "ts", Ints(<<1, 1, 2, 3, 4>>))>>,
      targets |-> <<>>]

B == [name |-> "B", nrows |-> 4, keys |-> [b |-> <<7, 7, 8, 9>>], ts |-> <<>>,
      cols |-> <<Num("bn", "", <<F(1), F(3), F(6), F(4)>>),
                 Num("bm", "", <<F(2), NAN, F(5), F(4)>>)>>, targets |-> <<>>]

Tables == [P |-> P, A |-> A, B |-> B]

Ends(t) == [table |-> t, joined |-> <<>>]
Join(ph, k) == [placeholder |-> ph, key |-> k, other_key |-> k]
Star_ == [table |-> "P", joined |-> <<Join(Ends("A"), "k")>>]
Snow  == [table |-> "P",
          joined |-> <<Join([table |-> "A", joined |-> <<Join(Ends("B"), "b")>>], "k")>>]

Instance(ph, aggs, num, freq, lag, sample) ==
    [tables |-> Tables, placeholder |-> ph, aggregation |-> aggs,
     num_features |-> num, n_most_frequent |-> freq, delta_t |-> lag,
     max_lag |-> IF lag > 0 THEN 2 ELSE 0, min_sample |-> sample]

MCInstances ==
    { Instance(Star_, <<"COUNT", "AVG", "COUNT DISTINCT">>, 500, 1, 0, N),
      Instance(Star_, <<"COUNT", "SUM">>, 3, 1, 2, N - 1),
      Instance(Star_, <<"LAST", "TIME SINCE FIRST MAXIMUM">>, 500, 0, 1, N),
      Instance(Snow, <<"COUNT", "MAX", "FIRST">>, 500, 0, 0, N),
      Instance(Snow, <<"AVG">>, 4, 0, 0, N - 1),
      Instance(Snow, <<"MEDIAN">>, 500, 0, 1, N) }

MCComparisonOnly == {"city, comparison only"}
MCTimeStampUnit == {"ts"}
=============================================================================
