------------------------------ MODULE MCStaging ------------------------------
(***************************************************************************)
(* For Staging, a population and two peripheral tables of two or three     *)
(* rows and data models that join them in one and in two steps.            *)
(*                                                                         *)
(* For Preprocessors, two sets of staged tables, of a population and two   *)
(* peripheral tables that are joined one to the next, and the              *)
(* preprocessors in several orders.                                        *)
(*                                                                         *)
(* For PipelineFit, two pipelines over one population table and one        *)
(* peripheral table, which differ in what the fingerprints of the trackers *)
(* are made of.                                                            *)
(***************************************************************************)
EXTENDS Macros

CONSTANT Selecting  \* do the pipelines differ only in the share of features they select?

\* As in Staging.
Column(name, role, unit, data) == [name |-> name, role |-> role, unit |-> unit, data |-> data]

Join(table, relationship, jk, other_jk) ==
    [table |-> table, relationship |-> relationship, join_key |-> jk,
     other_join_key |-> other_jk, time_stamp |-> <<>>, other_time_stamp |-> <<>>,
     upper_time_stamp |-> <<>>, horizon |-> 0, memory |-> 0,
     allow_lagged_targets |-> FALSE]

Timed(j, upper)  == [j EXCEPT !.time_stamp = <<"t">>, !.other_time_stamp = <<"s">>,
                              !.upper_time_stamp = upper]
Model(name, joins) == [name |-> name, joins |-> joins]

K == <<"k">>
Both(l) == <<multiple_join_key_begin, "k", multiple_join_key_sep, l, multiple_join_key_end>>

A(joins) == Model(<<"a">>, joins)
B        == Model(<<"b">>, <<>>)

MCDataModels ==
    LET P(joins) == Model(<<"p">>, joins)
    IN  {P(<<Timed(Join(A(<<>>), "many-to-one", K, K), <<>>)>>),
         P(<<Timed(Join(A(<<>>), "one-to-one", K, K), <<"u">>)>>),
         P(<<Join(A(<<Join(B, "many-to-one", <<"l">>, K)>>), "one-to-one", K, K)>>),
         P(<<Join(A(<<Timed(Join(B, "many-to-many", <<"j">>, K), <<>>)>>), "many-to-one", K, K),
             Join(B, "many-to-one", K, K)>>),
         P(<<[Timed(Join(A(<<Join(B, "many-to-one", <<"l">>, K)>>), "one-to-many", K, K),
                    <<>>) EXCEPT !.horizon = 1, !.memory = 2]>>),
         P(<<Join(A(<<>>), "many-to-one", Both("l"), Both("l")),
             [Join(B, "propositionalization", no_join_key, no_join_key) EXCEPT
                 !.time_stamp = rowid, !.other_time_stamp = rowid, !.horizon = 1]>>)}

Frame(name, n, cols) ==
    [name |-> name, nrows |-> n,
     columns |-> [i \in DOMAIN cols |-> [cols[i] EXCEPT !.data = SubSeq(@, 1, n)]]]

Jk(name, data) == Column(name, "join_key", "", data)
Ts(name, data) == Column(name, "time_stamp", "time stamp, comparison only", data)

MCInputs ==
    {[data_model |-> dm, names |-> <<<<"a">>, <<"b">>>>,
      frames |-> [ix \in 0..2 |->
        CASE ix = 0 -> Frame(<<"p">>, 2, <<Jk(K, pk), Jk(<<"l">>, <<1, 0>>), Ts(<<"t">>, <<1, 2>>),
                              Column(<<"y">>, "target", "", <<1, 0>>),
                              Column(<<"c">>, "categorical", "", <<3, 4>>)>>)
          [] ix = 1 -> Frame(<<"a">>, 2,
                             <<Jk(K, ak), Jk(<<"l">>, al), Jk(<<"j">>, al), Ts(<<"s">>, as),
                               Ts(<<"t">>, as), Ts(<<"u">>, <<2, -1, 1>>),
                               Column(<<"c">>, "categorical", "", <<5, 6, 7>>)>>)
          [] ix = 2 -> Frame(<<"b">>, 2, <<Jk(K, bk), Ts(<<"s">>, <<1, 1>>),
                               Column(<<"n">>, "numerical", "", <<8, 9>>),
                               Column(<<"m">>, "unused_string", "", <<1, 1>>)>>)]] :
        dm \in MCDataModels, pk \in {<<0, 0>>, <<1, -1>>},
        ak \in {<<0, 1, 0>>, <<0, 0, 1>>, <<-1, 1, 0>>}, al \in {<<0, 1, 1>>, <<1, -1, 0>>},
        as \in {<<0, 2, 1>>, <<2, -1, 0>>}, bk \in {<<0, 1>>}}

-----------------------------------------------------------------------------
(* Preprocessors *)

\* As in Preprocessors and DataModelChecking.
Null     == <<"N", "U", "L", "L">>
NaN      == -1000000
MULTIREL == "Multirel"
StagedColumn(name, role, unit, subroles, data) ==
    [name |-> name, role |-> role, unit |-> unit, subroles |-> subroles, data |-> data]

LowerOf == [P |-> "p", Q |-> "q", R |-> "r"]
UpperOf == [p |-> "P", q |-> "Q", r |-> "R"]
MCLower(w) == IF w \in DOMAIN LowerOf THEN LowerOf[w] ELSE w
MCUpper(w) == IF w \in DOMAIN UpperOf THEN UpperOf[w] ELSE w
MCWords(s) == SelectSeq(split(s, " "), LAMBDA w : w # <<>>)

Staged(name, n) == <<name, staging_table_num, ToString(n)>>
Col(name, role, subroles, data) == StagedColumn(<<name>>, role, <<>>, subroles, data)

d0 == 1577854800        \* 2020-01-01 05:00
Hours(hs) == [i \in DOMAIN hs |-> IF hs[i] = NaN THEN NaN ELSE d0 + 3600 * hs[i]]
Chars(s) == [i \in DOMAIN s |-> IF s[i] = "-" THEN Null ELSE <<s[i], "z">>]

Address == <<"m", "@", "u", ".", "d">>
Other   == <<"m", "@", "v", ".", "d">>

Population(keys, hs, cs, ns, xs, es) ==
    [name |-> Staged("p", 1),
     columns |-> <<Col("k", "join_key", {}, keys), Col("t", "time_stamp", {}, Hours(hs)),
                   Col("c", "categorical", {"substring"}, Chars(cs)),
                   Col("n", "numerical", {}, ns),
                   Col("x", "text", {}, xs), Col("e", "text", {"email"}, es)>>]

Q(keys, others, hs) ==
    [name |-> Staged("q", 2),
     columns |-> <<Col("k", "join_key", {}, keys), Col("l", "join_key", {}, others),
                   Col("t", "time_stamp", {}, Hours(hs))>>]

R(keys, cs) ==
    [name |-> Staged("r", 3),
     columns |-> <<Col("l", "join_key", {}, keys),
                   Col("d", "categorical", {}, Chars(cs))>>]

TextA  == <<<<"a", " ", "b">>, <<"b">>, <<>>, <<"c", " ", " ", "a">>, <<"a">>, <<"b">>,
            <<"b">>, <<"a">>>>
EmailA == <<Address, Address, Other, Address, Other, Other, Address, Other>>

MCRawTables ==
    [a |-> [population |-> Population(<<1, 1, 2, 2, 3, -1, 4, 1>>,
                <<0, NaN, 0, 0, NaN, NaN, 0, 0>>,
                <<"u", "u", "v", "v", "v", "u", "-", "u">>, <<3, NaN, 5, 1, 3, 3, NaN, 3>>, TextA,
                EmailA),
            peripheral |-> <<Q(<<1, 1, 2, 9, 1, 2, 4, 4>>, <<1, 1, 2, 2, 3, 3, 1, -1>>,
                               <<0, -3, 0, -3, 0, 0, 0, 9>>),
                             R(<<1, 1, 2, 3, 3, 1, 1, 2>>,
                               <<"u", "w", "w", "u", "u", "w", "w", "w">>)>>],
     b |-> [population |-> Population(<<1, 2, 5, 5, 1, 2, 2, 2>>,
                <<4, 0, 0, NaN, 4, 4, 4, 4>>,
                <<"y", "y", "u", "u", "u", "u", "y", "y">>,
                <<9, 9, NaN, 5, 5, 7, 7, 9>>,
                [i \in 1..8 |-> TextA[9 - i]], [i \in 1..8 |-> EmailA[9 - i]]),
            peripheral |-> <<Q(<<1, 2, 2, 2, 1, 1, 1, 1>>, <<1, 1, 1, 2, 2, 2, 3, 3>>,
                               <<4, 0, 4, 0, 4, 4, 9, NaN>>),
                             R(<<1, 1, 1, 1, 1, 2, 3, 9>>,
                               <<"y", "u", "u", "y", "u", "u", "u", "-">>)>>]]

Seasonal(disabled)   == [type |-> "Seasonal", op |-> disabled]
Trimmer(freq, max)   == [type |-> "CategoryTrimmer",
                         op |-> [min_freq |-> freq, max_num_categories |-> max]]
Substring(begin, n)  == [type |-> "Substring",
                         op |-> [begin |-> begin, length |-> n, unit |-> <<>>]]
Imputation(dummies)  == [type |-> "Imputation", op |-> dummies]
EMailDomain          == [type |-> "EMailDomain", op |-> <<>>]
TextFieldSplitter    == [type |-> "TextFieldSplitter", op |-> <<>>]

MCCommands ==
    {<<Seasonal({}), Trimmer(3, 1)>>,
     <<Seasonal({"hour", "minute"}), Imputation(FALSE), TextFieldSplitter>>,
     <<Seasonal({}), Substring(0, 1), Imputation(TRUE), TextFieldSplitter, Trimmer(2, 2)>>,
     <<EMailDomain>>}

MCModel ==
    LET JoinOf(p, key) == [table |-> p, join_key |-> key, other_join_key |-> key,
                           time_stamp |-> IF key = <<"k">> THEN <<"t">> ELSE <<>>,
                           other_time_stamp |-> IF key = <<"k">> THEN <<"t">> ELSE <<>>,
                           upper_time_stamp |-> <<>>, propositionalization |-> FALSE]
        r == [name |-> Staged("r", 3), joins |-> <<>>]
        q == [name |-> Staged("q", 2), joins |-> <<JoinOf(r, <<"l">>)>>]
        p == [name |-> Staged("p", 1), joins |-> <<JoinOf(q, <<"k">>)>>]
    IN  [placeholder |-> p, peripheral_names |-> <<q.name, r.name>>,
         feature_learners |-> <<[type |-> MULTIREL]>>]

-----------------------------------------------------------------------------
(* Pipelines *)

\* As in Learners.
None == <<>>

\* Every second feature of a learner and x weigh most, and to each target others.
MCWeight(learned, id) ==
    LET of_z == learned[5][2] = "z"
    IN  CASE id[1] = "feature_" -> IF id[3] = "2" THEN 30 ELSE IF of_z THEN 0 ELSE 10
          [] id[1] = "x"        -> 20
          [] OTHER              -> IF of_z THEN 2 ELSE 1

MCFeatureColumn(name, ix) ==
    [marker |-> "[PERIPHERAL]", table |-> <<"q">>,
     name |-> IF ix = 1 THEN <<"r">> ELSE <<"s">>]

FrameColumn(name, role, content) ==
    [name |-> <<name>>, role |-> role, unit |-> "", subroles |-> {}, null |-> FALSE,
     whole |-> FALSE, n |-> 2, content |-> content]

StoredFrame(name, content, targets) ==
    [name |-> <<name>>, last_change |-> 0, build_history |-> None, content |-> content,
     columns |-> <<FrameColumn("k", "join_key", content),
                   FrameColumn("t", "time_stamp", content),
                   FrameColumn("c", "categorical", content),
                   FrameColumn("x", "numerical", content)>> \o targets]

FastProp(n) ==
    [name |-> "FastProp", num_features |-> n, supports_multiple_targets |-> TRUE,
     classification |-> FALSE, subfeatures |-> 1, needs_targets |-> <<FALSE>>]

Predictor(name) == [name |-> name, classification |-> FALSE]
Cmd(name, is_mapping, adds) == [name |-> name, mapping |-> is_mapping, adds |-> adds]

Obj(preprocessors, selectors, share) ==
    [data_model |-> <<"p">>, peripheral |-> <<<<"q">>>>, placeholder |-> <<"p">>,
     preprocessors |-> preprocessors, feature_learners |-> <<FastProp(2), FastProp(3)>>,
     feature_selectors |-> selectors, predictors |-> <<Predictor("linear")>>,
     share |-> share, include_categorical |-> TRUE]

MCObjs ==
    LET mapped  == Cmd("Mapping", TRUE, <<<<"m">>>>)
        seasonal == Cmd("Seasonal", FALSE, <<<<"h">>>>)
    IN  [a |-> Obj(<<mapped, seasonal>>, <<Predictor("xgb")>>, 80),
         b |-> Obj(IF Selecting THEN <<mapped, seasonal>> ELSE <<mapped>>,
                   <<Predictor("xgb")>>, 50)]

PopulationFrame(name, content) ==
    [StoredFrame(name, content, <<FrameColumn("y", "target", <<content, "y">>),
                                  FrameColumn("z", "target", <<content, "z">>)>>)
        EXCEPT !.columns[4].null = (content = <<"p2">>)]

MCFrameVersions ==
    (<<"p">> :> {PopulationFrame("p", <<"p1">>), PopulationFrame("p", <<"p2">>)})
      @@ (<<"q">> :> {StoredFrame("q", <<"q1">>, <<>>), StoredFrame("q", <<"q2">>, <<>>)})
      @@ (<<"v">> :> {PopulationFrame("v", <<"v1">>)})

MCCalls == {[population |-> p, peripheral |-> <<<<"q">>>>, validation |-> v] :
              p \in {<<"p">>}, v \in {<<>>, <<<<"v">>>>}}

MCOutputs == {<<"o">>}

=============================================================================
