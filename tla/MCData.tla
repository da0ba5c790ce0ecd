-------------------------------- MODULE MCData --------------------------------
(***************************************************************************)
(* The components that keep, index, read and write data, side by side: a   *)
(* behaviour is one of a single component (part), chosen in the beginning. *)
(* Components that are never in the same behaviour share the variables and *)
(* constants of the same name.  The memory-mapped encoding, the data       *)
(* frames and the databases are those that this module extends; they rest  *)
(* in their initial states while another component is chosen.              *)
(***************************************************************************)
EXTENDS MemoryMappedEncoding, DataFrame, Databases, Import

CONSTANTS
  Active,     \* the components a behaviour may be one of
  Order, KeyCapacity, ValueCapacity, ChildCapacity, Keys, IndexSteps, RowCapacity,
    MaxRepeated,
  Exprs, ViewedColumns, Horizon, MaxReads,
  NotANumber, Cells, Pairs, MaxRows

VARIABLES
  part,                                                              \* the component
  root, rows, inserted,                                              \* the index
  expr, view, answer, reads,                                         \* views
  col, pairs                                                         \* aggregations

index        == <<heap, root, rows, inserted>>
encoding     == vars
frames       == <<data_frames, disk, time, outcome, known>>
views        == <<expr, view, answer, reads>>
aggregations == <<col, pairs>>
imports      == importVars
databases    == databaseVars

allVars == <<part, index, encoding, frames, views, aggregations, imports, databases>>

Index     == INSTANCE MemmapIndex WITH MaxSteps <- IndexSteps, steps <- inserted
View      == INSTANCE ColumnView
Aggregate == INSTANCE AggOpParser WITH NAN <- NotANumber, Values <- Cells

-----------------------------------------------------------------------------
(* Constants *)

AllParts ==
  {"index", "encoding", "frames", "views", "aggregations", "imports", "databases"}

Numbers        == INSTANCE Aggregations WITH NAN <- NotANumber

\* Four strings of different lengths, three of which have the same hash.
MCTexts == {<<1>>, <<1, 1>>, <<>>, <<2>>}
MCHash == [s \in MCTexts |-> IF s = <<2>> THEN 1 ELSE 0]

\* For DataFrame, tables with one or two join keys, with nulls and keys that occur
\* twice; a column that replaces another one in another role and one of the wrong
\* length; views that add, drop and select.
Col(role, name, values) ==
  [role |-> role, name |-> name, unit |-> "", sub |-> {}, values |-> values]

Subrole(c) == [c EXCEPT !.sub = {"only email"}]

OneKey  == <<Subrole(Col("join_key", "k", <<1, 2>>)), Col("target", "y", <<5, 6>>)>>
TwoKeys == <<Col("join_key", "k", <<1, -1>>), Col("join_key", "j", <<2, 1>>)>>
OneRow  == <<Col("join_key", "k", <<1>>), Col("target", "y", <<7>>)>>

FrameTables == {OneKey, TwoKeys, OneRow}
FrameAdditions == {Col("join_key", "y", <<2, 2>>), Col("time_stamp", "k", <<-1, 3>>)}

AllRows == [kind |-> "none"]
Shown(added, dropped, selection) ==
  [added |-> added, dropped |-> dropped, subselection |-> selection]
Whole == Shown(<<>>, <<>>, AllRows)

FrameViews ==
  {Whole,
   Shown(<<Col("join_key", "y", <<2>>)>>, <<>>, [kind |-> "where", keep |-> <<FALSE, TRUE>>]),
   Shown(<<>>, <<"k">>, [kind |-> "rows", rows |-> <<1, 0, 1, 7>>])}

\* For ColumnView, columns of three and two rows, one with a null (-1); selections
\* of selections, rows of selections in any order, views without end and ranges, and
\* combinations of them.
ViewColumns == [x |-> <<2, -1, 3>>, y |-> <<2, 0>>, w |-> <<1, 2, 0>>]

X == <<"column", "x">>
Y == <<"column", "y">>
Const(n) == <<"const", n>>
Where(d, c) == <<"where", d, c>>
At(d, i) == <<"at", d, i>>
Plus(a, b) == <<"plus", a, b>>
Greater(a, b) == <<"greater", a, b>>
NotNull(a) == <<"not", <<"is_null", a>>>>

NotNullX == Where(X, NotNull(X))
OddRows  == Where(<<"column", "w">>, Greater(<<"rowid">>, Const(0)))

ViewExprs ==
  {X, <<"rowid">>, <<"arange", 3, 0, -2>>, <<"column", "z">>, Plus(X, Y), Plus(X, Const(1)),
   NotNullX, Where(NotNullX, Greater(NotNullX, Const(2))), At(NotNullX, <<"arange", 1, -1, -1>>),
   At(At(X, <<"arange", 2, -1, -1>>), OddRows), Where(X, <<"true">>), At(X, <<"rowid">>),
   Where(OddRows, <<"and", <<"true">>, Greater(<<"rowid">>, Const(0))>>),
   Plus(NotNullX, Y), Plus(At(NotNullX, Y), Const(1)), <<"abs", At(OddRows, <<"arange", 1, -1, -1>>)>>,
   <<"update", NotNullX, Const(7), Greater(Y, Const(1))>>, <<"concat", X, X>>,
   <<"as_num", Where(Greater(X, Const(2)), NotNull(X))>>, <<"as_string", Y>>, At(X, <<"column", "x">>)}

\* Columns and matches of up to MaxRows rows.
MCValues == {Numbers!Q(-1, 1), Numbers!Zero, Numbers!One, Numbers!Q(3, 1), NotANumber}
MCPairs  == {<<Numbers!Int2Float(t), Numbers!Int2Float(v)>> : t \in 0..2, v \in 0..1}

\* For Import, strings with every character that means something to a CSV file,
\* and numbers of every format.
Named(name, unit, data) == [name |-> <<Word(name)>>, unit |-> unit, data |-> data]

FrameOf(strs, nums, unit) ==
  [r \in {"categorical", "join_key", "numerical", "target", "text", "time_stamp",
          "unused_float", "unused_string"} |->
     CASE r = "join_key"      -> <<Named("k", "", strs)>>
       [] r = "numerical"     -> <<Named("a", unit, nums)>>
       [] r = "time_stamp"    -> <<Named("t", "", nums)>>
       [] r = "unused_float"  -> <<Named("f", "", nums)>>
       [] r = "unused_string" -> <<Named("s", "", <<strs[2], strs[1]>>)>>
       [] OTHER               -> <<>>]

AnX == Word("x")
ImportStrings ==
  {NULL, NULLTEXT, <<>>, <<AnX>>, <<AnX, SEP>>, <<QUOTE, AnX>>, <<BLANK, AnX>>,
   <<AnX, LF>>, <<AnX, BYTES>>, <<Number(16)>>}

ImportFrames ==
  {FrameOf(<<a, b>>, <<0, 8>>, "") : a \in ImportStrings, b \in {NULL, <<AnX, SEP>>}}
  \cup {FrameOf(<<NULL, <<AnX>>>>, <<x, y>>, unit) :
          x \in {NAN, 32, 9}, y \in {12, 16, 20, 23}, unit \in {"", "time stamp"}}

\* Text keeps every other number, or every fourth; microseconds are cut, once to
\* the one before.  Nanoseconds of 12 are one short, and times of 16 come back one less.
PrintedDigits(n, v) == LET grid == IF n = 16 THEN 2 ELSE 4 IN ((v + grid \div 2) \div grid) * grid
PrintedDecimals(v) == ((v + 2) \div 4) * 4
CutMicros(v) == IF v = 20 THEN 16 ELSE (v \div 4) * 4
CutNanos(v) == IF v = 12 THEN 1199 ELSE v * 100
MultipliedTimes(type, n) ==
  IF n = 16 * PerTick[type] THEN 15 ELSE (n + PerTick[type] \div 2) \div PerTick[type]

ImportFormats == {"date", "second", "fraction"}

\* For Databases, two threads on two SQLite databases, one of MySQL and one of
\* Postgres.
DatabaseNames == {"a", "b", "m", "p", "new"}

DatabaseDialect ==
  [db \in DatabaseNames |-> CASE db = "m" -> "mysql" [] db = "p" -> "postgres" [] OTHER -> "sqlite3"]

DatabaseConnected == [c \in {"a", "b", "m", "p"} |-> c]

FileRow(i) == Row("file", i)

DatabaseTables ==
  [db \in DatabaseNames |-> CASE db = "b"   -> <<FileRow(1), FileRow(2)>>
                              [] db = "new" -> NoTable
                              [] OTHER      -> <<FileRow(1)>>]

ReadLines(conn, lines) == [cmd |-> "read_csv", conn |-> conn, lines |-> lines, header |-> TRUE]
On(cmd, conn) == [cmd |-> cmd, conn |-> conn, valid_page |-> TRUE]
CopyOf(source, conn) == [cmd |-> "copy_table", source |-> source, conn |-> conn]

DatabaseRequests ==
  [t \in Threads |->
     IF t = "t1"
     THEN {ReadLines("a", <<"row", "empty", "row">>), ReadLines("a", <<"row", "bad">>),
           ReadLines("m", <<"row", "row", "row">>), ReadLines("m", <<"row", "row", "bad">>),
           ReadLines("p", <<"row", "bad">>), ReadLines("p", <<"row", "row">>),
           [ReadLines("a", <<"row">>) EXCEPT !.header = FALSE], CopyOf("b", "a")}
     ELSE {ReadLines("a", <<"row", "bad">>), CopyOf("a", "b"), CopyOf("a", "m"),
           CopyOf("b", "b"),
           [cmd |-> "execute", conn |-> "a", queries |-> <<"INSERT", "INSERT">>],
           [cmd |-> "new_db", conn |-> "a", db |-> "new"],
           [On("get_content", "a") EXCEPT !.valid_page = FALSE]}
          \cup {On(cmd, "a") : cmd \in {"drop_table", "get", "get_colnames",
                 "get_content", "get_nrows", "list_tables", "sniff_query", "sniff_table",
                 "refresh", "describe_connection", "list_connections", "sniff_csv"}}
          \cup {On("get", "p"), On("get", "m"), On("sniff_query", "m")}]

-----------------------------------------------------------------------------
\* The index and the data frames share the heap.
NoIndex        == root = 0 /\ rows = 0 /\ inserted = 0
NoEncoding     == Init
NoFrames       == /\ data_frames = [n \in Names |-> NoFrame] /\ disk = data_frames
                  /\ time = 0 /\ outcome = <<"none", "none">> /\ known = {}
NoViews        == expr = 0 /\ view = 0 /\ answer = 0 /\ reads = 0
NoAggregations == col = 0 /\ pairs = 0
NoImports      == /\ df = 0 /\ files = NoFiles /\ table = Unstored /\ arrow = <<>>
                  /\ copy = Nothing /\ sniffed = Unsniffed
NoDatabases    == DatabaseInit

PartInit ==
  /\ part \in Active
  /\ \/ /\ part = "index" /\ Index!Init
        /\ NoEncoding /\ NoFrames /\ NoViews /\ NoAggregations /\ NoImports /\ NoDatabases
     \/ /\ part = "encoding" /\ Init /\ heap = NoHeap
        /\ NoIndex /\ NoFrames /\ NoViews /\ NoAggregations /\ NoImports /\ NoDatabases
     \/ /\ part = "frames" /\ FrameInit
        /\ NoIndex /\ NoEncoding /\ NoViews /\ NoAggregations /\ NoImports /\ NoDatabases
     \/ /\ part = "views" /\ View!Init /\ heap = NoHeap
        /\ NoIndex /\ NoEncoding /\ NoFrames /\ NoAggregations /\ NoImports /\ NoDatabases
     \/ /\ part = "aggregations" /\ Aggregate!Init /\ heap = NoHeap
        /\ NoIndex /\ NoEncoding /\ NoFrames /\ NoViews /\ NoImports /\ NoDatabases
     \/ /\ part = "imports" /\ ImportInit /\ heap = NoHeap
        /\ NoIndex /\ NoEncoding /\ NoFrames /\ NoViews /\ NoAggregations /\ NoDatabases
     \/ /\ part = "databases" /\ DatabaseInit /\ heap = NoHeap
        /\ NoIndex /\ NoEncoding /\ NoFrames /\ NoViews /\ NoAggregations /\ NoImports

\* Bound: the first keys are 3 and 5.  With the seventh key the tree has three
\* levels, in whatever order the others come.
IndexStep ==
  /\ part = "index" /\ Index!Next
  /\ inserted < 2 => rows'[3 + 2 * inserted] # <<>>
  /\ UNCHANGED <<part, encoding, frames, views, aggregations, imports, databases>>

EncodingStep ==
  /\ part = "encoding" /\ Next
  /\ UNCHANGED <<part, index, frames, views, aggregations, imports, databases>>

FrameStep ==
  /\ part = "frames" /\ FrameNext
  /\ UNCHANGED <<part, root, rows, inserted, encoding, views, aggregations, imports, databases>>

ViewStep ==
  /\ part = "views" /\ View!Next
  /\ UNCHANGED <<part, index, encoding, frames, aggregations, imports, databases>>

\* The column and the matches grow one after the other.
AggregationStep ==
  /\ part = "aggregations" /\ Aggregate!Next
  /\ col' = <<>> \/ pairs' = <<>>
  /\ UNCHANGED <<part, index, encoding, frames, views, imports, databases>>

ImportStep ==
  /\ part = "imports" /\ ImportNext
  /\ UNCHANGED <<part, index, encoding, frames, views, aggregations, databases>>

OfDatabases(step) ==
  /\ part = "databases" /\ step
  /\ UNCHANGED <<part, index, encoding, frames, views, aggregations, imports>>

PartNext ==
  \/ IndexStep \/ EncodingStep \/ FrameStep \/ ViewStep \/ AggregationStep \/ ImportStep
  \/ OfDatabases(DatabaseNext)

PartSpec ==
  PartInit /\ [][PartNext]_allVars /\ \A t \in Threads : WF_allVars(OfDatabases(Act(t)))

-----------------------------------------------------------------------------
(* Properties *)

PartTypeOK ==
  CASE part = "index"        -> Index!TypeOK
    [] part = "encoding"     -> TypeOK
    [] part = "frames"       -> FrameTypeOK
    [] part = "views"        -> View!TypeOK
    [] part = "aggregations" -> Aggregate!TypeOK
    [] part = "imports"      -> ImportTypeOK
    [] part = "databases"    -> DatabaseTypeOK

\* "Returns a pointer to the beginning and end of the rownums"
\* (containers/Index.hpp:38-39): the memory-mapped index answers with the rows
\* inserted for a key, whatever nodes were split and whatever vectors have moved,
\* and each block of the pool belongs to one vector of the index.
IndexFindsItsRows == part = "index" => Index!FindsItsRows /\ Index!BlocksHaveOneOwner

\* What a view returns is what its expression means, in whatever order its rows
\* were read before; a call is refused for the wrong number of rows only
\* (ColumnView).
ReadsFollowMeaning ==
  part = "views" => View!ReadsFollowMeaning /\ View!OnlyWrongLengthsAreRefused

\* Aggregations agree with their definitions: moments, quantiles and counts, the
\* times since extremes, and the trend, on columns and matches with nulls and ties
\* (AggOpParser, helpers::Aggregations).
AggregationsAreRight ==
  part = "aggregations" =>
    /\ Aggregate!MomentsAreRight /\ Aggregate!OrderStatisticsAreRight
    /\ Aggregate!TimesSinceExtremesAreRight /\ Aggregate!TrendsAreRight
=============================================================================
