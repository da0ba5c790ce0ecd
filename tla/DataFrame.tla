------------------------------ MODULE DataFrame ------------------------------
(***************************************************************************)
(* containers::DataFrame with its columns and the indices over its join    *)
(* keys (containers/DataFrame.hpp, DataFrame.cpp, Column.hpp, Index.hpp),  *)
(* and the operations requests perform on the data frames of a project:    *)
(* create, add a column, append, freeze, build from a view                 *)
(* (engine/handlers/ViewParser.cpp), save and load.                        *)
(*                                                                         *)
(* Columns hold their data, and indices their map, by shared pointers: a   *)
(* copy of a data frame shares both with the original, while where an      *)
(* index got to (begin_) is copied.  The model therefore keeps a heap.     *)
(* An operation works on a data frame d that carries the heap and the      *)
(* exception that ended it, if any.  Values are integers; negative ones    *)
(* are null.  The time is a counter: every change comes later than the     *)
(* ones before (the code takes microseconds).                              *)
(***************************************************************************)
EXTENDS Integers, SequencesExt, FiniteSetsExt

CONSTANTS Names,      \* names of data frames
          Tables,     \* what clients upload: sequences of columns
          Additions,  \* columns clients add
          Views,      \* views on one data frame
          MaxSteps,   \* bound: requests in one behaviour
          NoFrame

VARIABLES data_frames,  \* the data frames of the project, by name
          heap,         \* what columns and indices point to
          disk,         \* the saved data frames, by name
          time,         \* the number of requests so far
          outcome,      \* the latest request and the exception that ended it, or none
          known          \* for every fingerprint there ever was: the content it had

frameVars == <<data_frames, heap, disk, time, outcome, known>>

-----------------------------------------------------------------------------
(* Roles, in the orders the code goes through them *)

Roles == <<"categorical", "join_key", "numerical", "target", "text",
           "time_stamp", "unused_float", "unused_string">>

CountingOrder == <<"unused_float", "unused_string", "join_key", "time_stamp",
                   "categorical", "numerical", "target", "text">>

RoleSet == Range(Roles)

IntRoles == {"categorical", "join_key"}

is_null(value) == value < 0

-----------------------------------------------------------------------------
(* What clients send and what a data frame consists of *)

\* The unit a time stamp without one gets.
ComparisonOnly == "time stamp, comparison only"

Units == STRING \cup {ComparisonOnly}

Uploads == [role : RoleSet, name : STRING, unit : Units, sub : SUBSET STRING,
            values : Seq(Int)]

Selections == [kind : {"none"}] \cup [kind : {"where"}, keep : Seq(BOOLEAN)]
                \cup [kind : {"rows"}, rows : Seq(Int)]

ColumnRecords == [name : STRING, unit : Units, sub : SUBSET STRING, data : Nat]

\* An index: where it got to and its map.  Whether it was made with a map of its own
\* (own) is not a part of the code; IndexFindsRows tells by it.
IndexRecords == [begin_ : Nat, map : Nat, own : BOOLEAN]

FrameRecords == [name_ : Names, cols : [RoleSet -> Seq(ColumnRecords)],
                 indices_ : Seq(IndexRecords), frozen_ : BOOLEAN, last_change_ : Nat]

SavedRecords == [cols : [RoleSet -> Seq([name : STRING, unit : Units, values : Seq(Int)])],
                 frozen_ : BOOLEAN, last_change_ : Nat]

ASSUME DataFrameAssumption ==
  /\ \A table \in Tables : table \in Seq(Uploads)
  /\ \A c \in Additions : c \in Uploads
  /\ \A v \in Views : /\ v.added \in Seq({c \in Uploads : c.values # <<>>})
                      /\ v.dropped \in Seq(STRING)
                      /\ v.subselection \in Selections
  /\ MaxSteps \in Nat
  /\ NoFrame \notin FrameRecords /\ NoFrame \notin SavedRecords

-----------------------------------------------------------------------------
(* The heap: functions from the ids in use *)

NoHeap == [data |-> << >>, maps |-> << >>]

Fresh(f) == Min((1..(Cardinality(DOMAIN f) + 1)) \ DOMAIN f)

With(f, id, value) == [x \in DOMAIN f \cup {id} |-> IF x = id THEN value ELSE f[x]]

\* As many ids as there are places, none of them in use.
FreshIds(f, places) ==
  CHOOSE id \in [places -> 1..(Cardinality(DOMAIN f) + Cardinality(places))] :
    IsInjective(id) /\ Range(id) \cap DOMAIN f = {}

Places(cols) == UNION {{<<r, i>> : i \in 1..Len(cols[r])} : r \in RoleSet}

AllColumns(df) == UNION {Range(df.cols[r]) : r \in RoleSet}

\* What no data frame points to any more is gone.
Reachable(h, dfs) ==
  LET live == {n \in Names : dfs[n] # NoFrame}
  IN [data |-> [i \in UNION {{c.data : c \in AllColumns(dfs[n])} : n \in live}
                  |-> h.data[i]],
      maps |-> [i \in UNION {{x.map : x \in Range(dfs[n].indices_)} : n \in live}
                  |-> h.maps[i]]]

-----------------------------------------------------------------------------
(* containers::DataFrame *)

NewFrame(name, h) ==
  [name_ |-> name, cols |-> [r \in RoleSet |-> <<>>], indices_ |-> <<>>,
   frozen_ |-> FALSE, last_change_ |-> time + 1, h |-> h, failure |-> "none"]

Fail(d, why) == [d EXCEPT !.failure = why]

\* Continues with F unless an exception was thrown.
Then(d, F(_)) == IF d.failure # "none" THEN d ELSE F(d)

check_if_frozen(d) == IF d.frozen_ THEN Fail(d, "frozen") ELSE d

update_last_change(d) == [d EXCEPT !.last_change_ = time + 1]

ValuesOf(d, col) == d.h.data[col.data]

ncols(d) == Cardinality(Places(d.cols))

nrows(d) ==
  IF ncols(d) = 0 THEN 0
  ELSE LET i == SelectInSeq(CountingOrder, LAMBDA r : d.cols[r] # <<>>)
       IN Len(ValuesOf(d, d.cols[CountingOrder[i]][1]))

\* The position of a column among those of a role, or 0.
PosOf(d, role, name) == SelectInSeq(d.cols[role], LAMBDA c : c.name = name)

has(d, role, name) == PosOf(d, role, name) # 0

rm_col(d, role, name) ==
  [d EXCEPT !.cols[role] = RemoveAt(@, PosOf(d, role, name)),
            !.indices_ = IF role = "join_key"
                         THEN RemoveAt(@, PosOf(d, role, name)) ELSE @]

Removed(d, name) ==
  LET i == SelectInSeq(Roles, LAMBDA r : has(d, r, name))
  IN IF i = 0 THEN d ELSE update_last_change(rm_col(d, Roles[i], name))

remove_column(d, name) == Then(check_if_frozen(d), LAMBDA x : Removed(x, name))

add_column(d, col, role) ==
  IF Len(ValuesOf(d, col)) # nrows(d) /\ ncols(d) # 0 THEN Fail(d, "length")
  ELSE Then(remove_column(d, col.name),
            LAMBDA x : [x EXCEPT !.cols[role] = Append(@, col)])

-----------------------------------------------------------------------------
(* containers::Index *)

insert_row(map, key, row) ==
  With(map, key, IF key \in DOMAIN map THEN Append(map[key], row) ELSE <<row>>)

\* The values behind begin are inserted, one after the other.
Indexed(map, values, begin) ==
  LET indexed[n \in 0..Len(values)] ==
        IF n = 0 THEN map
        ELSE IF n <= begin \/ is_null(values[n]) THEN indexed[n - 1]
        ELSE insert_row(indexed[n - 1], values[n], n - 1)
  IN indexed[Len(values)]

\* Mutant: where the index got to is not recorded.
calculate_again(d, i) ==
  LET idx == d.indices_[i]
  IN [d EXCEPT !.h.maps = With(@, idx.map,
        Indexed(@[idx.map], ValuesOf(d, d.cols["join_key"][i]), idx.begin_))]

calculate(d, i) ==
  LET idx    == d.indices_[i]
      values == ValuesOf(d, d.cols["join_key"][i])
      begin  == IF Len(values) < idx.begin_ THEN 0 ELSE idx.begin_
      map    == IF Len(values) < idx.begin_ THEN << >> ELSE d.h.maps[idx.map]
  IN [d EXCEPT !.h.maps = With(@, idx.map, Indexed(map, values, begin)),
               !.indices_[i].begin_ = Len(values)]

find(h, idx, key) ==
  IF key \in DOMAIN h.maps[idx.map] THEN h.maps[idx.map][key] ELSE <<>>

\* An index with a new map.
NewIndex(h, own) == [begin_ |-> 0, map |-> Fresh(h.maps), own |-> own]

WithMap(h) == [h EXCEPT !.maps = With(@, Fresh(@), << >>)]

\* A vector of copies of one index: they share its map.
SizedIndices(d) ==
  LET n == Len(d.cols["join_key"])
  IN IF Len(d.indices_) = n THEN d
     ELSE [d EXCEPT !.indices_ = [i \in 1..n |-> NewIndex(d.h, n = 1)], !.h = WithMap(@)]

create_indices(d) ==
  LET sized == SizedIndices(d)
      created[n \in 0..Len(sized.indices_)] ==
        IF n = 0 THEN sized ELSE calculate(created[n - 1], n)
  IN created[Len(sized.indices_)]

-----------------------------------------------------------------------------
(* Adding columns *)

AddJoinKey(d, col) ==
  Then(add_column(d, col, "join_key"),
       LAMBDA x : create_indices([x EXCEPT !.indices_ = Append(@, NewIndex(x.h, TRUE)),
                                           !.h = WithMap(@)]))

add_int_column(d, col, role) ==
  Then(IF role = "join_key" THEN AddJoinKey(d, col) ELSE add_column(d, col, role),
       update_last_change)

check_null(d, col) == \E v \in Range(ValuesOf(d, col)) : is_null(v)

\* A target has no nulls, and a time stamp always has a unit.
add_float_column(d, col, role) ==
  IF role = "target" /\ check_null(d, col) THEN Fail(d, "null target")
  ELSE Then(add_column(d, IF role = "time_stamp" /\ col.unit = ""
                          THEN [col EXCEPT !.unit = ComparisonOnly]
                          ELSE col, role),
            update_last_change)

add_string_column(d, col, role) ==
  Then(add_column(d, col, role), update_last_change)

\* The column is [role, name, unit, sub, values].
add(d, c) ==
  LET id  == Fresh(d.h.data)
      x   == [d EXCEPT !.h.data = With(@, id, c.values)]
      col == [name |-> c.name, unit |-> c.unit, sub |-> c.sub, data |-> id]
  IN CASE c.role \in IntRoles -> Then(check_if_frozen(x), LAMBDA y : add_int_column(y, col, c.role))
       [] c.role \in {"text", "unused_string"} ->
            Then(check_if_frozen(x), LAMBDA y : add_string_column(y, col, c.role))
       [] OTHER -> Then(check_if_frozen(x), LAMBDA y : add_float_column(y, col, c.role))

AddAll(d, cols) ==
  LET added[n \in 0..Len(cols)] ==
        IF n = 0 THEN d ELSE Then(added[n - 1], LAMBDA x : add(x, cols[n]))
  IN added[Len(cols)]

\* The columns with their values, role by role.
ColumnsOf(d) ==
  LET Of(role) == [i \in 1..Len(d.cols[role]) |->
        LET c == d.cols[role][i]
        IN [role |-> role, name |-> c.name, unit |-> c.unit, sub |-> c.sub,
            values |-> ValuesOf(d, c)]]
  IN Of("categorical") \o Of("join_key") \o Of("numerical") \o Of("target") \o Of("text")
       \o Of("time_stamp") \o Of("unused_float") \o Of("unused_string")

check_plausibility(d) ==
  IF \A c \in AllColumns(d) : Len(ValuesOf(d, c)) = nrows(d) THEN d
  ELSE Fail(d, "number of rows")

\* Mutant: the clone shares the columns of the original.
clone_sharing(d, name) == [d EXCEPT !.name_ = name, !.last_change_ = time + 1,
                                    !.frozen_ = FALSE]

\* Column::clone keeps the name and the unit of a column.
CloneOf(c) == [c EXCEPT !.sub = {}]

clone(d, name) ==
  LET cols == ColumnsOf(d)
      x == AddAll(NewFrame(name, d.h), [i \in 1..Len(cols) |-> CloneOf(cols[i])])
  IN Then(Then(x, create_indices), check_plausibility)

-----------------------------------------------------------------------------
(* Selecting rows *)

\* The positions at which a condition is true.
TruePositions(condition) ==
  LET positions[n \in 0..Len(condition)] ==
        IF n = 0 THEN <<>>
        ELSE IF condition[n] THEN Append(positions[n - 1], n) ELSE positions[n - 1]
  IN positions[Len(condition)]

Selected(s, condition) ==
  LET at == TruePositions(condition) IN [i \in 1..Len(at) |-> s[at[i]]]

KeptColumn(c, condition) == [c EXCEPT !.values = Selected(@, condition)]

\* One truth value per row.
where(d, condition) ==
  IF ncols(d) # 0 /\ Len(condition) # nrows(d) THEN Fail(d, "size of keys")
  ELSE LET cols == ColumnsOf(d)
       IN Then(AddAll(NewFrame(d.name_, d.h),
                      [i \in 1..Len(cols) |-> KeptColumn(cols[i], condition)]),
               create_indices)

\* A key behind the last row selects null.
SortedColumn(c, key) ==
  [c EXCEPT !.values = [i \in 1..Len(key) |-> IF key[i] < Len(@) THEN @[key[i] + 1] ELSE -1]]

sort_by_key(d, key) ==
  LET cols == ColumnsOf(d)
  IN Then(AddAll(NewFrame(d.name_, d.h), [i \in 1..Len(cols) |-> SortedColumn(cols[i], key)]),
          create_indices)

\* ViewParser: a numerical selection may not be negative, and what lies behind
\* the last row is left out.
subselection(d, sub) ==
  CASE sub.kind = "none" -> d
    [] sub.kind = "where" ->
         where(d, [i \in 1..nrows(d) |-> sub.keep[((i - 1) % Len(sub.keep)) + 1]])
    [] sub.kind = "rows" ->
         IF \E k \in Range(sub.rows) : k < 0 THEN Fail(d, "negative index")
         ELSE sort_by_key(d, Selected(sub.rows,
                [i \in 1..Len(sub.rows) |-> sub.rows[i] < nrows(d)]))

\* An added column is computed for as many rows as the frame has.
ViewColumn(d, c) == [c EXCEPT !.values = [i \in 1..nrows(d) |-> @[1]]]

add_view_column(d, v) ==
  IF v.added = <<>> THEN d ELSE add(d, ViewColumn(d, v.added[1]))

drop_columns(d, v) ==
  LET dropped[n \in 0..Len(v.dropped)] ==
        IF n = 0 THEN d ELSE Then(dropped[n - 1], LAMBDA x : remove_column(x, v.dropped[n]))
  IN dropped[Len(v.dropped)]

\* ViewParser::parse on a view of a data frame: it begins with a copy.
parse(d, v) ==
  Then(Then(add_view_column(d, v), LAMBDA x : drop_columns(x, v)),
       LAMBDA x : subselection(x, v.subselection))

-----------------------------------------------------------------------------
(* append *)

\* The column of this name and role in the other data frame.
OtherValues(other, role, name) == ValuesOf(other, other.cols[role][PosOf(other, role, name)])

\* Every column grows in place.
AppendColumns(d, other) ==
  LET At(p) == d.cols[p[1]][p[2]]
      Place(id) == CHOOSE p \in Places(d.cols) : At(p).data = id
  IN [d EXCEPT !.h.data = [id \in DOMAIN @ |->
       IF id \in {At(p).data : p \in Places(d.cols)}
       THEN @[id] \o OtherValues(other, Place(id)[1], At(Place(id)).name)
       ELSE @[id]]]

Appendable(d, other) ==
  \A r \in RoleSet : /\ Len(d.cols[r]) = Len(other.cols[r])
                     /\ \A c \in Range(d.cols[r]) : has(other, r, c.name)

append_frame(d, other) ==
  IF d.frozen_ THEN Fail(d, "frozen")
  ELSE IF ~Appendable(d, other) THEN Fail(d, "can not append")
  ELSE update_last_change(check_plausibility(create_indices(AppendColumns(d, other))))

-----------------------------------------------------------------------------
(* save and load *)

\* A directory with the files of each role: the values, the name and the unit.
Saved(d) ==
  [cols |-> [r \in RoleSet |-> [i \in 1..Len(d.cols[r]) |->
     LET c == d.cols[r][i]
     IN [name |-> c.name, unit |-> c.unit, values |-> ValuesOf(d, c)]]],
   frozen_ |-> d.frozen_, last_change_ |-> d.last_change_]

LoadedColumn(c, id) == [name |-> c.name, unit |-> c.unit, sub |-> {}, data |-> id]

\* The columns go into the vectors of their roles, without indices.
load_columns(d, cols) ==
  LET id == FreshIds(d.h.data, Places(cols))
      Place(i) == CHOOSE p \in Places(cols) : id[p] = i
      File(p) == cols[p[1]][p[2]]
  IN [d EXCEPT
       !.cols = [r \in RoleSet |-> [i \in 1..Len(cols[r]) |->
                                     LoadedColumn(cols[r][i], id[<<r, i>>])]],
       !.h.data = [i \in DOMAIN @ \cup Range(id) |->
                    IF i \in DOMAIN @ THEN @[i] ELSE File(Place(i)).values]]

load(name, h, saved) ==
  LET d == load_columns(NewFrame(name, h), saved.cols)
  IN Then(check_plausibility([d EXCEPT !.frozen_ = saved.frozen_,
                                       !.last_change_ = saved.last_change_]),
          create_indices)

-----------------------------------------------------------------------------
(* What clients see *)

fingerprint(d) == <<d.name_, d.last_change_>>

get_headers(d) ==
  LET Of(role) == [i \in 1..Len(d.cols[role]) |-> d.cols[role][i].name]
  IN Of("time_stamp") \o Of("join_key") \o Of("target") \o Of("categorical")
       \o Of("numerical") \o Of("text") \o Of("unused_float") \o Of("unused_string")

cells(d) ==
  LET Of(role) == [i \in 1..Len(d.cols[role]) |-> ValuesOf(d, d.cols[role][i])]
  IN Of("time_stamp") \o Of("join_key") \o Of("target") \o Of("categorical")
       \o Of("numerical") \o Of("text") \o Of("unused_float") \o Of("unused_string")

-----------------------------------------------------------------------------
(* Requests *)

\* A data frame with the heap.
OnHeap(f, h) ==
  [name_ |-> f.name_, cols |-> f.cols, indices_ |-> f.indices_, frozen_ |-> f.frozen_,
   last_change_ |-> f.last_change_, h |-> h, failure |-> "none"]

Get(name) == OnHeap(data_frames[name], heap)

WithoutHeap(d) ==
  [name_ |-> d.name_, cols |-> d.cols, indices_ |-> d.indices_, frozen_ |-> d.frozen_,
   last_change_ |-> d.last_change_]

IsFrame(name) == data_frames[name] # NoFrame

\* The columns of every role with their names and values.
Content(d) ==
  [r \in RoleSet |-> [i \in 1..Len(d.cols[r]) |->
     [name |-> d.cols[r][i].name, values |-> ValuesOf(d, d.cols[r][i])]]]

SeenAs(d) == <<fingerprint(d), Content(d)>>

\* The request ends with d under its name, or with an exception; what columns
\* point to may have changed nevertheless.
Answer(request, name, d) ==
  /\ time < MaxSteps
  /\ time' = time + 1
  /\ outcome' = <<request, d.failure>>
  /\ data_frames' = IF d.failure # "none" THEN data_frames
                    ELSE [data_frames EXCEPT ![name] = WithoutHeap(d)]
  /\ heap' = Reachable(d.h, data_frames')
  /\ known' = IF d.failure # "none" THEN known ELSE known \cup {SeenAs(d)}

\* from_json, from_csv and the like: a new data frame of the table.
Create(name) ==
  /\ \E table \in Tables : Answer("Create", name, AddAll(NewFrame(name, heap), table))
  /\ UNCHANGED disk

AddColumn(name) ==
  /\ IsFrame(name)
  /\ \E c \in Additions : Answer("AddColumn", name, add(Get(name), c))
  /\ UNCHANGED disk

RemoveColumn(name) ==
  /\ IsFrame(name)
  /\ \E c \in AllColumns(data_frames[name]) : Answer("RemoveColumn", name, remove_column(Get(name), c.name))
  /\ UNCHANGED disk

AppendTo(name) ==
  /\ IsFrame(name)
  /\ \E table \in Tables :
       LET other == AddAll(NewFrame(name, Get(name).h), table)
       IN Answer("AppendTo", name,
                 Then(other, LAMBDA x : append_frame([Get(name) EXCEPT !.h = x.h], x)))
  /\ UNCHANGED disk

Freeze(name) ==
  /\ IsFrame(name)
  /\ Answer("Freeze", name, [Get(name) EXCEPT !.frozen_ = TRUE])
  /\ UNCHANGED disk

\* DataFrameManager::from_view
FromView(name, base, view) ==
  /\ IsFrame(base)
  /\ Answer("FromView", name, Then(parse(Get(base), view), LAMBDA x : clone(x, name)))
  /\ UNCHANGED disk

Save(name) ==
  /\ IsFrame(name) /\ time < MaxSteps
  /\ disk' = [disk EXCEPT ![name] = Saved(Get(name))]
  /\ time' = time + 1 /\ outcome' = <<"Save", "none">>
  /\ UNCHANGED <<data_frames, heap, known>>

Load(name) ==
  /\ disk[name] # NoFrame
  /\ Answer("Load", name, load(name, heap, disk[name]))
  /\ UNCHANGED disk

FrameInit ==
  /\ data_frames = [n \in Names |-> NoFrame]
  /\ heap = NoHeap
  /\ disk = [n \in Names |-> NoFrame]
  /\ time = 0 /\ outcome = <<"none", "none">> /\ known = {}

Done == time = MaxSteps /\ UNCHANGED frameVars

FrameNext ==
  \/ \E n \in Names : \/ Create(n) \/ AddColumn(n) \/ RemoveColumn(n)
                      \/ AppendTo(n) \/ Freeze(n) \/ Save(n) \/ Load(n)
                      \/ \E b \in Names, v \in Views : FromView(n, b, v)
  \/ Done

FrameSpec == FrameInit /\ [][FrameNext]_frameVars

-----------------------------------------------------------------------------
(* Properties *)

Live == {n \in Names : IsFrame(n)}

\* Every column and index of every data frame points to something, and every
\* join key has an index.
FrameTypeOK ==
  /\ \A n \in Live : /\ DOMAIN data_frames[n].cols = RoleSet
                     /\ \A c \in AllColumns(data_frames[n]) : c.data \in DOMAIN heap.data
                     /\ Len(data_frames[n].indices_) = Len(data_frames[n].cols["join_key"])
                     /\ \A x \in Range(data_frames[n].indices_) : x.map \in DOMAIN heap.maps
  /\ \A n \in Names : disk[n] = NoFrame \/ disk[n].last_change_ <= time
  /\ time \in 0..MaxSteps

\* After any sequence of requests, the columns of a data frame have different
\* names and as many rows as the data frame says it has.
FramesAreTables ==
  \A n \in Live :
    LET d == Get(n)
        At(p) == d.cols[p[1]][p[2]]
    IN \A p, q \in Places(d.cols) : /\ Len(ValuesOf(d, At(p))) = nrows(d)
                                   /\ At(p).name = At(q).name => p = q

\* The rows of a key, in their order.
AreRowsOf(rows, key, values) ==
  /\ Range(rows) = {j - 1 : j \in {j \in 1..Len(values) : values[j] = key}}
  /\ \A a, b \in 1..Len(rows) : a < b => rows[a] < rows[b]

\* An index finds exactly the rows of its join key that hold a key, in their order.
FindsRows(d, i) ==
  LET values == ValuesOf(d, d.cols["join_key"][i])
  IN \A key \in Range(values) \cup DOMAIN d.h.maps[d.indices_[i].map] :
       ~is_null(key) => AreRowsOf(find(d.h, d.indices_[i], key), key, values)

\* The index over a join key finds exactly the rows that hold a key, in their
\* order, whatever was added, removed, appended, selected, saved and loaded
\* before (Index::find).  Indices that a data frame with several join keys got when
\* it was loaded are excluded, for they share one map: EveryIndexFindsRows.
IndexFindsRows ==
  \A n \in Live : \A i \in 1..Len(data_frames[n].indices_) :
    data_frames[n].indices_[i].own => FindsRows(Get(n), i)

\* "Returns a pointer to the beginning and end of the rownums, or two nullptrs, if
\* the key is not found." (Index.hpp:45-46): every index finds exactly the rows of
\* its join key.  It does not: DataFrame::load gives a data frame with several join
\* keys copies of one index (DataFrame.cpp:490-494), which insert the rows of all
\* keys into the map they share.
EveryIndexFindsRows ==
  \A n \in Live : \A i \in 1..Len(data_frames[n].indices_) : FindsRows(Get(n), i)

\* The cells a client gets stand below the header of their column.
ContentUnderItsHeader ==
  \A n \in Live :
    LET d == Get(n)
        headers == get_headers(d)
        content == cells(d)
    IN \A c \in AllColumns(d) : \E i \in 1..Len(headers) :
         headers[i] = c.name /\ content[i] = ValuesOf(d, c)

\* After any sequence of requests on data frames, an index with a map of its own
\* finds exactly the rows of its column, cells stand below their header, and the
\* columns of a data frame have different names and as many rows as it.
FramesFindTheirRows == IndexFindsRows /\ ContentUnderItsHeader /\ FramesAreTables

\* A fingerprint stands for one content (DataFrame::fingerprint): features that were
\* computed from a data frame may be used again as long as its fingerprint is the
\* same.  No request changes a data frame without giving it a new time of its last
\* change, and none changes the content of another data frame.
FingerprintTellsContent ==
  \A n \in Live : \A s \in known : s[1] = fingerprint(data_frames[n]) => s = SeenAs(Get(n))

=============================================================================
