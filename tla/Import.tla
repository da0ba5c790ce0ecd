------------------------------- MODULE Import -------------------------------
(***************************************************************************)
(* How data frames leave the engine and come back: containers::            *)
(* DataFrameReader, DataFrame::from_csv, from_json, from_db and from_query *)
(* (containers/DataFrame.cpp), the tables of ArrowHandler.cpp, the         *)
(* requests that call them (engine/handlers/DataFrameManager.cpp), and the *)
(* rows and cells of an SQLite table (database/Sqlite3.cpp,                *)
(* Sqlite3Iterator.cpp).                                                   *)
(*                                                                         *)
(* A data frame is a sequence of columns for every role; a column has a    *)
(* name, a unit and cells: strings in some roles, numbers in the others.   *)
(* Categories and join keys are the strings they stand for: what the       *)
(* encodings do is the subject of MemoryMappedEncoding and DataFrames.     *)
(* When an operation throws its result is Failure.                         *)
(***************************************************************************)
EXTENDS Arrow

CONSTANTS Frames,       \* the data frames of the project
          BatchSizes,   \* lines per file of to_csv
          Formats_,     \* the time formats of the requests
          DBFormats,    \* the time formats of the connection
          Limits,       \* lines sniffed in every file, 0 for all of them
          Layouts,      \* how clients lay out the arrays of an arrow table
          ULP,          \* the error of a time stamp multiplied to and fro
          DIGIT         \* the error of a text of four decimals or microseconds

VARIABLES df,      \* the data frame that is written
          files,   \* what to_csv wrote: a sequence of texts, and the lines in each
          table,   \* what to_db wrote
          arrow,   \* the arrow table there is: a sequence of fields
          copy,    \* what has been read, from where, and under which schema
          sniffed  \* what the sniffer found: names, types, and the limit it had

importVars == <<df, files, table, arrow, copy, sniffed>>

AllRoles == <<"categorical", "join_key", "numerical", "target", "text",
           "time_stamp", "unused_float", "unused_string">>

StringRoles == {"categorical", "join_key", "text", "unused_string"}

\* The null of a table.
DBNULL == <<Word("null")>>

Failure == [r \in Range(AllRoles) |-> <<[name |-> NULL, unit |-> "", data |-> <<>>]>>]

-----------------------------------------------------------------------------
(* What a data frame is *)

Strings == Seq(STRING \X Nat)
ColumnsWith(cells) == [name : Strings, unit : STRING, data : Seq(cells)]

Near(val, error) == {w \in (val - error)..(val + error) : w >= 0}

\* What floating point does to a number: digits are lost in text, and a time stamp
\* that is multiplied, and divided again, comes back but for its last place.
Rounds(val) ==
  /\ {Digits(16, val), Digits(15, Digits(16, val)), Micros(val), Nanos(val)} \subseteq Nat
  /\ Decimals(val) \in Near(val, DIGIT)
  /\ Multiplied("timestamp_ns", Nanos(val)) \in Near(val, ULP)
  /\ \A type \in DOMAIN PerTick : Multiplied(type, val * PerTick[type]) \in Near(val, ULP)
  /\ \A w \in Near(val, ULP) : Micros(w) \in Near(val, DIGIT)

Rounded == {NAN} \cup {val \in Nat : Rounds(val)}

\* Columns are found by their names and have the same length.
IsDataFrame(d) ==
  /\ \A role \in Range(AllRoles) :
       IF role \in StringRoles
       THEN d[role] \in Seq(ColumnsWith(Strings))
       ELSE d[role] \in Seq(ColumnsWith(Rounded))
  /\ \A r, s \in Range(AllRoles) : \A i \in DOMAIN d[r], k \in DOMAIN d[s] :
       /\ d[r][i].name = d[s][k].name => r = s /\ i = k
       /\ Len(d[r][i].data) = Len(d[s][k].data)

\* Time stamps that arrow has to keep fit into its 64 bits.
FitsArrow(d) ==
  \A role \in Range(AllRoles) \ StringRoles : \A i \in DOMAIN d[role] :
    d[role][i].unit = "time stamp" =>
      \A val \in Range(d[role][i].data) \ {NAN} : Nanos(val) <= INT64_MAX

\* Names have no place for quotechars and line feeds, nor for blanks at their ends,
\* and a string in a table is not the one that stands for its null.
FitsText(d) ==
  \A role \in Range(AllRoles) : \A i \in DOMAIN d[role] :
    /\ LET name == d[role][i].name
       IN name # <<>> /\ trim(name) = name /\ {QUOTE, BELL, LF} \cap Range(name) = {}
    /\ role \in StringRoles => DBNULL \notin Range(d[role][i].data)

ReadsTimes(time_formats) ==
  {"date", "second", "fraction"} \subseteq time_formats /\ "NULL" \notin time_formats

ASSUME ImportAssumption ==
  /\ MAX_CHUNKSIZE \in Nat \ {0} /\ INT64_MAX \in Nat /\ BatchSizes \subseteq Nat
  /\ \A d \in Frames : IsDataFrame(d) /\ FitsArrow(d) /\ FitsText(d)
  /\ Layouts \subseteq {"dictionary", "typed", "chunks", "list"}
  /\ ReadsTimes(Formats_) /\ ReadsTimes(DBFormats)

ASSUME RoundingAssumption ==
  ULP \in Nat /\ DIGIT \in Nat /\ ULP <= DIGIT /\ Digits(15, 0) = 0

-----------------------------------------------------------------------------
(* containers::DataFrameReader *)

\* All columns in the order of the roles, each with its role.
Columns(d) ==
  FlattenSeq([k \in DOMAIN AllRoles |->
    [i \in DOMAIN d[AllRoles[k]] |-> [role |-> AllRoles[k], col |-> d[AllRoles[k]][i]]]])

row_count(d) == IF Columns(d) = <<>> THEN 0 ELSE Len(Columns(d)[1].col.data)

make_colnames(d, quotechar) ==
  [i \in DOMAIN Columns(d) |-> remove_quotechars(Columns(d)[i].col.name, quotechar)]

is_ts(c) == c.role \in {"numerical", "unused_float"} /\ c.col.unit = "time stamp"

make_coltypes(d) ==
  [i \in DOMAIN Columns(d) |->
     LET c == Columns(d)[i]
     IN CASE c.role = "time_stamp"                   -> "time_stamp"
          [] c.role \in StringRoles \/ is_ts(c)      -> "string"
          [] OTHER                                   -> "double"]

\* The fields of a row.
row_line(d, row) ==
  [i \in DOMAIN Columns(d) |->
     LET c == Columns(d)[i]
         val == c.col.data[row]
     IN CASE c.role \in StringRoles             -> str_of(val)
          [] c.role = "time_stamp" \/ is_ts(c)  -> ts_to_string(val)
          [] OTHER                              -> to_precise_string(val)]

DataFrameReader(d, quotechar) ==
  [colnames |-> make_colnames(d, quotechar), coltypes |-> make_coltypes(d),
   lines |-> [row \in 1..row_count(d) |-> row_line(d, row)]]

-----------------------------------------------------------------------------
(* containers::DataFrame: one cell, one column, all columns of a schema *)

concat_colnames(schema) == FlattenSeq([k \in DOMAIN AllRoles |-> schema[AllRoles[k]]])

roles_of(schema) ==
  FlattenSeq([k \in DOMAIN AllRoles |-> [i \in DOMAIN schema[AllRoles[k]] |-> AllRoles[k]]])

\* Categories and join keys go through an encoding, for which no text is null.
string_cell(role, str) ==
  IF role \in {"categorical", "join_key"} THEN str ELSE parse_null(str)

cell(role, str, time_formats) ==
  CASE role \in StringRoles  -> string_cell(role, str)
    [] role = "time_stamp"   -> get_time_stamp(str, time_formats)
    [] OTHER                 -> get_double(str)

IndexOf(names, name) == Min({i \in DOMAIN names : names[i] = name})

NamedColumn(name, data) == [name |-> name, unit |-> "", data |-> data]

\* The data frame whose k-th column holds, for every line, value(k, line).
Vectors(schema, lines, value(_, _)) ==
  LET before(role) ==
        Len(FlattenSeq([i \in 1..(IndexOf(AllRoles, role) - 1) |-> schema[AllRoles[i]]]))
  IN [role \in Range(AllRoles) |->
        [i \in DOMAIN schema[role] |->
           LET k == before(role) + i
           IN NamedColumn(schema[role][i], [n \in DOMAIN lines |-> value(k, lines[n])])]]

from_reader(reader, skip, time_formats, schema) ==
  LET opened == colnames(reader)
      left == rest(skip_lines(opened.reader, skip))
      lines == Kept(left, {line \in Range(left) :
                             line # <<>> /\ Len(line) = Len(opened.line)})
      all == concat_colnames(schema)
      roles == roles_of(schema)
      colname_indices == [k \in DOMAIN all |-> IndexOf(opened.line, all[k])]
  IN IF ~Range(all) \subseteq Range(opened.line) THEN Failure
     ELSE Vectors(schema, lines,
                  LAMBDA k, line : cell(roles[k], line[colname_indices[k]], time_formats))

\* The columns of all data frames in the places of those of the first.
Appended(dfs) ==
  [role \in Range(AllRoles) |->
     [i \in DOMAIN dfs[1][role] |->
        [dfs[1][role][i] EXCEPT !.data =
           FlattenSeq([n \in DOMAIN dfs |-> dfs[n][role][i].data])]]]

from_csv(names, texts, quotechars, seps, num_lines_read, skip, time_formats, schema) ==
  LET wanted == IF num_lines_read > 0 THEN num_lines_read + skip ELSE num_lines_read
      limit == IF names = <<>> /\ wanted > 0 THEN wanted + 1 ELSE wanted
      local_df(i) == from_reader(CSVReader(names, texts[i], limit, quotechars[1], seps[1]),
                                 skip, time_formats, schema)
      local_dfs == [i \in DOMAIN texts |-> local_df(i)]
  IN IF Len(quotechars) # 1 \/ Len(seps) # 1 \/ Failure \in Range(local_dfs) THEN Failure
     ELSE IF texts = <<>> THEN [r \in Range(AllRoles) |-> <<>>]
     ELSE Appended(local_dfs)

-----------------------------------------------------------------------------
(* DataFrame::from_json.  A JSON object holds a vector of strings or of     *)
(* floats for every name.                                                   *)

has_vector(obj, name, types) ==
  \E i \in DOMAIN obj : obj[i].name = name /\ obj[i].type \in types

vector(obj, name) == obj[IndexOf([i \in DOMAIN obj |-> obj[i].name], name)]

\* Strings and numbers are taken as they are: no string becomes null.
json_columns(obj, names) ==
  [i \in DOMAIN names |-> NamedColumn(names[i], vector(obj, names[i]).values)]

\* What no format matches is the zeroth second.
json_time_stamps(obj, names, time_formats) ==
  [i \in DOMAIN names |->
     LET vec == vector(obj, names[i])
     IN NamedColumn(names[i],
                    IF vec.type = "float" THEN vec.values
                    ELSE [j \in DOMAIN vec.values |->
                            to_time_stamp(vec.values[j], time_formats).val])]

from_json(obj, time_formats, schema) ==
  LET known(name) == has_vector(obj, name, {"string", "float"})
      targets == Kept(schema["target"], {name \in Range(schema["target"]) : known(name)})
      complete ==
        \A role \in Range(AllRoles) : \A i \in DOMAIN schema[role] :
          \/ role = "target" /\ ~known(schema[role][i])
          \/ has_vector(obj, schema[role][i],
                        CASE role \in StringRoles -> {"string"}
                          [] role = "time_stamp"  -> {"string", "float"}
                          [] OTHER                -> {"float"})
  IN IF ~complete THEN Failure
     ELSE [role \in Range(AllRoles) |->
             CASE role = "time_stamp" -> json_time_stamps(obj, schema[role], time_formats)
               [] role = "target"     -> json_columns(obj, targets)
               [] OTHER               -> json_columns(obj, schema[role])]

-----------------------------------------------------------------------------
(* database::Sqlite3: what a line becomes in a table.  A cell is a text; a  *)
(* number in a column of numbers is the text SQLite writes for it.          *)

insert_double(str) ==
  LET d == to_double(str) IN IF d.success THEN <<Number(d.val)>> ELSE DBNULL

insert_int(str) ==
  LET i == to_int(str) IN IF i.success THEN <<Number(i.val)>> ELSE DBNULL

insert_text(str) == str

insert_cells(line, coltypes) ==
  [i \in DOMAIN line |->
     CASE coltypes[i] = "double"  -> insert_double(line[i])
       [] coltypes[i] = "integer" -> insert_int(line[i])
       [] OTHER                   -> insert_text(line[i])]

coltypes_of(types) ==
  [i \in DOMAIN types |-> CASE types[i] = "REAL"    -> "double"
                            [] types[i] = "INTEGER" -> "integer"
                            [] OTHER                -> "string"]

has_colnames(names, csv_colnames) == names = csv_colnames

\* The rows of the table after the lines of a reader, or the rows it had.
read_rows(t, names, lines, skip) ==
  IF ~has_colnames(t.colnames, names) THEN t.rows
  ELSE LET used == Kept(SubSeq(lines, skip + 1, Len(lines)),
                        {line \in Range(lines) :
                           line # <<>> /\ Len(line) = Len(t.colnames)})
       IN t.rows \o [n \in DOMAIN used |->
                       insert_cells(used[n], coltypes_of(t.coltypes))]

(* database::Sqlite3Iterator *)

\* A number is exact when it is asked for as one, and has 15 digits as a text;
\* a text that is asked for as a number is what its start says.
column_double(str) ==
  CASE str = DBNULL -> 0
    [] Len(str) = 1 /\ str[1][1] = "number" -> str[1][2]
    [] Len(str) = 1 /\ str[1][1] \in {"date", "second", "fraction"} -> YEAR
    [] OTHER -> 0

column_text(coltype, str) ==
  IF coltype = "REAL" /\ str # DBNULL THEN <<Number(Digits(15, column_double(str)))>>
  ELSE str

iter_get_double(coltype, str) ==
  LET val == column_double(str)
  IN IF val # 0 THEN val
     ELSE IF str = DBNULL THEN NAN ELSE get_double(column_text(coltype, str))

iter_get_string(coltype, str) ==
  IF str = DBNULL THEN NULLTEXT ELSE column_text(coltype, str)

iter_get_time_stamp(coltype, str, time_formats) ==
  IF str = DBNULL THEN NAN ELSE get_time_stamp(column_text(coltype, str), time_formats)

make_sql(names, tname, where) == [select |-> names, from |-> tname, where |-> where]

\* The rows a SELECT gives, or none when a column does not exist.
select_rows(t, names) ==
  [n \in DOMAIN t.rows |-> [k \in DOMAIN names |-> t.rows[n][IndexOf(t.colnames, names[k])]]]

from_db(t, schema, time_formats) ==
  LET all == concat_colnames(schema)
      roles == roles_of(schema)
      type(k) == t.coltypes[IndexOf(t.colnames, all[k])]
  IN IF ~Range(all) \subseteq Range(t.colnames) THEN Failure
     ELSE Vectors(schema, select_rows(t, all),
                  LAMBDA k, row :
                    CASE roles[k] \in StringRoles ->
                           string_cell(roles[k], iter_get_string(type(k), row[k]))
                      [] roles[k] = "time_stamp"  ->
                           iter_get_time_stamp(type(k), row[k], time_formats)
                      [] OTHER                    -> iter_get_double(type(k), row[k]))

\* A query for the whole table: every field is a string first.
from_query(t, schema, time_formats) ==
  LET all == concat_colnames(schema)
      roles == roles_of(schema)
      at(k) == IndexOf(t.colnames, all[k])
  IN Vectors(schema, t.rows,
             LAMBDA k, row : cell(roles[k], iter_get_string(t.coltypes[at(k)], row[at(k)]),
                                  time_formats))

-----------------------------------------------------------------------------
(* engine::handlers::DataFrameManager: the requests *)

df_to_csv(d, batch_size, quotechar, sep) ==
  LET reader == DataFrameReader(d, BELL)
      batches == Batches(reader.lines, batch_size)
  IN [b \in DOMAIN batches |-> write(batches[b], reader.colnames, quotechar, sep)]

df_to_db(d) ==
  LET reader == DataFrameReader(d, BELL)
      statement == make_statement("t", "sqlite3", reader.colnames, reader.coltypes)
      created == [colnames |-> statement.colnames, coltypes |-> statement.coltypes,
                  rows |-> <<>>]
  IN [created EXCEPT !.rows = read_rows(created, reader.colnames, reader.lines, 0)]

-----------------------------------------------------------------------------
(* engine/handlers/ArrowHandler.cpp *)

df_to_schema(d) ==
  [i \in DOMAIN Columns(d) |->
     LET c == Columns(d)[i]
     IN IF c.role \in StringRoles         THEN "utf8"
        ELSE IF c.col.unit = "time stamp" THEN "timestamp_ns"
        ELSE "float64"]

extract_arrays(d) ==
  [i \in DOMAIN Columns(d) |->
     LET data == Columns(d)[i].col.data
     IN CASE df_to_schema(d)[i] = "utf8"         -> make_string_array(data)
          [] df_to_schema(d)[i] = "timestamp_ns" -> make_time_stamp_array(data)
          [] OTHER                               -> make_float_array(data)]

df_to_table(d) ==
  [i \in DOMAIN Columns(d) |->
     [name |-> Columns(d)[i].col.name, array |-> extract_arrays(d)[i]]]

table_to_df(t, schema) ==
  LET names == [i \in DOMAIN t |-> t[i].name]
      array(name) == t[IndexOf(names, name)].array
      wanted == Range(concat_colnames(schema))
  IN IF ~wanted \subseteq Range(names) \/ (\E name \in wanted : ~can_read(array(name)))
     THEN Failure
     ELSE [role \in Range(AllRoles) |->
             [i \in DOMAIN schema[role] |->
                NamedColumn(schema[role][i],
                  IF role \in StringRoles THEN to_string_column(array(schema[role][i]))
                  ELSE to_float_column(array(schema[role][i])))]]

\* The table a client sends: strings as a dictionary with an entry that nobody
\* uses, numbers as time stamps, as integers where they are whole, every row a
\* chunk of its own, or a column there is no way to read.
Coded(data) ==
  LET entries == <<<<Word("unused")>>>> \o SetToSeq(Range(data) \ {NULL})
  IN <<DictionaryChunk([n \in DOMAIN data |-> IF data[n] = NULL THEN NullCell
                                              ELSE Cell(IndexOf(entries, data[n]))],
                       Chunk("utf8", [k \in DOMAIN entries |-> Cell(entries[k])]))>>

NumberCells(data, unit) ==
  [n \in DOMAIN data |-> IF data[n] = NAN THEN NullCell ELSE Cell(data[n] * unit)]

Laid(layout, c) ==
  CASE layout = "dictionary" ->
         IF c.role \in StringRoles THEN Coded(c.col.data)
         ELSE <<DictionaryChunk([n \in DOMAIN c.col.data |->
                                   IF c.col.data[n] = NAN THEN NullCell ELSE Cell(n)],
                                Chunk("float64", NumberCells(c.col.data, 1)))>>
    [] layout = "typed" ->
         IF c.role \in StringRoles
         THEN <<Chunk("large_utf8", [n \in DOMAIN c.col.data |->
                  IF c.col.data[n] = NULL THEN NullCell ELSE Cell(c.col.data[n])])>>
         ELSE <<Chunk("timestamp_us", NumberCells(c.col.data, PerTick["timestamp_us"]))>>
    [] layout = "chunks" ->
         [n \in DOMAIN c.col.data |->
            LET one == <<c.col.data[n]>>
            IN IF c.role \in StringRoles
               THEN IF one = <<NULL>> THEN Chunk("null", <<NullCell>>)
                    ELSE Chunk("binary", <<Cell(one[1])>>)
               ELSE IF n % 2 = 0
                    THEN Chunk("time32_ms", NumberCells(one, PerTick["time32_ms"]))
               ELSE Chunk(IF one = <<NAN>> \/ one[1] % ONE = 0 THEN "int64" ELSE "float64",
                          NumberCells(one, 1))]
    [] layout = "list" -> <<Chunk("list", <<>>)>>

\* The columns of df in the roles in which they can be read: what is written
\* as a time stamp is read as one.
ReadingRole(c) == IF is_ts(c) THEN "time_stamp" ELSE c.role

SchemaOf(d) ==
  [role \in Range(AllRoles) |->
     FlattenSeq([i \in DOMAIN Columns(d) |->
                   IF ReadingRole(Columns(d)[i]) = role THEN <<Columns(d)[i].col.name>>
                   ELSE <<>>])]

\* What a client sends for a cell in JSON: null strings are sent as NULL.
InJSON(c) ==
  [n \in DOMAIN c.col.data |->
     IF c.role \in StringRoles THEN str_of(c.col.data[n]) ELSE c.col.data[n]]

JSONOf(d) ==
  [i \in DOMAIN Columns(d) |->
     [name |-> Columns(d)[i].col.name,
      type |-> IF Columns(d)[i].role \in StringRoles THEN "string" ELSE "float",
      values |-> InJSON(Columns(d)[i])]]

Nothing == [from |-> "nothing", frame |-> Failure, skip |-> 0, lines |-> 0]
Unsniffed == [names |-> <<>>, types |-> <<>>, limit |-> 0]
NoFiles == [texts |-> <<>>, batch_size |-> 0]
Unstored == [colnames |-> <<>>, coltypes |-> <<>>, rows |-> <<>>]

ImportInit ==
  /\ df \in Frames
  /\ files = NoFiles
  /\ table = Unstored
  /\ arrow = <<>>
  /\ copy = Nothing
  /\ sniffed = Unsniffed

\* Bound: the data frame is written to one place.
Unwritten == files = NoFiles /\ table = Unstored /\ arrow = <<>>

to_csv ==
  /\ Unwritten
  /\ \E batch_size \in BatchSizes :
       files' = [texts |-> df_to_csv(df, batch_size, QUOTE, SEP),
                 batch_size |-> batch_size]
  /\ UNCHANGED <<df, table, arrow, copy, sniffed>>

to_db ==
  /\ Unwritten
  /\ table' = df_to_db(df)
  /\ UNCHANGED <<df, files, arrow, copy, sniffed>>

\* to_arrow sends the table; to_parquet stores it.
to_arrow ==
  /\ Unwritten
  /\ arrow' = df_to_table(df)
  /\ UNCHANGED <<df, files, table, copy, sniffed>>

to_parquet ==
  /\ \E compression \in {"snappy", "unknown"} :
       parse_compression(compression) /\ to_arrow

\* A client sends a table of its own.
SendTable ==
  /\ Unwritten
  /\ \E layout \in Layouts :
       arrow' = [i \in DOMAIN Columns(df) |->
                   [name |-> Columns(df)[i].col.name, array |-> Laid(layout, Columns(df)[i])]]
  /\ UNCHANGED <<df, files, table, copy, sniffed>>

\* A failed import leaves what had been there.
Read(from, frame, skip, lines) ==
  /\ copy = Nothing
  /\ copy' = IF frame = Failure THEN copy
             ELSE [from |-> from, frame |-> frame, skip |-> skip, lines |-> lines]
  /\ UNCHANGED <<df, files, table, arrow, sniffed>>

\* The client leaves the names to the header, or names the columns and skips
\* the header.
ReadCSV ==
  /\ files # NoFiles
  /\ \E skip \in 0..1, lines \in 0..1, named \in BOOLEAN :
       Read("csv",
            IF named
            THEN from_csv(concat_colnames([r \in Range(AllRoles) |->
                            [i \in DOMAIN df[r] |-> df[r][i].name]]),
                          files.texts, <<QUOTE>>, <<SEP>>, lines, skip + 1, Formats_,
                          SchemaOf(df))
            ELSE from_csv(<<>>, files.texts, <<QUOTE>>, <<SEP>>, lines, skip, Formats_,
                          SchemaOf(df)),
            skip, lines)

ReadJSON == Read("json", from_json(JSONOf(df), Formats_, SchemaOf(df)), 0, 0)

ReadDB ==
  /\ table # Unstored
  /\ Read("db", from_db(table, SchemaOf(df), DBFormats), 0, 0)

ReadQuery ==
  /\ table # Unstored
  /\ Read("query", from_query(table, SchemaOf(df), DBFormats), 0, 0)

\* from_arrow and from_parquet.
ReadArrow ==
  /\ arrow # <<>>
  /\ Read("arrow", table_to_df(arrow, SchemaOf(df)), 0, 0)

\* Every column in the role of an unused string.
ReadStrings ==
  /\ arrow # <<>>
  /\ Read("strings",
          table_to_df(arrow, [r \in Range(AllRoles) |->
                                IF r = "unused_string"
                                THEN [i \in DOMAIN arrow |-> arrow[i].name] ELSE <<>>]),
          0, 0)

SniffCSV ==
  /\ files # NoFiles
  /\ sniffed = Unsniffed
  /\ \E limit \in Limits :
       LET found == sniff(<<>>, files.texts, limit, 0, QUOTE, SEP)
       IN sniffed' = [names |-> found.names, types |-> found.types, limit |-> limit]
  /\ UNCHANGED <<df, files, table, arrow, copy>>

\* Reads the files in the roles the sniffer proposes.
ReadSniffed ==
  /\ sniffed # Unsniffed
  /\ LET proposed == make_statement("t", "python", sniffed.names, sniffed.types)
     IN Read("sniffed",
             from_csv(<<>>, files.texts, <<QUOTE>>, <<SEP>>, 0, 0, Formats_,
                      [r \in Range(AllRoles) |->
                         CASE r = "unused_float"  -> proposed.unused_float
                           [] r = "unused_string" -> proposed.unused_string
                           [] OTHER               -> <<>>]),
             0, 0)

ImportNext ==
  \/ to_csv
  \/ to_db
  \/ ReadCSV
  \/ ReadJSON
  \/ ReadDB
  \/ ReadQuery
  \/ to_arrow
  \/ to_parquet
  \/ SendTable
  \/ ReadArrow
  \/ ReadStrings
  \/ SniffCSV
  \/ ReadSniffed

ImportSpec == ImportInit /\ [][ImportNext]_importVars

-----------------------------------------------------------------------------
(* Properties *)

CellsAreTyped(d) ==
  \A i \in DOMAIN Columns(d) : \A n \in DOMAIN Columns(d)[i].col.data :
    Columns(d)[i].col.data[n] \in
      IF Columns(d)[i].role \in StringRoles THEN Strings ELSE {NAN} \cup Nat

\* Strings are strings and numbers are numbers, in whatever is written and
\* whatever is read.
ImportTypeOK ==
  /\ CellsAreTyped(df)
  /\ copy # Nothing => CellsAreTyped(copy.frame)
  /\ \A n \in DOMAIN table.rows : Len(table.rows[n]) = Len(table.colnames)

\* What the columns are called and what they hold, whatever their roles.
CellsOf(d) ==
  {<<Columns(d)[i].col.name, Columns(d)[i].col.data>> : i \in DOMAIN Columns(d)}

\* What the text of a cell says: a text that means NULL is null unless it is a
\* category or a join key, a time stamp has microseconds, and a number 16 digits.
AsText(c, val) ==
  IF c.role \in StringRoles THEN string_cell(c.role, str_of(val))
  ELSE IF val = NAN THEN NAN
  ELSE IF c.role = "time_stamp" \/ is_ts(c) THEN IF val % ONE = 0 THEN val ELSE Micros(val)
  ELSE Digits(16, val)

\* The text of a number in a table has 15.
AsQueried(c, val) ==
  IF c.role \in StringRoles \cup {"time_stamp"} \/ is_ts(c) \/ val = NAN THEN AsText(c, val)
  ELSE Digits(15, Digits(16, val))

InText(c) == [n \in DOMAIN c.col.data |-> AsText(c, c.col.data[n])]
InQuery(c) == [n \in DOMAIN c.col.data |-> AsQueried(c, c.col.data[n])]

\* Lines skip+1 to skip+lines of every file of batch_size lines.
LinesKept(data, batch_size, skip, lines) ==
  FlattenSeq([b \in DOMAIN Batches(data, batch_size) |->
                LET batch == Batches(data, batch_size)[b]
                IN SubSeq(batch, skip + 1,
                          IF lines = 0 THEN Len(batch) ELSE Min({skip + lines, Len(batch)}))])

\* A CSV file has no place for quotechars and line feeds, nor, at the end of a
\* line, for blanks around a string, nor for a line that is empty; no file is
\* written if there are no rows.
FitsCSV(d) ==
  /\ row_count(d) > 0
  /\ \A i \in DOMAIN Columns(d) : Columns(d)[i].role \in StringRoles =>
       \A str \in Range(Columns(d)[i].col.data) :
         /\ {QUOTE, LF} \cap Range(str) = {}
         /\ i = Len(Columns(d)) => trim(str) = str
         /\ Len(Columns(d)) = 1 => str # <<>>

\* A data frame that is written to CSV files, in one or in several, and read
\* again has the same columns, and in its cells what their text says: all of
\* them, or from every file exactly the lines asked for.  From JSON come the
\* strings as they were sent, and the numbers.
FilesKeepTheCells ==
  /\ copy.from = "csv" /\ FitsCSV(df) =>
       CellsOf(copy.frame) =
         {<<c.col.name, LinesKept(InText(c), files.batch_size, copy.skip, copy.lines)>> :
            c \in Range(Columns(df))}
  /\ copy.from = "json" =>
       CellsOf(copy.frame) = {<<c.col.name, InJSON(c)>> : c \in Range(Columns(df))}

\* A data frame that is written to a table and read again has the same columns,
\* and in its cells what their text says; by a query, numbers have fewer digits.
TablesKeepTheCells ==
  /\ copy.from = "db" =>
       CellsOf(copy.frame) = {<<c.col.name, InText(c)>> : c \in Range(Columns(df))}
  /\ copy.from = "query" =>
       CellsOf(copy.frame) = {<<c.col.name, InQuery(c)>> : c \in Range(Columns(df))}

\* What may arrive for a cell of an arrow table, the engine's own or that of a
\* client: of its own strings, null for one that means NULL or is not UTF-8; of
\* its own numbers, and of no others, those that are no time stamps are exact.
SentAs(c, val, own) ==
  IF c.role \in StringRoles
  THEN IF own /\ (parse_null(val) = NULL \/ BYTES \in Range(val)) THEN {NULL} ELSE {val}
  ELSE IF val = NAN \/ (own /\ c.col.unit # "time stamp") THEN {val}
  ELSE Near(val, ULP)

Arrives(c, read, own) ==
  /\ read.col.name = c.col.name
  /\ DOMAIN read.col.data = DOMAIN c.col.data
  /\ \A n \in DOMAIN c.col.data : read.col.data[n] \in SentAs(c, c.col.data[n], own)

\* The strings of a column that holds numbers say what it holds.
Says(c, data, own) ==
  \A n \in DOMAIN data :
    LET val == c.col.data[n]
    IN IF c.role \in StringRoles THEN data[n] \in SentAs(c, val, own)
       ELSE /\ data[n] = NULL <=> val = NAN
            /\ val # NAN => get_time_stamp(data[n], Formats_) \in Near(val, DIGIT)

\* A data frame that is sent as an arrow table or stored as a parquet file
\* and read again has the same columns and cells, time stamps but for their last
\* place, and so has one that a client has laid out in its own way: in chunks of
\* different types, in dictionaries, in other units.  Read as strings, the columns
\* of numbers still say what they hold, to four decimals or a microsecond.
ArrowKeepsTheCells ==
  LET own == arrow = df_to_table(df)
  IN /\ copy.from = "arrow" =>
          /\ \A c \in Range(Columns(df)) : \E read \in Range(Columns(copy.frame)) :
               Arrives(c, read, own)
          /\ \A read \in Range(Columns(copy.frame)) : \E c \in Range(Columns(df)) :
               Arrives(c, read, own)
     /\ copy.from = "strings" =>
          \A i \in DOMAIN Columns(df) :
            LET read == copy.frame["unused_string"][i]
            IN /\ read.name = Columns(df)[i].col.name
               /\ Len(read.data) = row_count(df)
               /\ Says(Columns(df)[i], read.data, own)

\* When the sniffer looked at all lines, a column it takes for numbers is read
\* without a null: it takes no column for numbers that holds anything else.
SniffedNumbersAreRead ==
  copy.from = "sniffed" /\ sniffed.limit = 0 =>
    \A i \in DOMAIN copy.frame["unused_float"] :
      NAN \notin Range(copy.frame["unused_float"][i].data)

\* A cell comes back from files and tables as its text there says, from an arrow
\* table as it was but for the last place of a time stamp, and a column that is
\* sniffed as one of numbers is read as numbers.
CellsSurvive ==
  FilesKeepTheCells /\ TablesKeepTheCells /\ ArrowKeepsTheCells /\ SniffedNumbersAreRead

=============================================================================
