------------------------------- MODULE Formats -------------------------------
(***************************************************************************)
(* How cells become text and text becomes cells: io::Parser,               *)
(* database::Getter, io::CSVReader and io::CSVWriter, database::CSVBuffer, *)
(* io::Sniffer and io::StatementMaker.                                     *)
(*                                                                         *)
(* A string is a sequence of tokens, each a character or a word that the   *)
(* code takes apart no further: a number, a time stamp in one of its       *)
(* formats, a name.  Numbers are counted in ticks, ONE to a unit or a      *)
(* second, and are not negative; NAN is the one negative value.  What      *)
(* printing does to a number is a parameter.  No string here has a number  *)
(* next to a number.                                                       *)
(***************************************************************************)
EXTENDS Integers, FiniteSetsExt, SequencesExt

CONSTANTS
  Digits(_, _),  \* a number printed with so many significant digits
  Decimals(_),   \* a number printed with at most four decimals
  Micros(_)      \* a time stamp cut to microseconds

SEP   == <<",", 0>>
QUOTE == <<"'", 0>>
BELL  == <<"a", 7>>   \* the quotechar of the readers of data frames
BAR   == <<"|", 0>>
BLANK == <<" ", 0>>
LF    == <<"n", 10>>
WHITESPACE == {BLANK, LF}

Word(name) == <<name, 0>>
Number(v) == <<"number", v>>

\* Bytes that are not valid UTF-8.
BYTES == <<"bytes", 0>>

\* A null string, and the text that str() gives for it.
NULL == <<<<"NULL", 1>>>>
NULLTEXT == <<Word("NULL")>>

str_of(str) == IF str = NULL THEN NULLTEXT ELSE str

NULLS == {<<>>, NULLTEXT, <<Word("nan")>>, <<Word("NA")>>, <<Word("None")>>}

NAN == -1
ONE == 8
DAY == 32
YEAR == 2020 * ONE

\* The elements of seq that are in S, in their order.
Kept(seq, S) ==
  FlattenSeq([i \in DOMAIN seq |-> IF seq[i] \in S THEN <<seq[i]>> ELSE <<>>])

-----------------------------------------------------------------------------
(* io::Parser *)

remove_quotechars(str, quotechar) == Kept(str, Range(str) \ {quotechar})

trim(str) ==
  LET kept == {i \in DOMAIN str : str[i] \notin WHITESPACE}
  IN IF kept = {} THEN <<>> ELSE SubSeq(str, Min(kept), Max(kept))

Failed == [val |-> 0, success |-> FALSE]
Parsed(v) == [val |-> v, success |-> TRUE]

\* A date consists of digits and dashes: strtod reads its year.
to_double(str) ==
  LET word == trim(str)
  IN IF Len(word) # 1 THEN Failed
     ELSE CASE word[1][1] = "number" -> Parsed(word[1][2])
            [] word[1][1] = "true"   -> Parsed(ONE)
            [] word[1][1] = "false"  -> Parsed(0)
            [] word[1][1] = "date"   -> Parsed(YEAR)
            [] OTHER                 -> Failed

\* std::stoi throws for true and false before they are compared.
to_int(str) ==
  LET word == trim(str)
  IN IF Len(word) = 1 /\ word[1][1] = "number" /\ word[1][2] % ONE = 0
     THEN Parsed(word[1][2]) ELSE Failed

to_precise_string(v) ==
  IF v = NAN THEN <<Word("nan")>> ELSE <<Number(Digits(16, v))>>

to_string(v) == IF v = NAN THEN <<Word("nan")>> ELSE <<Number(Decimals(v))>>

\* A format is the kind of words that it both reads and writes.
to_time_stamp(str, time_formats) ==
  LET word == trim(str)
  IN IF Len(word) = 1 /\ word[1][1] \in time_formats
     THEN Parsed(word[1][2]) ELSE Failed

ts_to_string(v) ==
  IF v = NAN THEN NULLTEXT
  ELSE IF v % DAY = 0 THEN <<<<"date", v>>>>
  ELSE IF v % ONE = 0 THEN <<<<"second", v>>>>
  ELSE <<<<"fraction", Micros(v)>>>>

parse_null(str) == IF str \in NULLS THEN NULL ELSE str

-----------------------------------------------------------------------------
(* database::Getter *)

get_double(str) ==
  LET d == to_double(str) IN IF d.success THEN d.val ELSE NAN

get_time_stamp(str, time_formats) ==
  LET t == to_time_stamp(str, time_formats)
  IN IF t.success THEN t.val ELSE get_double(str)

-----------------------------------------------------------------------------
(* io::Reader: a CSV file line by line.  next is the line getline gives     *)
(* next; the last line is what follows the last line feed.                  *)

lines_of(text) ==
  LET read[i \in 0..Len(text)] ==
        IF i = 0 THEN [lines |-> <<>>, line |-> <<>>]
        ELSE LET st == read[i - 1]
             IN IF text[i] = LF
                THEN [lines |-> Append(st.lines, st.line), line |-> <<>>]
                ELSE [st EXCEPT !.line = Append(@, text[i])]
      end == read[Len(text)]
  IN Append(end.lines, end.line)

CSVReader(colnames, text, limit, quotechar, sep) ==
  [colnames_ |-> colnames, lines |-> lines_of(text), limit_ |-> limit,
   quotechar_ |-> quotechar, sep_ |-> sep, num_lines_read_ |-> 0]

eof(r) ==
  \/ r.limit_ > 0 /\ r.num_lines_read_ >= r.limit_
  \/ r.num_lines_read_ >= Len(r.lines)

\* A mutant: a separator between quotes ends a field, too.
fields_of_unquoted(r, line) ==
  LET chopped[i \in 0..Len(line)] ==
        IF i = 0 THEN [result |-> <<>>, field |-> <<>>]
        ELSE LET st == chopped[i - 1]
             IN IF line[i] = r.sep_
                THEN [st EXCEPT !.result = Append(@, st.field), !.field = <<>>]
                ELSE IF line[i] = r.quotechar_ THEN st
                ELSE [st EXCEPT !.field = Append(@, line[i])]
      end == chopped[Len(line)]
  IN Append(end.result, trim(end.field))

fields_of(r, line) ==
  LET chopped[i \in 0..Len(line)] ==
        IF i = 0 THEN [result |-> <<>>, field |-> <<>>, is_quoted |-> FALSE]
        ELSE LET st == chopped[i - 1]
             IN IF line[i] = r.sep_ /\ ~st.is_quoted
                THEN [st EXCEPT !.result = Append(@, st.field), !.field = <<>>]
                ELSE IF line[i] = r.quotechar_ THEN [st EXCEPT !.is_quoted = ~@]
                ELSE [st EXCEPT !.field = Append(@, line[i])]
      end == chopped[Len(line)]
  IN Append(end.result, trim(end.field))

next_line(r) ==
  IF eof(r) THEN [line |-> <<>>, reader |-> r]
  ELSE LET line == r.lines[r.num_lines_read_ + 1]
       IN [line |-> IF line = <<>> THEN <<>> ELSE fields_of(r, line),
           reader |-> [r EXCEPT !.num_lines_read_ = @ + 1]]

colnames(r) ==
  IF r.colnames_ # <<>> THEN [line |-> r.colnames_, reader |-> r] ELSE next_line(r)

skip_lines(r, n) ==
  LET skipped[i \in 0..n] == IF i = 0 THEN r ELSE next_line(skipped[i - 1]).reader
  IN skipped[n]

\* The lines from here to the end.
rest(r) ==
  LET last == IF r.limit_ > 0 /\ r.limit_ < Len(r.lines) THEN r.limit_ ELSE Len(r.lines)
      at(i) == [r EXCEPT !.num_lines_read_ = i - 1]
  IN [i \in 1..(IF last > r.num_lines_read_ THEN last - r.num_lines_read_ ELSE 0) |->
        next_line(at(r.num_lines_read_ + i)).line]

-----------------------------------------------------------------------------
(* io::CSVWriter and database::CSVBuffer *)

Enclosed(field, quotechar) == <<quotechar>> \o field \o <<quotechar>>

parse_field(raw_field, quotechar, sep) ==
  LET field == remove_quotechars(raw_field, quotechar)
  IN IF sep \in Range(field) THEN Enclosed(field, quotechar) ELSE field

Joined(fields, sep) ==
  FlattenSeq([i \in DOMAIN fields |->
                fields[i] \o (IF i < Len(fields) THEN <<sep>> ELSE <<LF>>)])

make_buffer(line, quotechar, sep) ==
  Joined([i \in DOMAIN line |-> parse_field(line[i], quotechar, sep)], sep)

\* The files that df_to_csv asks for: batch_size lines each, or one file.
Batches(lines, batch_size) ==
  IF batch_size = 0 THEN IF lines = <<>> THEN <<>> ELSE <<lines>>
  ELSE [b \in 1..((Len(lines) + batch_size - 1) \div batch_size) |->
          SubSeq(lines, (b - 1) * batch_size + 1,
                 Min({b * batch_size, Len(lines)}))]

write(lines, names, quotechar, sep) ==
  make_buffer(names, quotechar, sep)
    \o FlattenSeq([i \in DOMAIN lines |->
                     IF Len(lines[i]) # Len(names) THEN <<>>
                     ELSE make_buffer(lines[i], quotechar, sep)])

-----------------------------------------------------------------------------
(* io::StatementMaker *)

to_string_mysql(type) ==
  CASE type = "double" -> "DOUBLE" [] type = "integer" -> "INT"
    [] type = "time_stamp" -> "TIMESTAMP" [] OTHER -> "TEXT"

to_string_postgres(type) ==
  CASE type = "double" -> "DOUBLE PRECISION" [] type = "integer" -> "INTEGER"
    [] type = "time_stamp" -> "TIMESTAMP" [] OTHER -> "TEXT"

to_string_sqlite(type) ==
  CASE type = "double" -> "REAL" [] type = "integer" -> "INTEGER" [] OTHER -> "TEXT"

\* DROP TABLE IF EXISTS and CREATE TABLE.
CreateTable(name, names, types) == [drop |-> name, create |-> name,
                                    colnames |-> names, coltypes |-> types]

make_statement_mysql(name, names, types) ==
  CreateTable(name, names, [i \in DOMAIN types |-> to_string_mysql(types[i])])

make_statement_postgres(name, names, types) ==
  CreateTable(name, names, [i \in DOMAIN types |-> to_string_postgres(types[i])])

make_statement_sqlite(name, names, types) ==
  CreateTable(name, names, [i \in DOMAIN types |-> to_string_sqlite(types[i])])

\* What has been recognised as a number, and the rest.
make_statement_python(names, types) ==
  LET named(numbers) ==
        FlattenSeq([i \in DOMAIN names |->
                      IF (types[i] \in {"double", "integer"}) = numbers
                      THEN <<names[i]>> ELSE <<>>])
  IN [unused_float |-> named(TRUE), unused_string |-> named(FALSE)]

make_statement(name, dialect, names, types) ==
  CASE dialect = "mysql"    -> make_statement_mysql(name, names, types)
    [] dialect = "postgres" -> make_statement_postgres(name, names, types)
    [] dialect = "python"   -> make_statement_python(names, types)
    [] dialect = "sqlite3"  -> make_statement_sqlite(name, names, types)

-----------------------------------------------------------------------------
(* io::Sniffer *)

is_int(str) == to_int(str).success
is_double(str) == to_double(str).success

infer_datatype(type, str) ==
  IF type \in {"integer", "unknown"} /\ is_int(str) THEN "integer"
  ELSE IF type # "string" /\ (is_double(str) \/ is_int(str)) THEN "double"
  ELSE "string"

make_reader(names, text, num_lines_sniffed, skip, quotechar, sep) ==
  CSVReader(names, text, num_lines_sniffed + skip, quotechar, sep)

\* Makes sure that the files have the same columns.
check(csv_colnames, names) == csv_colnames = names

\* Empty lines do not count among the lines skipped.
sniff_file(types, lines, skip) ==
  LET counted == Kept(lines, Range(lines) \ {<<>>})
      used == Kept(SubSeq(counted, skip + 1, Len(counted)),
                   {line \in Range(lines) : Len(line) = Len(types)})
      inferred[n \in 0..Len(used)] ==
        IF n = 0 THEN types
        ELSE LET ts == inferred[n - 1]
             IN [i \in DOMAIN ts |-> infer_datatype(ts[i], used[n][i])]
  IN inferred[Len(used)]

\* The types found in the files, or a failure.
sniff(names, texts, num_lines_sniffed, skip, quotechar, sep) ==
  LET one(st, text) ==
        LET opened == colnames(make_reader(names, text, num_lines_sniffed, skip,
                                           quotechar, sep))
            first == st.names = <<>>
            found == IF first THEN opened.line ELSE st.names
            types == IF first THEN [i \in DOMAIN found |-> "unknown"] ELSE st.types
        IN IF st.failed \/ (~first /\ ~check(opened.line, st.names))
           THEN [st EXCEPT !.failed = TRUE]
           ELSE [st EXCEPT !.names = found,
                           !.types = sniff_file(types, rest(opened.reader), skip)]
      sniffed[n \in 0..Len(texts)] ==
        IF n = 0 THEN [names |-> <<>>, types |-> <<>>, failed |-> texts = <<>>]
        ELSE one(sniffed[n - 1], texts[n])
  IN sniffed[Len(texts)]

=============================================================================
