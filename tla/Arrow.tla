-------------------------------- MODULE Arrow --------------------------------
(***************************************************************************)
(* How columns become arrow arrays and arrow arrays become columns:        *)
(* containers::ArrayMaker and engine/handlers/ArrowHandler.cpp.            *)
(*                                                                         *)
(* An array is a sequence of chunks.  A chunk has a type and cells; a cell *)
(* is null or holds a value, which for a dictionary is an index into       *)
(* another chunk.  Numbers are counted in ticks, like in Formats, and      *)
(* times in the units of their type; the smaller units are larger here     *)
(* than they are.                                                          *)
(***************************************************************************)
EXTENDS Formats

CONSTANTS MAX_CHUNKSIZE,   \* 100000
          INT64_MAX,       \* the largest number of nanoseconds
          Nanos(_),        \* a time stamp, multiplied and cut to nanoseconds
          Multiplied(_, _) \* a number of units of a type, multiplied to seconds

NullCell == [null |-> TRUE, val |-> 0]
Cell(val) == [null |-> FALSE, val |-> val]

Chunk(type, cells) == [type |-> type, cells |-> cells, dictionary |-> <<>>]

DictionaryChunk(indices, dictionary) ==
  [type |-> "dictionary", cells |-> indices, dictionary |-> <<dictionary>>]

\* Units of a type per tick, and ticks per unit.
PerTick ==
  [timestamp_ms |-> 1, timestamp_us |-> 10, timestamp_ns |-> 100,
   time32_ms |-> 1, time64_us |-> 10, time64_ns |-> 100, date64 |-> 1]

PerUnit == [timestamp_s |-> ONE, time32_s |-> ONE, date32 |-> DAY]

TimeTypes == DOMAIN PerTick \cup DOMAIN PerUnit
FloatTypes == {"float16", "float32", "float64"}
IntTypes == {"uint8", "int8", "uint16", "int16", "uint32", "int32", "uint64", "int64",
             "duration"}
StringTypes == {"utf8", "large_utf8", "binary", "large_binary", "fixed_size_binary"}
Supported == {"boolean", "dictionary", "null"}
               \cup FloatTypes \cup IntTypes \cup StringTypes \cup TimeTypes

-----------------------------------------------------------------------------
(* containers::ArrayMaker *)

make_chunks(type, data, append_function(_)) ==
  IF data = <<>> THEN <<Chunk(type, <<>>)>>
  ELSE [k \in 1..((Len(data) + MAX_CHUNKSIZE - 1) \div MAX_CHUNKSIZE) |->
          LET batch == SubSeq(data, (k - 1) * MAX_CHUNKSIZE + 1,
                              Min({k * MAX_CHUNKSIZE, Len(data)}))
          IN Chunk(type, [i \in DOMAIN batch |-> append_function(batch[i])])]

make_float_array(data) ==
  make_chunks("float64", data, LAMBDA val : IF val = NAN THEN NullCell ELSE Cell(val))

\* Null is what means NULL, and what is not UTF-8.
make_string_array(data) ==
  make_chunks("utf8", data, LAMBDA str : IF \/ parse_null(str_of(str)) = NULL
                                            \/ BYTES \in Range(str_of(str))
                                         THEN NullCell ELSE Cell(str))

\* What does not fit becomes the smallest number there is (x86).
make_time_stamp_array(data) ==
  make_chunks("timestamp_ns", data,
              LAMBDA val : IF val = NAN THEN NullCell
                           ELSE Cell(IF Nanos(val) <= INT64_MAX THEN Nanos(val)
                                     ELSE -INT64_MAX))

-----------------------------------------------------------------------------
(* A cell of a float column: one of these is not empty.                     *)

write_boolean_to_float_column(chunk, i) ==
  IF chunk.type # "boolean" THEN <<>>
  ELSE IF chunk.cells[i].null THEN <<NAN>>
  ELSE IF chunk.cells[i].val = 1 THEN <<ONE>> ELSE <<0>>

write_null_to_float_column(chunk, i) == IF chunk.type # "null" THEN <<>> ELSE <<NAN>>

\* A duration is read as a number, whatever its unit, and the value of a half
\* float is the number its 16 bits make.
write_numeric_to_float_column(chunk, i) ==
  IF chunk.type \notin FloatTypes \cup IntTypes THEN <<>>
  ELSE IF chunk.cells[i].null THEN <<NAN>> ELSE <<chunk.cells[i].val>>

write_string_to_float_column(chunk, i) ==
  IF chunk.type \notin StringTypes THEN <<>>
  ELSE IF chunk.cells[i].null THEN <<NAN>> ELSE <<get_double(chunk.cells[i].val)>>

\* Seconds and days are multiplied by whole numbers, the rest by fractions.
seconds(chunk, i) ==
  IF chunk.type \in DOMAIN PerUnit THEN chunk.cells[i].val * PerUnit[chunk.type]
  ELSE Multiplied(chunk.type, chunk.cells[i].val)

write_time_to_float_column(chunk, i) ==
  IF chunk.type \notin TimeTypes THEN <<>>
  ELSE IF chunk.cells[i].null THEN <<NAN>> ELSE <<seconds(chunk, i)>>

\* A dictionary holds no dictionaries.
plain_to_float_column(chunk, i) ==
  write_boolean_to_float_column(chunk, i) \o write_null_to_float_column(chunk, i)
    \o write_numeric_to_float_column(chunk, i) \o write_string_to_float_column(chunk, i)
    \o write_time_to_float_column(chunk, i)

write_dict_to_float_column(chunk, i) ==
  IF chunk.type # "dictionary" THEN <<>>
  ELSE IF chunk.cells[i].null THEN <<NAN>>
  ELSE plain_to_float_column(chunk.dictionary[1], chunk.cells[i].val)

write_to_float_column(chunk, i) ==
  Head(write_dict_to_float_column(chunk, i) \o plain_to_float_column(chunk, i))

-----------------------------------------------------------------------------
(* A cell of a string column.  A string stays what it is: one that means    *)
(* NULL in a CSV file does not become a null string here.                   *)

write_boolean_to_string_column(chunk, i) ==
  IF chunk.type # "boolean" THEN <<>>
  ELSE IF chunk.cells[i].null THEN <<NULL>>
  ELSE IF chunk.cells[i].val = 1 THEN <<<<Word("true")>>>> ELSE <<<<Word("false")>>>>

write_float_to_string_column(chunk, i) ==
  IF chunk.type \notin FloatTypes THEN <<>>
  ELSE IF chunk.cells[i].null THEN <<NULL>>
  ELSE <<to_string(chunk.cells[i].val)>>

write_int_to_string_column(chunk, i) ==
  IF chunk.type \notin IntTypes THEN <<>>
  ELSE IF chunk.cells[i].null THEN <<NULL>> ELSE <<<<Number(chunk.cells[i].val)>>>>

write_null_to_string_column(chunk, i) == IF chunk.type # "null" THEN <<>> ELSE <<NULL>>

write_string_to_string_column(chunk, i) ==
  IF chunk.type \notin StringTypes THEN <<>>
  ELSE IF chunk.cells[i].null THEN <<NULL>> ELSE <<chunk.cells[i].val>>

write_time_to_string_column(chunk, i) ==
  IF chunk.type \notin TimeTypes THEN <<>>
  ELSE IF chunk.cells[i].null THEN <<NULL>> ELSE <<ts_to_string(seconds(chunk, i))>>

plain_to_string_column(chunk, i) ==
  write_boolean_to_string_column(chunk, i) \o write_float_to_string_column(chunk, i)
    \o write_int_to_string_column(chunk, i) \o write_null_to_string_column(chunk, i)
    \o write_string_to_string_column(chunk, i) \o write_time_to_string_column(chunk, i)

write_dict_to_string_column(chunk, i) ==
  IF chunk.type # "dictionary" THEN <<>>
  ELSE IF chunk.cells[i].null THEN <<NULL>>
  ELSE plain_to_string_column(chunk.dictionary[1], chunk.cells[i].val)

write_to_string_column(chunk, i) ==
  Head(write_dict_to_string_column(chunk, i) \o plain_to_string_column(chunk, i))

-----------------------------------------------------------------------------
(* A column *)

can_read(arr) == \A k \in DOMAIN arr : arr[k].type \in Supported

to_column(arr, at(_, _)) ==
  FlattenSeq([k \in DOMAIN arr |->
                [i \in DOMAIN arr[k].cells |-> at(arr[k], i)]])

to_float_column(arr) == to_column(arr, write_to_float_column)

to_string_column(arr) == to_column(arr, write_to_string_column)

parse_compression(compression) ==
  compression \in {"brotli", "gzip", "lz4", "snappy", "zstd"}

=============================================================================
