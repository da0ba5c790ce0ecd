----------------------------- MODULE Import_proofs -----------------------------
(***************************************************************************)
(* Proofs about Import: a cell comes back from CSV files, JSON, a table of *)
(* a database or an arrow table as its text there says, or but for its     *)
(* last place, and what the sniffer takes for numbers is read as numbers.  *)
(*                                                                         *)
(* A column of an arrow table is joined from what is read of the cells of  *)
(* its chunks.  Cut says where the chunks begin in it; what is true of the *)
(* cells of every chunk is then true of the column, whoever laid it out.   *)
(*                                                                         *)
(* A CSV file is a sequence of characters that is joined of lines, and a   *)
(* line is joined of fields; the parsers go over both one character after  *)
(* the other.  Where the words lie in what is joined is known (WordsEnd,   *)
(* WordsFollow), and a parser that is at the beginning of a word has the   *)
(* word at its end: so lines_of finds the lines that were written, and     *)
(* fields_of their fields.  The rows that are read of a file are then a    *)
(* part of the rows of its batch, and the columns of all files, appended,  *)
(* are joined of these parts.                                              *)
(*                                                                         *)
(* The sniffer goes over fields and over files, and the type of a column   *)
(* never goes back from string: whatever is a number in the end has been   *)
(* one in every field.                                                     *)
(*                                                                         *)
(* The inductive invariant says of what is written that it was written of  *)
(* the data frame, and of the copy that it survives.                       *)
(***************************************************************************)
EXTENDS Import, RecursionTheorems, SequenceTheorems, FiniteSetTheorems

-----------------------------------------------------------------------------
(* Arrow tables: how a sequence is put together from pieces *)

\* The cells of an array, and where its chunks begin.
Cut(arr, n, b, len) ==
  /\ n \in Nat /\ DOMAIN arr = 1 .. n
  /\ b \in [0 .. n -> Nat] /\ b[0] = 0 /\ b[n] = len
  /\ \A k \in 1 .. n : b[k - 1] <= b[k] /\ DOMAIN arr[k].cells = 1 .. (b[k] - b[k - 1])

\* Cells lie within.
Reaches(n, b, len) ==
  \A k \in 1 .. n : \A i \in 1 .. (b[k] - b[k - 1]) :
    b[k - 1] + i \in 1 .. len /\ b[k - 1] \in Nat /\ b[k] \in Nat

\* A place in a chunk is a place in the array.
LEMMA CutsReach ==
  ASSUME NEW arr, NEW n, NEW b, NEW len \in Nat, Cut(arr, n, b, len)
  PROVE  Reaches(n, b, len)
<1>1. \A k \in 0 .. n : b[k] <= len
  BY CutsGrow DEF Cut
<1>3. ASSUME NEW k \in 1 .. n, NEW i \in 1 .. (b[k] - b[k - 1])
      PROVE  b[k - 1] + i \in 1 .. len /\ b[k - 1] \in Nat /\ b[k] \in Nat
  <2>2. b[k] <= len /\ b[k - 1] \in Nat /\ b[k] \in Nat
    BY <1>1 DEF Cut
  <2> QED
    BY <2>2
<1> QED
  BY <1>3 DEF Reaches

\* A column of an array has what is read of each cell of each chunk.
LEMMA FloatsRead ==
  ASSUME NEW arr, NEW n, NEW b, NEW len \in Nat, Cut(arr, n, b, len), NEW allowed,
         \A k \in 1 .. n : \A i \in 1 .. (b[k] - b[k - 1]) :
           write_to_float_column(arr[k], i) \in allowed[b[k - 1] + i]
  PROVE  /\ DOMAIN to_float_column(arr) = 1 .. len
         /\ to_float_column(arr) \in Seq(UNION {allowed[m] : m \in 1 .. len})
         /\ \A m \in 1 .. len : to_float_column(arr)[m] \in allowed[m]
<1> DEFINE at(k, i) == write_to_float_column(arr[k], i)
           seqs == [k \in 1 .. n |-> [i \in 1 .. (b[k] - b[k - 1]) |-> at(k, i)]]
           S == UNION {allowed[m] : m \in 1 .. len}
<1>1. to_float_column(arr) = FlattenSeq(seqs)
  <2>1. seqs = [k \in DOMAIN arr |-> [i \in DOMAIN arr[k].cells |-> at(k, i)]]
    BY DEF Cut
  <2> QED
    BY <2>1 DEF to_float_column, to_column
<1> HIDE DEF at
<1>2. \A k \in 1 .. n : b[k - 1] \in Nat /\ b[k] \in Nat /\ b[k] - b[k - 1] \in Nat
  BY DEF Cut
<1>3. \A k \in 0 .. n : b[k] <= len
  BY CutsGrow DEF Cut
<1>4. \A k \in 1 .. n : \A i \in 1 .. (b[k] - b[k - 1]) :
        b[k - 1] + i \in 1 .. len /\ at(k, i) \in allowed[b[k - 1] + i]
  <2> TAKE k \in 1 .. n
  <2> TAKE i \in 1 .. (b[k] - b[k - 1])
  <2>1. b[k] <= len
    BY <1>3
  <2> QED
    BY <1>2, <2>1 DEF at
<1>5. \A k \in 1 .. n : seqs[k] \in Seq(S) /\ Len(seqs[k]) = b[k] - b[k - 1]
  <2> TAKE k \in 1 .. n
  <2> DEFINE m == b[k] - b[k - 1]
  <2>1. m \in Nat
    BY <1>2
  <2>2. \A i \in 1 .. m : at(k, i) \in S
    BY <1>4
  <2>3. seqs[k] = [i \in 1 .. m |-> at(k, i)]
    OBVIOUS
  <2> HIDE DEF seqs, S, m
  <2>4. seqs[k] \in Seq(S) /\ Len(seqs[k]) = m
    BY ONLY <2>1, <2>2, <2>3
  <2> QED
    BY <2>4 DEF m
<1>6. n \in Nat /\ seqs \in Seq(Seq(S)) /\ Len(seqs) = n
  <2>1. n \in Nat
    BY DEF Cut
  <2>2. seqs \in [1 .. n -> Seq(S)]
    <3> HIDE DEF S
    <3>1. \A k \in 1 .. n : seqs[k] \in Seq(S)
      BY <1>5
    <3> QED
      BY <3>1
  <2> HIDE DEF seqs, S
  <2> QED
    BY <2>1, <2>2
<1>7. Joins(seqs, n, b)
  <2> HIDE DEF seqs, S
  <2>1. \A k \in 1 .. n : b[k] = b[k - 1] + Len(seqs[k])
    <3> TAKE k \in 1 .. n
    <3>1. Len(seqs[k]) = b[k] - b[k - 1] /\ b[k] \in Nat /\ b[k - 1] \in Nat
      BY <1>2, <1>5
    <3> QED
      BY ONLY <3>1
  <2> QED
    BY <2>1 DEF Joins, Cut
<1>8. /\ FlattenSeq(seqs) \in Seq(S) /\ Len(FlattenSeq(seqs)) = b[n]
      /\ \A m \in 1 .. b[n] : \E k \in 1 .. n : \E i \in 1 .. Len(seqs[k]) :
           m = b[k - 1] + i /\ FlattenSeq(seqs)[m] = seqs[k][i]
  <2> HIDE DEF seqs, S
  <2>1. FlattenSeq(seqs) \in Seq(S) /\ IsJoined(FlattenSeq(seqs), seqs, n, b)
    BY <1>6, <1>7, JoinedAt
  <2> QED
    BY <2>1 DEF IsJoined
<1>9. ASSUME NEW m \in 1 .. len PROVE FlattenSeq(seqs)[m] \in allowed[m]
  <2>0. PICK k \in 1 .. n : \E i \in 1 .. Len(seqs[k]) :
          m = b[k - 1] + i /\ FlattenSeq(seqs)[m] = seqs[k][i]
    BY <1>8 DEF Cut
  <2>1. PICK i \in 1 .. Len(seqs[k]) :
          m = b[k - 1] + i /\ FlattenSeq(seqs)[m] = seqs[k][i]
    BY <2>0
  <2>2. i \in 1 .. (b[k] - b[k - 1])
    BY <1>5
  <2>3. seqs[k][i] = at(k, i)
    BY <2>2
  <2> QED
    BY <1>4, <2>1, <2>2, <2>3
<1>10. b[n] = len
  BY DEF Cut
<1> HIDE DEF seqs, S
<1>11. DOMAIN FlattenSeq(seqs) = 1 .. len
  BY <1>8, <1>10
<1> QED
  BY <1>1, <1>8, <1>9, <1>11 DEF S

\* The same for strings.
LEMMA StringsRead ==
  ASSUME NEW arr, NEW n, NEW b, NEW len \in Nat, Cut(arr, n, b, len), NEW allowed,
         \A k \in 1 .. n : \A i \in 1 .. (b[k] - b[k - 1]) :
           write_to_string_column(arr[k], i) \in allowed[b[k - 1] + i]
  PROVE  /\ DOMAIN to_string_column(arr) = 1 .. len
         /\ to_string_column(arr) \in Seq(UNION {allowed[m] : m \in 1 .. len})
         /\ \A m \in 1 .. len : to_string_column(arr)[m] \in allowed[m]
<1> DEFINE at(k, i) == write_to_string_column(arr[k], i)
           seqs == [k \in 1 .. n |-> [i \in 1 .. (b[k] - b[k - 1]) |-> at(k, i)]]
           S == UNION {allowed[m] : m \in 1 .. len}
<1>1. to_string_column(arr) = FlattenSeq(seqs)
  <2>1. seqs = [k \in DOMAIN arr |-> [i \in DOMAIN arr[k].cells |-> at(k, i)]]
    BY DEF Cut
  <2> QED
    BY <2>1 DEF to_string_column, to_column
<1> HIDE DEF at
<1>2. \A k \in 1 .. n : b[k - 1] \in Nat /\ b[k] \in Nat /\ b[k] - b[k - 1] \in Nat
  BY DEF Cut
<1>3. \A k \in 0 .. n : b[k] <= len
  BY CutsGrow DEF Cut
<1>4. \A k \in 1 .. n : \A i \in 1 .. (b[k] - b[k - 1]) :
        b[k - 1] + i \in 1 .. len /\ at(k, i) \in allowed[b[k - 1] + i]
  <2> TAKE k \in 1 .. n
  <2> TAKE i \in 1 .. (b[k] - b[k - 1])
  <2>1. b[k] <= len
    BY <1>3
  <2> QED
    BY <1>2, <2>1 DEF at
<1>5. \A k \in 1 .. n : seqs[k] \in Seq(S) /\ Len(seqs[k]) = b[k] - b[k - 1]
  <2> TAKE k \in 1 .. n
  <2> DEFINE m == b[k] - b[k - 1]
  <2>1. m \in Nat
    BY <1>2
  <2>2. \A i \in 1 .. m : at(k, i) \in S
    BY <1>4
  <2>3. seqs[k] = [i \in 1 .. m |-> at(k, i)]
    OBVIOUS
  <2> HIDE DEF seqs, S, m
  <2>4. seqs[k] \in Seq(S) /\ Len(seqs[k]) = m
    BY ONLY <2>1, <2>2, <2>3
  <2> QED
    BY <2>4 DEF m
<1>6. n \in Nat /\ seqs \in Seq(Seq(S)) /\ Len(seqs) = n
  <2>1. n \in Nat
    BY DEF Cut
  <2>2. seqs \in [1 .. n -> Seq(S)]
    <3> HIDE DEF S
    <3>1. \A k \in 1 .. n : seqs[k] \in Seq(S)
      BY <1>5
    <3> QED
      BY <3>1
  <2> HIDE DEF seqs, S
  <2> QED
    BY <2>1, <2>2
<1>7. Joins(seqs, n, b)
  <2> HIDE DEF seqs, S
  <2>1. \A k \in 1 .. n : b[k] = b[k - 1] + Len(seqs[k])
    <3> TAKE k \in 1 .. n
    <3>1. Len(seqs[k]) = b[k] - b[k - 1] /\ b[k] \in Nat /\ b[k - 1] \in Nat
      BY <1>2, <1>5
    <3> QED
      BY ONLY <3>1
  <2> QED
    BY <2>1 DEF Joins, Cut
<1>8. /\ FlattenSeq(seqs) \in Seq(S) /\ Len(FlattenSeq(seqs)) = b[n]
      /\ \A m \in 1 .. b[n] : \E k \in 1 .. n : \E i \in 1 .. Len(seqs[k]) :
           m = b[k - 1] + i /\ FlattenSeq(seqs)[m] = seqs[k][i]
  <2> HIDE DEF seqs, S
  <2>1. FlattenSeq(seqs) \in Seq(S) /\ IsJoined(FlattenSeq(seqs), seqs, n, b)
    BY <1>6, <1>7, JoinedAt
  <2> QED
    BY <2>1 DEF IsJoined
<1>9. ASSUME NEW m \in 1 .. len PROVE FlattenSeq(seqs)[m] \in allowed[m]
  <2>0. PICK k \in 1 .. n : \E i \in 1 .. Len(seqs[k]) :
          m = b[k - 1] + i /\ FlattenSeq(seqs)[m] = seqs[k][i]
    BY <1>8 DEF Cut
  <2>1. PICK i \in 1 .. Len(seqs[k]) :
          m = b[k - 1] + i /\ FlattenSeq(seqs)[m] = seqs[k][i]
    BY <2>0
  <2>2. i \in 1 .. (b[k] - b[k - 1])
    BY <1>5
  <2>3. seqs[k][i] = at(k, i)
    BY <2>2
  <2> QED
    BY <1>4, <2>1, <2>2, <2>3
<1>10. b[n] = len
  BY DEF Cut
<1> HIDE DEF seqs, S
<1>11. DOMAIN FlattenSeq(seqs) = 1 .. len
  BY <1>8, <1>10
<1> QED
  BY <1>1, <1>8, <1>9, <1>11 DEF S

-----------------------------------------------------------------------------
(* Arrow tables: the cells *)

Numbers == {NAN} \cup Nat

\* What may be read for a number.
Allowed(v, exact) == IF v = NAN \/ exact THEN {v} ELSE Near(v, ULP)

\* What a number may be written as.
TextsOf(v) ==
  IF v = NAN THEN {NULL}
  ELSE {<<Number(w)>> : w \in Near(v, DIGIT)} \cup {ts_to_string(w) : w \in Near(v, ULP)}

IsNumberCell(chunk, i, v, exact) ==
  /\ write_to_float_column(chunk, i) \in Allowed(v, exact)
  /\ write_to_string_column(chunk, i) \in TextsOf(v)

HoldsNumber(field, v, raw) ==
  field = IF v = NAN THEN NullCell ELSE Cell(raw)

\* A number is near to itself.
LEMMA NearItself ==
  ASSUME NEW v \in Nat, NEW error \in Nat
  PROVE  v \in Near(v, error)
BY DEF Near

LEMMA NearIsNat ==
  ASSUME NEW v \in Nat, NEW error \in Nat
  PROVE  Near(v, error) \subseteq Nat /\ NAN \notin Near(v, error)
BY DEF Near, NAN

\* What is allowed is a number.
LEMMA AllowedNumbers ==
  ASSUME NEW v \in Numbers, NEW exact
  PROVE  v \in Allowed(v, exact) /\ Allowed(v, exact) \subseteq Numbers
BY NearItself, NearIsNat, RoundingAssumption DEF Allowed, Numbers

\* The columns take one value from a cell: the first of a sequence of one.
LEMMA OneIsFirst ==
  ASSUME NEW x
  PROVE  /\ <<x>> \o <<>> = <<x>> /\ <<>> \o <<x>> = <<x>> /\ <<>> \o <<>> = <<>>
         /\ Head(<<x>>) = x
<1>1. <<x>> \in Seq({x}) /\ <<>> \in Seq({x})
  OBVIOUS
<1>2. <<x>> \o <<>> = <<x>> /\ <<>> \o <<x>> = <<x>> /\ <<>> \o <<>> = <<>>
  BY <1>1, ConcatEmptySeq
<1> QED
  BY <1>2

\* How plain cells of numbers are read, by their type.
LEMMA NumericCell ==
  ASSUME NEW chunk, NEW i, NEW v \in Rounded, chunk.type \in {"float64", "int64"},
         HoldsNumber(chunk.cells[i], v, v)
  PROVE  /\ plain_to_float_column(chunk, i) = <<v>>
         /\ \E text \in TextsOf(v) : plain_to_string_column(chunk, i) = <<text>>
<1>1. write_numeric_to_float_column(chunk, i) = <<v>>
  BY DEF write_numeric_to_float_column, HoldsNumber, NAN,
         NullCell, Cell, FloatTypes, IntTypes
<1>2. /\ write_boolean_to_float_column(chunk, i) = <<>>
      /\ write_null_to_float_column(chunk, i) = <<>>
      /\ write_string_to_float_column(chunk, i) = <<>>
      /\ write_time_to_float_column(chunk, i) = <<>>
  BY DEF write_boolean_to_float_column, write_null_to_float_column,
         write_string_to_float_column, write_time_to_float_column,
         StringTypes, TimeTypes, PerTick, PerUnit
<1>3. plain_to_float_column(chunk, i) = <<v>>
  BY <1>1, <1>2, OneIsFirst DEF plain_to_float_column
<1>4. /\ write_boolean_to_string_column(chunk, i) = <<>>
      /\ write_null_to_string_column(chunk, i) = <<>>
      /\ write_string_to_string_column(chunk, i) = <<>>
      /\ write_time_to_string_column(chunk, i) = <<>>
  BY DEF write_boolean_to_string_column, write_null_to_string_column,
         write_string_to_string_column, write_time_to_string_column,
         StringTypes, TimeTypes, PerTick, PerUnit
<1>7. v # NAN => v \in Nat /\ v \in Near(v, DIGIT) /\ Decimals(v) \in Near(v, DIGIT)
  BY NearItself, RoundingAssumption DEF Rounded, Rounds
<1>5. CASE chunk.type = "float64"
  <2> DEFINE text == IF v = NAN THEN NULL ELSE <<Number(Decimals(v))>>
  <2>1. /\ write_float_to_string_column(chunk, i) = <<text>>
        /\ write_int_to_string_column(chunk, i) = <<>>
    BY <1>5 DEF write_float_to_string_column, write_int_to_string_column,
         HoldsNumber, NAN, to_string,
         NullCell, Cell, FloatTypes, IntTypes
  <2>2. plain_to_string_column(chunk, i) = <<text>>
    <3> HIDE DEF text
    <3> QED
      BY <1>4, <2>1, OneIsFirst DEF plain_to_string_column
  <2>3. text \in TextsOf(v)
    BY <1>7 DEF TextsOf
  <2> QED
    BY <1>3, <2>2, <2>3
<1>6. CASE chunk.type = "int64"
  <2> DEFINE text == IF v = NAN THEN NULL ELSE <<Number(v)>>
  <2>1. /\ write_int_to_string_column(chunk, i) = <<text>>
        /\ write_float_to_string_column(chunk, i) = <<>>
    BY <1>6 DEF write_float_to_string_column, write_int_to_string_column,
         HoldsNumber, NAN,
         NullCell, Cell, FloatTypes, IntTypes
  <2>2. plain_to_string_column(chunk, i) = <<text>>
    <3> HIDE DEF text
    <3> QED
      BY <1>4, <2>1, OneIsFirst DEF plain_to_string_column
  <2>3. text \in TextsOf(v)
    BY <1>7 DEF TextsOf
  <2> QED
    BY <1>3, <2>2, <2>3
<1> QED
  BY <1>5, <1>6

TakesTime(type, raw, v) == v # NAN => Multiplied(type, raw) \in Near(v, ULP)

ReadsTime(chunk, i, v) ==
  /\ \E w \in Allowed(v, FALSE) : plain_to_float_column(chunk, i) = <<w>>
  /\ \E text \in TextsOf(v) : plain_to_string_column(chunk, i) = <<text>>

\* A time stamp comes back from its cell in any unit that arrow has for it, but for
\* its last place, and as a text that says it.
LEMMA TimeCell ==
  ASSUME NEW chunk, NEW i, NEW v \in Rounded, NEW raw,
         chunk.type \in {"timestamp_ns", "timestamp_us", "time32_ms"},
         HoldsNumber(chunk.cells[i], v, raw),
         TakesTime(chunk.type, raw, v)
  PROVE  ReadsTime(chunk, i, v)
<1> DEFINE w == IF v = NAN THEN NAN ELSE Multiplied(chunk.type, raw)
<1>0. chunk.type \in TimeTypes /\ chunk.type \notin DOMAIN PerUnit
  BY DEF TimeTypes, PerTick, PerUnit
<1>1. v # NAN => seconds(chunk, i) = Multiplied(chunk.type, raw)
  BY <1>0 DEF seconds, HoldsNumber, Cell
<1>2. chunk.cells[i].null <=> v = NAN
  <2>1. CASE v = NAN
    <3>1. chunk.cells[i].null = TRUE
      BY <2>1 DEF HoldsNumber, NullCell
    <3> QED
      BY <2>1, <3>1
  <2>2. CASE v # NAN
    <3>1. chunk.cells[i].null = FALSE
      BY <2>2 DEF HoldsNumber, Cell
    <3> QED
      BY <2>2, <3>1
  <2> QED
    BY <2>1, <2>2
<1>3. write_time_to_float_column(chunk, i) = <<w>>
  BY <1>0, <1>1, <1>2 DEF write_time_to_float_column
<1> DEFINE text == IF v = NAN THEN NULL ELSE ts_to_string(w)
<1>4. write_time_to_string_column(chunk, i) = <<text>>
  BY <1>0, <1>1, <1>2 DEF write_time_to_string_column
<1>5. /\ write_boolean_to_float_column(chunk, i) = <<>>
      /\ write_null_to_float_column(chunk, i) = <<>>
      /\ write_string_to_float_column(chunk, i) = <<>>
      /\ write_numeric_to_float_column(chunk, i) = <<>>
  BY DEF write_boolean_to_float_column, write_null_to_float_column,
         write_string_to_float_column, write_numeric_to_float_column,
         StringTypes, FloatTypes, IntTypes
<1>6. /\ write_boolean_to_string_column(chunk, i) = <<>>
      /\ write_null_to_string_column(chunk, i) = <<>>
      /\ write_string_to_string_column(chunk, i) = <<>>
      /\ write_float_to_string_column(chunk, i) = <<>>
      /\ write_int_to_string_column(chunk, i) = <<>>
  BY DEF write_boolean_to_string_column, write_null_to_string_column,
         write_string_to_string_column, write_float_to_string_column,
         write_int_to_string_column,
         StringTypes, FloatTypes, IntTypes
<1>7. plain_to_float_column(chunk, i) = <<w>>
  <2> HIDE DEF w
  <2> QED
    BY <1>3, <1>5, OneIsFirst DEF plain_to_float_column
<1>10. w \in Allowed(v, FALSE)
  BY DEF Allowed, TakesTime
<1>8. text \in TextsOf(v)
  BY DEF TextsOf, TakesTime
<1>9. plain_to_string_column(chunk, i) = <<text>>
  <2> HIDE DEF text
  <2> QED
    BY <1>4, <1>6, OneIsFirst DEF plain_to_string_column
<1> QED
  BY <1>7, <1>8, <1>9, <1>10 DEF ReadsTime

\* A cell of a chunk that is no dictionary is read as a plain one.
LEMMA PlainCell ==
  ASSUME NEW chunk, NEW i, NEW v, NEW exact, chunk.type # "dictionary",
         \E w \in Allowed(v, exact) : plain_to_float_column(chunk, i) = <<w>>,
         \E text \in TextsOf(v) : plain_to_string_column(chunk, i) = <<text>>
  PROVE  IsNumberCell(chunk, i, v, exact)
<1>1. /\ write_dict_to_float_column(chunk, i) = <<>>
      /\ write_dict_to_string_column(chunk, i) = <<>>
  BY DEF write_dict_to_float_column, write_dict_to_string_column
<1>2. PICK text \in TextsOf(v) : plain_to_string_column(chunk, i) = <<text>>
  OBVIOUS
<1>5. PICK w \in Allowed(v, exact) : plain_to_float_column(chunk, i) = <<w>>
  OBVIOUS
<1>3. write_to_float_column(chunk, i) = w
  BY <1>1, <1>5, OneIsFirst DEF write_to_float_column
<1>4. write_to_string_column(chunk, i) = text
  BY <1>1, <1>2, OneIsFirst DEF write_to_string_column
<1> QED
  BY <1>2, <1>3, <1>4, <1>5 DEF IsNumberCell

\* A cell of a dictionary is what it points at; it has nothing else.
LEMMA DictionaryCell ==
  ASSUME NEW chunk, NEW i, chunk.type = "dictionary"
  PROVE  /\ write_to_float_column(chunk, i) =
              IF chunk.cells[i].null THEN NAN
              ELSE Head(plain_to_float_column(chunk.dictionary[1], chunk.cells[i].val) \o <<>>)
         /\ write_to_string_column(chunk, i) =
              IF chunk.cells[i].null THEN NULL
              ELSE Head(plain_to_string_column(chunk.dictionary[1], chunk.cells[i].val) \o <<>>)
<1>1. /\ write_boolean_to_float_column(chunk, i) = <<>>
      /\ write_null_to_float_column(chunk, i) = <<>>
      /\ write_numeric_to_float_column(chunk, i) = <<>>
      /\ write_string_to_float_column(chunk, i) = <<>>
      /\ write_time_to_float_column(chunk, i) = <<>>
  BY DEF write_boolean_to_float_column, write_null_to_float_column,
         write_string_to_float_column, write_time_to_float_column,
         write_numeric_to_float_column, FloatTypes, IntTypes,
         StringTypes, TimeTypes, PerTick, PerUnit
<1>2. /\ write_boolean_to_string_column(chunk, i) = <<>>
      /\ write_float_to_string_column(chunk, i) = <<>>
      /\ write_int_to_string_column(chunk, i) = <<>>
      /\ write_null_to_string_column(chunk, i) = <<>>
      /\ write_string_to_string_column(chunk, i) = <<>>
      /\ write_time_to_string_column(chunk, i) = <<>>
  BY DEF write_boolean_to_string_column, write_null_to_string_column,
         write_string_to_string_column, write_time_to_string_column,
         write_float_to_string_column, write_int_to_string_column,
         FloatTypes, IntTypes,
         StringTypes, TimeTypes, PerTick, PerUnit
<1>3. /\ plain_to_float_column(chunk, i) = <<>>
      /\ plain_to_string_column(chunk, i) = <<>>
  BY <1>1, <1>2, OneIsFirst
     DEF plain_to_float_column, plain_to_string_column
<1>4. write_to_float_column(chunk, i) =
        Head(write_dict_to_float_column(chunk, i) \o <<>>)
  BY <1>3 DEF write_to_float_column
<1>5. write_to_string_column(chunk, i) =
        Head(write_dict_to_string_column(chunk, i) \o <<>>)
  BY <1>3 DEF write_to_string_column
<1>6. Head(<<NAN>> \o <<>>) = NAN /\ Head(<<NULL>> \o <<>>) = NULL
  BY OneIsFirst
<1> QED
  BY <1>4, <1>5, <1>6
     DEF write_dict_to_float_column, write_dict_to_string_column

\* Cells of strings: a null string is a null cell, or a chunk without values.
LEMMA StringCell ==
  ASSUME NEW chunk, NEW i, NEW str,
         \/ chunk.type = "null" /\ str = NULL
         \/ /\ chunk.type \in StringTypes
            /\ chunk.cells[i] = IF str = NULL THEN NullCell ELSE Cell(str)
         \/ chunk.type \in StringTypes /\ chunk.cells[i] = Cell(str)
  PROVE  /\ plain_to_string_column(chunk, i) = <<str>>
         /\ write_to_string_column(chunk, i) = str
<1>1. /\ write_boolean_to_string_column(chunk, i) = <<>>
      /\ write_float_to_string_column(chunk, i) = <<>>
      /\ write_int_to_string_column(chunk, i) = <<>>
      /\ write_time_to_string_column(chunk, i) = <<>>
      /\ write_dict_to_string_column(chunk, i) = <<>>
  BY DEF write_boolean_to_string_column, write_float_to_string_column,
         write_int_to_string_column, write_time_to_string_column,
         write_dict_to_string_column, FloatTypes, IntTypes,
         StringTypes, TimeTypes, PerTick, PerUnit
<1>2. \/ /\ write_null_to_string_column(chunk, i) = <<str>>
         /\ write_string_to_string_column(chunk, i) = <<>>
      \/ /\ write_null_to_string_column(chunk, i) = <<>>
         /\ write_string_to_string_column(chunk, i) = <<str>>
  BY DEF write_null_to_string_column, write_string_to_string_column,
         StringTypes, NullCell, Cell
<1>3. plain_to_string_column(chunk, i) = <<str>>
  BY <1>1, <1>2, OneIsFirst DEF plain_to_string_column
<1> QED
  BY <1>1, <1>3, OneIsFirst DEF write_to_string_column

-----------------------------------------------------------------------------
(* Arrow tables: the arrays *)

KeepsNumbers(arr, data, exact) ==
  /\ DOMAIN to_float_column(arr) = 1 .. Len(data)
  /\ to_float_column(arr) \in Seq(Numbers)
  /\ \A m \in 1 .. Len(data) : to_float_column(arr)[m] \in Allowed(data[m], exact)
  /\ DOMAIN to_string_column(arr) = 1 .. Len(data)
  /\ to_string_column(arr) \in Seq(UNION {TextsOf(data[m]) : m \in 1 .. Len(data)})
  /\ \A m \in 1 .. Len(data) : to_string_column(arr)[m] \in TextsOf(data[m])

KeepsStrings(arr, data) == to_string_column(arr) = data

\* What is read of the cells is what the column has.
AllNumbers(arr, n, b, data, exact) ==
  \A k \in 1 .. n : \A i \in 1 .. (b[k] - b[k - 1]) :
    IsNumberCell(arr[k], i, data[b[k - 1] + i], exact)

AllStrings(arr, n, b, data) ==
  \A k \in 1 .. n : \A i \in 1 .. (b[k] - b[k - 1]) :
    write_to_string_column(arr[k], i) = data[b[k - 1] + i]

\* An array whose cells give the numbers of a column gives the column.
LEMMA NumbersKept ==
  ASSUME NEW data \in Seq(Numbers), NEW arr, NEW n, NEW b, Cut(arr, n, b, Len(data)),
         NEW exact, AllNumbers(arr, n, b, data, exact)
  PROVE  KeepsNumbers(arr, data, exact)
<1> DEFINE len == Len(data)
           same == [m \in 1 .. len |-> Allowed(data[m], exact)]
           texts == [m \in 1 .. len |-> TextsOf(data[m])]
<1>1. len \in Nat
  OBVIOUS
<1>2. \A k \in 1 .. n : \A i \in 1 .. (b[k] - b[k - 1]) : b[k - 1] + i \in 1 .. len
  BY CutsReach DEF Reaches
<1>3. /\ DOMAIN to_float_column(arr) = 1 .. len
      /\ to_float_column(arr) \in Seq(UNION {same[m] : m \in 1 .. len})
      /\ \A m \in 1 .. len : to_float_column(arr)[m] \in same[m]
  <2>1. \A k \in 1 .. n : \A i \in 1 .. (b[k] - b[k - 1]) :
          write_to_float_column(arr[k], i) \in same[b[k - 1] + i]
    BY <1>2 DEF IsNumberCell, AllNumbers
  <2> HIDE DEF same
  <2> QED
    BY <1>1, <2>1, FloatsRead
<1>4. /\ DOMAIN to_string_column(arr) = 1 .. len
      /\ to_string_column(arr) \in Seq(UNION {texts[m] : m \in 1 .. len})
      /\ \A m \in 1 .. len : to_string_column(arr)[m] \in texts[m]
  <2>1. \A k \in 1 .. n : \A i \in 1 .. (b[k] - b[k - 1]) :
          write_to_string_column(arr[k], i) \in texts[b[k - 1] + i]
    BY <1>2 DEF IsNumberCell, AllNumbers
  <2> HIDE DEF texts
  <2> QED
    BY <1>1, <2>1, StringsRead
<1>5. to_float_column(arr) \in Seq(Numbers)
  <2>1. UNION {same[m] : m \in 1 .. len} \subseteq Numbers
    BY AllowedNumbers
  <2> DEFINE col == to_float_column(arr)
             T == UNION {same[m] : m \in 1 .. len}
  <2>2. col \in Seq(T)
    BY <1>3
  <2> HIDE DEF col, T
  <2> QED
    BY <2>1, <2>2 DEF col, T
<1>6. UNION {texts[m] : m \in 1 .. len} = UNION {TextsOf(data[m]) : m \in 1 .. len}
  OBVIOUS
<1>8. \A m \in 1 .. Len(data) : to_float_column(arr)[m] \in Allowed(data[m], exact)
  BY <1>3
<1>9. DOMAIN to_float_column(arr) = 1 .. len
  BY <1>3
<1>7. \A m \in 1 .. len : to_string_column(arr)[m] \in TextsOf(data[m])
  BY <1>4
<1> HIDE DEF texts, same
<1> QED
  BY <1>4, <1>5, <1>6, <1>7, <1>8, <1>9 DEF KeepsNumbers

\* The same for strings.
LEMMA StringsKept ==
  ASSUME NEW S, NEW data \in Seq(S), NEW arr, NEW n, NEW b, Cut(arr, n, b, Len(data)),
         AllStrings(arr, n, b, data)
  PROVE  KeepsStrings(arr, data)
<1> DEFINE len == Len(data)
           same == [m \in 1 .. len |-> {data[m]}]
           text == to_string_column(arr)
<1>1. len \in Nat
  OBVIOUS
<1>2. \A k \in 1 .. n : \A i \in 1 .. (b[k] - b[k - 1]) : b[k - 1] + i \in 1 .. len
  BY CutsReach DEF Reaches
<1>3. /\ DOMAIN to_string_column(arr) = 1 .. len
      /\ to_string_column(arr) \in Seq(UNION {same[m] : m \in 1 .. len})
      /\ \A m \in 1 .. len : to_string_column(arr)[m] \in same[m]
  <2>1. \A k \in 1 .. n : \A i \in 1 .. (b[k] - b[k - 1]) :
          write_to_string_column(arr[k], i) \in same[b[k - 1] + i]
    BY <1>2 DEF AllStrings
  <2> HIDE DEF same
  <2> QED
    BY <1>1, <2>1, StringsRead
<1>4. \A m \in 1 .. len : text[m] = data[m]
  BY <1>3
<1>7. DOMAIN text = 1 .. len /\ text \in Seq(UNION {same[m] : m \in 1 .. len})
  BY <1>3
<1> HIDE DEF text, same
<1>5. Len(text) = len
  BY <1>1, <1>7
<1>6. text = data
  BY <1>4, <1>5, <1>7
<1> QED
  BY <1>6 DEF KeepsStrings, text

\* An array may be a single chunk.
LEMMA OneChunk ==
  ASSUME NEW chunk, NEW len \in Nat, DOMAIN chunk.cells = 1 .. len
  PROVE  \E b : Cut(<<chunk>>, 1, b, len) /\ b[0] = 0 /\ b[1] = len
<1> DEFINE b == [k \in 0 .. 1 |-> IF k = 0 THEN 0 ELSE len]
<1>1. b \in [0 .. 1 -> Nat] /\ b[0] = 0 /\ b[1] = len
  OBVIOUS
<1> HIDE DEF b
<1>2. DOMAIN <<chunk>> = 1 .. 1 /\ <<chunk>>[1] = chunk
  OBVIOUS
<1>3. \A k \in 1 .. 1 : k = 1 /\ k - 1 = 0
  OBVIOUS
<1>4. Cut(<<chunk>>, 1, b, len)
  BY <1>1, <1>2, <1>3 DEF Cut
<1> QED
  BY <1>1, <1>4

\* The cells of the k-th of the chunks that columns are written in.
Batch(data, k) ==
  SubSeq(data, (k - 1) * MAX_CHUNKSIZE + 1, Min({k * MAX_CHUNKSIZE, Len(data)}))

NumBatches(data) == (Len(data) + MAX_CHUNKSIZE - 1) \div MAX_CHUNKSIZE

Batched(arr, data) ==
  /\ DOMAIN arr = 1 .. NumBatches(data)
  /\ \A k \in 1 .. NumBatches(data) : DOMAIN arr[k].cells = DOMAIN Batch(data, k)

BatchesAre(arr, b, data) ==
  \A k \in 1 .. NumBatches(data) : \A i \in 1 .. (b[k] - b[k - 1]) :
    i \in DOMAIN arr[k].cells /\ Batch(data, k)[i] = data[b[k - 1] + i]

\* Min of two numbers.
LEMMA TheSmaller ==
  ASSUME NEW x \in Int, NEW z \in Int
  PROVE  Min({x, z}) = IF x <= z THEN x ELSE z
<1>1. \E m \in {x, z} : \A w \in {x, z} : m <= w
  BY Z3
<1>2. Min({x, z}) \in {x, z} /\ \A w \in {x, z} : Min({x, z}) <= w
  BY <1>1 DEF Min
<1> QED
  BY <1>2

\* extract_arr cuts a column into chunks of MAX_CHUNKSIZE and one of what is left.
LEMMA BatchesCut ==
  ASSUME MAX_CHUNKSIZE \in Nat \ {0}, NEW S, NEW data \in Seq(S), data # <<>>,
         NEW arr, Batched(arr, data)
  PROVE  \E b : Cut(arr, NumBatches(data), b, Len(data)) /\ BatchesAre(arr, b, data)
<1> DEFINE M == MAX_CHUNKSIZE
           len == Len(data)
           n == NumBatches(data)
           end(k) == IF k * M <= len THEN k * M ELSE len
           b == [k \in 0 .. n |-> end(k)]
<1>1. M \in Nat /\ M > 0 /\ len \in Nat /\ len > 0
  OBVIOUS
<1> HIDE DEF M, len
<1>2. n = (len + M - 1) \div M
  BY DEF NumBatches, M, len
<1> HIDE DEF n
<1>3. n \in Nat /\ n * M >= len /\ (n - 1) * M < len
  <2>1. n \in Int /\ n * M <= len + M - 1 /\ len + M - 1 < (n + 1) * M
    BY <1>1, <1>2
  <2>2. (n + 1) * M = n * M + M /\ (n - 1) * M = n * M - M
    BY <1>1, <2>1
  <2>3. n * M >= len /\ (n - 1) * M < len
    BY <1>1, <2>1, <2>2
  <2>4. n >= 0
    <3> SUFFICES ASSUME n < 0 PROVE FALSE
      BY <2>1
    <3> DEFINE p == n * M
    <3>1. p <= 0
      BY <1>1, <2>1
    <3>2. p >= len /\ p \in Int
      BY <1>1, <2>1, <2>3
    <3> HIDE DEF p
    <3> QED
      BY <1>1, <3>1, <3>2
  <2> QED
    BY <2>1, <2>3, <2>4
<1>4. ASSUME NEW k \in 1 .. n PROVE (k - 1) * M < len /\ k * M = (k - 1) * M + M /\ (k - 1) * M \in Nat
  <2>1. (k - 1) * M <= (n - 1) * M
    BY <1>1, <1>3
  <2>2. (k - 1) * M \in Nat /\ (n - 1) * M \in Int /\ k * M = (k - 1) * M + M
    BY <1>1, <1>3
  <2> QED
    BY <1>1, <1>3, <2>1, <2>2
<1>5. b \in [0 .. n -> Nat] /\ b[0] = 0 /\ b[n] = len
  <2>1. \A k \in 0 .. n : k * M \in Nat
    BY <1>1, <1>3
  <2>2. 0 * M = 0 /\ 0 \in 0 .. n /\ n \in 0 .. n
    BY <1>1, <1>3
  <2> QED
    BY <1>1, <1>3, <2>1, <2>2
<1>6. ASSUME NEW k \in 1 .. n
      PROVE  /\ b[k - 1] = (k - 1) * M /\ b[k - 1] <= b[k] /\ b[k] = end(k)
             /\ b[k] \in 0 .. len /\ b[k - 1] \in Nat
             /\ Batch(data, k) = SubSeq(data, b[k - 1] + 1, b[k])
  <2>1. k - 1 \in 0 .. n /\ k \in 0 .. n
    BY <1>3
  <2>2. b[k - 1] = (k - 1) * M /\ b[k] = end(k)
    <3>1. b[k - 1] = end(k - 1) /\ b[k] = end(k)
      BY <2>1
    <3> DEFINE p == (k - 1) * M
    <3>2. end(k - 1) = IF p <= len THEN p ELSE len
      OBVIOUS
    <3>3. p < len /\ p \in Nat
      BY <1>4
    <3> HIDE DEF p
    <3>4. end(k - 1) = p
      BY <1>1, <3>2, <3>3
    <3> QED
      BY <3>1, <3>4 DEF p
  <2>3. Min({k * M, len}) = end(k)
    BY <1>1, <1>3, <1>4, TheSmaller
  <2>4. Batch(data, k) = SubSeq(data, b[k - 1] + 1, b[k])
    BY <2>2, <2>3 DEF Batch, M, len
  <2>5. b[k - 1] <= b[k] /\ b[k] \in 0 .. len /\ b[k - 1] \in Nat
    <3> DEFINE p == (k - 1) * M
               q == k * M
    <3>1. p < len /\ q = p + M /\ p \in Nat
      BY <1>4
    <3>2. b[k - 1] = p /\ b[k] = IF q <= len THEN q ELSE len
      BY <2>2
    <3> HIDE DEF p, q
    <3> QED
      BY <1>1, <3>1, <3>2
  <2> QED
    BY <2>2, <2>4, <2>5
<1> HIDE DEF b, end
<1>7. ASSUME NEW k \in 1 .. n
      PROVE  /\ DOMAIN Batch(data, k) = 1 .. (b[k] - b[k - 1])
             /\ \A i \in 1 .. (b[k] - b[k - 1]) : Batch(data, k)[i] = data[b[k - 1] + i]
  <2> DEFINE lo == b[k - 1]
             hi == b[k]
  <2>1. lo \in Nat /\ hi \in Nat /\ lo <= hi /\ hi <= Len(data)
    BY <1>1, <1>6 DEF len
  <2> HIDE DEF lo, hi
  <2>2. DOMAIN SubSeq(data, lo + 1, hi) = 1 .. (hi - lo)
    BY <2>1
  <2>3. \A i \in 1 .. (hi - lo) : SubSeq(data, lo + 1, hi)[i] = data[lo + i]
    <3> TAKE i \in 1 .. (hi - lo)
    <3>1. SubSeq(data, lo + 1, hi)[i] = data[(lo + 1) + i - 1]
      BY <2>1
    <3>2. (lo + 1) + i - 1 = lo + i
      BY <2>1
    <3> QED
      BY <3>1, <3>2
  <2> QED
    BY <1>6, <2>2, <2>3 DEF lo, hi
<1>8. Cut(arr, n, b, len)
  BY <1>3, <1>5, <1>6, <1>7 DEF Cut, n, Batched
<1>9. BatchesAre(arr, b, data)
  BY <1>7 DEF BatchesAre, n, Batched
<1> QED
  BY <1>8, <1>9 DEF n, len

\* The columns the engine writes.
LEMMA EmptyArrayKeeps ==
  ASSUME NEW chunk, chunk.cells = <<>>, NEW exact
  PROVE  KeepsNumbers(<<chunk>>, <<>>, exact) /\ KeepsStrings(<<chunk>>, <<>>)
<1>1. PICK b : Cut(<<chunk>>, 1, b, 0) /\ b[0] = 0 /\ b[1] = 0
  <2>1. DOMAIN chunk.cells = 1 .. 0
    OBVIOUS
  <2> QED
    BY <2>1, OneChunk
<1>2. \A k \in 1 .. 1 : k = 1 /\ k - 1 = 0
  OBVIOUS
<1>3. AllNumbers(<<chunk>>, 1, b, <<>>, exact) /\ AllStrings(<<chunk>>, 1, b, <<>>)
  BY <1>1, <1>2 DEF AllNumbers, AllStrings
<1>4. <<>> \in Seq(Numbers) /\ Len(<<>>) = 0
  OBVIOUS
<1>5. Cut(<<chunk>>, 1, b, Len(<<>>))
  BY <1>1, <1>4
<1>6. KeepsNumbers(<<chunk>>, <<>>, exact)
  BY <1>3, <1>4, <1>5, NumbersKept, Zenon
<1>7. KeepsStrings(<<chunk>>, <<>>)
  BY <1>3, <1>4, <1>5, StringsKept, Zenon
<1> QED
  BY <1>6, <1>7

\* Numbers that round are numbers.
LEMMA RoundedNumbers == Rounded \subseteq Numbers /\ \A data \in Seq(Rounded) : data \in Seq(Numbers)
BY DEF Rounded, Numbers

\* make_float_array keeps the numbers of a column as they are,
LEMMA FloatArrayKeeps ==
  ASSUME MAX_CHUNKSIZE \in Nat \ {0}, NEW data \in Seq(Rounded)
  PROVE  KeepsNumbers(make_float_array(data), data, TRUE)
<1> DEFINE arr == make_float_array(data)
           cellOf(v) == IF v = NAN THEN NullCell ELSE Cell(v)
<1>1. CASE data = <<>>
  <2>1. arr = <<Chunk("float64", <<>>)>>
    BY <1>1 DEF make_float_array, make_chunks
  <2> QED
    BY <1>1, <2>1, EmptyArrayKeeps DEF Chunk
<1>2. CASE data # <<>>
  <2>1. arr = [k \in 1 .. NumBatches(data) |->
                 Chunk("float64", [i \in DOMAIN Batch(data, k) |-> cellOf(Batch(data, k)[i])])]
    BY <1>2 DEF make_float_array, make_chunks, NumBatches, Batch
  <2> HIDE DEF arr
  <2>2. PICK b : Cut(arr, NumBatches(data), b, Len(data)) /\ BatchesAre(arr, b, data)
    <3>1. DOMAIN arr = 1 .. NumBatches(data)
      BY <2>1
    <3>2. \A k \in 1 .. NumBatches(data) : DOMAIN arr[k].cells = DOMAIN Batch(data, k)
      BY <2>1 DEF Chunk
    <3>3. Batched(arr, data)
      BY <3>1, <3>2 DEF Batched
    <3> QED
      BY <1>2, <3>3, BatchesCut
  <2>5. Len(data) \in Nat /\ Reaches(NumBatches(data), b, Len(data))
    BY <2>2, CutsReach
  <2>3. ASSUME NEW k \in 1 .. NumBatches(data), NEW i \in 1 .. (b[k] - b[k - 1])
        PROVE  IsNumberCell(arr[k], i, data[b[k - 1] + i], TRUE)
    <3> DEFINE v == data[b[k - 1] + i]
    <3>5. i \in DOMAIN arr[k].cells /\ Batch(data, k)[i] = data[b[k - 1] + i]
      BY <2>2 DEF BatchesAre
    <3>1. v \in Rounded
      <4>1. b[k - 1] + i \in 1 .. Len(data)
        BY <2>5 DEF Reaches
      <4> QED
        BY <4>1
    <3>2. arr[k].type = "float64" /\ arr[k].cells[i] = cellOf(v)
      BY <2>1, <3>5 DEF Chunk
    <3> HIDE DEF v
    <3>3. HoldsNumber(arr[k].cells[i], v, v)
      BY <3>2 DEF HoldsNumber
    <3>6. v \in Allowed(v, TRUE)
      BY <3>1, RoundedNumbers, AllowedNumbers
    <3> HIDE DEF cellOf
    <3>4. arr[k].type # "dictionary"
      BY <3>2
    <3> QED
      BY <3>1, <3>2, <3>3, <3>4, <3>6, NumericCell, PlainCell DEF v
  <2>4. AllNumbers(arr, NumBatches(data), b, data, TRUE)
    BY <2>3 DEF AllNumbers
  <2> QED
    BY <2>2, <2>4, NumbersKept, RoundedNumbers DEF arr
<1> QED
  BY <1>1, <1>2

\* make_time_stamp_array those of a column of time stamps but for their last place,
\* unless the conversion to nanoseconds overflows,
LEMMA TimeStampArrayKeeps ==
  ASSUME MAX_CHUNKSIZE \in Nat \ {0}, NEW data \in Seq(Rounded),
         \A m \in 1 .. Len(data) : data[m] = NAN \/ Nanos(data[m]) <= INT64_MAX
  PROVE  KeepsNumbers(make_time_stamp_array(data), data, FALSE)
<1> DEFINE arr == make_time_stamp_array(data)
           cellOf(v) == IF v = NAN THEN NullCell
                        ELSE Cell(IF Nanos(v) <= INT64_MAX THEN Nanos(v) ELSE -INT64_MAX)
<1>1. CASE data = <<>>
  <2>1. arr = <<Chunk("timestamp_ns", <<>>)>>
    BY <1>1 DEF make_time_stamp_array, make_chunks
  <2> QED
    BY <1>1, <2>1, EmptyArrayKeeps DEF Chunk
<1>2. CASE data # <<>>
  <2>1. arr = [k \in 1 .. NumBatches(data) |->
                 Chunk("timestamp_ns",
                                [i \in DOMAIN Batch(data, k) |-> cellOf(Batch(data, k)[i])])]
    BY <1>2 DEF make_time_stamp_array, make_chunks, NumBatches, Batch
  <2> HIDE DEF arr
  <2>2. PICK b : Cut(arr, NumBatches(data), b, Len(data)) /\ BatchesAre(arr, b, data)
    <3>1. DOMAIN arr = 1 .. NumBatches(data)
      BY <2>1
    <3>2. \A k \in 1 .. NumBatches(data) : DOMAIN arr[k].cells = DOMAIN Batch(data, k)
      BY <2>1 DEF Chunk
    <3>3. Batched(arr, data)
      BY <3>1, <3>2 DEF Batched
    <3> QED
      BY <1>2, <3>3, BatchesCut
  <2>5. Len(data) \in Nat /\ Reaches(NumBatches(data), b, Len(data))
    BY <2>2, CutsReach
  <2>3. ASSUME NEW k \in 1 .. NumBatches(data), NEW i \in 1 .. (b[k] - b[k - 1])
        PROVE  IsNumberCell(arr[k], i, data[b[k - 1] + i], FALSE)
    <3> DEFINE v == data[b[k - 1] + i]
    <3>5. i \in DOMAIN arr[k].cells /\ Batch(data, k)[i] = data[b[k - 1] + i]
      BY <2>2 DEF BatchesAre
    <3>1. v \in Rounded /\ (v = NAN \/ Nanos(v) <= INT64_MAX)
      <4>1. b[k - 1] + i \in 1 .. Len(data)
        BY <2>5 DEF Reaches
      <4> QED
        BY <4>1
    <3>2. arr[k].type = "timestamp_ns" /\ arr[k].cells[i] = cellOf(v)
      BY <2>1, <3>5 DEF Chunk
    <3> HIDE DEF v
    <3>3. HoldsNumber(arr[k].cells[i], v, Nanos(v))
      BY <3>1, <3>2 DEF HoldsNumber
    <3> HIDE DEF cellOf
    <3>4. arr[k].type # "dictionary"
      BY <3>2
    <3>6. TakesTime(arr[k].type, Nanos(v), v)
      BY <3>1, <3>2 DEF Rounded, Rounds, TakesTime
    <3>7. ReadsTime(arr[k], i, v)
      <4> DEFINE chunk == arr[k]
                 raw == Nanos(v)
      <4>1. /\ v \in Rounded /\ HoldsNumber(chunk.cells[i], v, raw)
            /\ TakesTime(chunk.type, raw, v)
            /\ chunk.type \in {"timestamp_ns", "timestamp_us", "time32_ms"}
        BY <3>1, <3>2, <3>3, <3>6
      <4> HIDE DEF chunk, raw
      <4>2. ReadsTime(chunk, i, v)
        BY ONLY <4>1, TimeCell
      <4> QED
        BY <4>2 DEF chunk
    <3> QED
      BY <3>4, <3>7, PlainCell DEF v, ReadsTime
  <2>4. AllNumbers(arr, NumBatches(data), b, data, FALSE)
    BY <2>3 DEF AllNumbers
  <2> QED
    BY <2>2, <2>4, NumbersKept, RoundedNumbers DEF arr
<1> QED
  BY <1>1, <1>2

\* A string that means NULL, or is not UTF-8, is sent as null by the engine.
Sent(str, own) ==
  IF own /\ (parse_null(str) = NULL \/ BYTES \in Range(str)) THEN NULL ELSE str

SentStrings(data, own) == [n \in DOMAIN data |-> Sent(data[n], own)]

LEMMA SentTyped ==
  ASSUME NEW S, NEW data \in Seq(S), NEW own
  PROVE  /\ SentStrings(data, own) \in Seq(S \cup {NULL})
         /\ Len(SentStrings(data, own)) = Len(data)
         /\ \A n \in 1 .. Len(data) : SentStrings(data, own)[n] = Sent(data[n], own)
<1>1. \A str \in S : Sent(str, own) \in S \cup {NULL}
  BY DEF Sent
<1>2. DOMAIN data = 1 .. Len(data) /\ Len(data) \in Nat /\ \A n \in 1 .. Len(data) : data[n] \in S
  OBVIOUS
<1>3. SentStrings(data, own) = [n \in 1 .. Len(data) |-> Sent(data[n], own)]
  BY <1>2 DEF SentStrings
<1> QED
  BY <1>1, <1>2, <1>3

LEMMA SentAsTheyAre ==
  ASSUME NEW S, NEW data \in Seq(S)
  PROVE  SentStrings(data, FALSE) = data
BY DEF SentStrings, Sent

\* What is sent as null.
LEMMA SentNull ==
  ASSUME NEW str
  PROVE  /\ (parse_null(str_of(str)) = NULL \/ BYTES \in Range(str_of(str)))
              <=> Sent(str, TRUE) = NULL
         /\ Sent(str, TRUE) # NULL => Sent(str, TRUE) = str
<1>1. CASE str = NULL
  <2>1. str_of(str) = NULLTEXT /\ NULLTEXT \in NULLS
    BY <1>1 DEF str_of, NULLS
  <2>2. parse_null(NULLTEXT) = NULL
    BY <2>1 DEF parse_null
  <2> QED
    BY <1>1, <2>1, <2>2 DEF Sent
<1>2. CASE str # NULL
  BY <1>2 DEF Sent, str_of
<1> QED
  BY <1>1, <1>2

\* and make_string_array strings, as they are sent.
LEMMA StringArrayKeeps ==
  ASSUME MAX_CHUNKSIZE \in Nat \ {0}, NEW S, NEW data \in Seq(S)
  PROVE  KeepsStrings(make_string_array(data), SentStrings(data, TRUE))
<1> DEFINE arr == make_string_array(data)
           sent == SentStrings(data, TRUE)
           cellOf(str) == IF \/ parse_null(str_of(str)) = NULL
                             \/ BYTES \in Range(str_of(str)) THEN NullCell
                          ELSE Cell(str)
<1>0. /\ sent \in Seq(S \cup {NULL}) /\ Len(sent) = Len(data)
      /\ \A n \in 1 .. Len(data) : sent[n] = Sent(data[n], TRUE)
  BY SentTyped
<1> HIDE DEF sent
<1>1. CASE data = <<>>
  <2>1. arr = <<Chunk("utf8", <<>>)>>
    BY <1>1 DEF make_string_array, make_chunks
  <2> QED
    <3>1. sent = <<>>
      BY <1>0, <1>1
    <3> QED
      BY <2>1, <3>1, EmptyArrayKeeps DEF Chunk, sent
<1>2. CASE data # <<>>
  <2>1. arr = [k \in 1 .. NumBatches(data) |->
                 Chunk("utf8", [i \in DOMAIN Batch(data, k) |-> cellOf(Batch(data, k)[i])])]
    BY <1>2 DEF make_string_array, make_chunks, NumBatches, Batch
  <2> HIDE DEF arr
  <2>2. PICK b : Cut(arr, NumBatches(data), b, Len(data)) /\ BatchesAre(arr, b, data)
    <3>1. DOMAIN arr = 1 .. NumBatches(data)
      BY <2>1
    <3>2. \A k \in 1 .. NumBatches(data) : DOMAIN arr[k].cells = DOMAIN Batch(data, k)
      BY <2>1 DEF Chunk
    <3>3. Batched(arr, data)
      BY <3>1, <3>2 DEF Batched
    <3> QED
      BY <1>2, <3>3, BatchesCut
  <2>5. Len(data) \in Nat /\ Reaches(NumBatches(data), b, Len(data))
    BY <2>2, CutsReach
  <2>3. ASSUME NEW k \in 1 .. NumBatches(data), NEW i \in 1 .. (b[k] - b[k - 1])
        PROVE  write_to_string_column(arr[k], i) = sent[b[k - 1] + i]
    <3> DEFINE str == data[b[k - 1] + i]
    <3>5. i \in DOMAIN arr[k].cells /\ Batch(data, k)[i] = data[b[k - 1] + i]
      BY <2>2 DEF BatchesAre
    <3>1. sent[b[k - 1] + i] = Sent(str, TRUE)
      <4>1. b[k - 1] + i \in 1 .. Len(data)
        BY <2>5 DEF Reaches
      <4> QED
        BY <1>0, <4>1
    <3>2. arr[k].type = "utf8" /\ arr[k].cells[i] = cellOf(str)
      BY <2>1, <3>5 DEF Chunk
    <3> HIDE DEF str
    <3> DEFINE w == Sent(str, TRUE)
    <3>3. arr[k].cells[i] = IF w = NULL THEN NullCell ELSE Cell(w)
      BY <3>2, SentNull
    <3>4. arr[k].type \in StringTypes
      BY <3>2 DEF StringTypes
    <3> HIDE DEF cellOf
    <3> QED
      <4> HIDE DEF w
      <4>1. write_to_string_column(arr[k], i) = w
        BY <3>3, <3>4, StringCell
      <4> QED
        BY <3>1, <4>1 DEF w
  <2>4. AllStrings(arr, NumBatches(data), b, sent)
    BY <2>3 DEF AllStrings
  <2> QED
    BY <1>0, <2>2, <2>4, StringsKept DEF arr, sent
<1> QED
  BY <1>1, <1>2

-----------------------------------------------------------------------------
(* Arrow tables: the arrays of clients *)

IsColumn(c) ==
  IF c.role \in StringRoles THEN c.col.data \in Seq(Strings)
  ELSE c.col.data \in Seq(Rounded)

\* What the engine's own arrays keep, and what those of clients do.
KeepsColumn(arr, c, own) ==
  IF c.role \in StringRoles THEN KeepsStrings(arr, SentStrings(c.col.data, own))
  ELSE KeepsNumbers(arr, c.col.data, own /\ c.col.unit # "time stamp")

\* One chunk for all cells.
LEMMA OneNumberChunk ==
  ASSUME NEW data \in Seq(Rounded), NEW chunk, DOMAIN chunk.cells = DOMAIN data, NEW exact,
         \A m \in 1 .. Len(data) : IsNumberCell(chunk, m, data[m], exact)
  PROVE  KeepsNumbers(<<chunk>>, data, exact)
<1>1. Len(data) \in Nat /\ DOMAIN chunk.cells = 1 .. Len(data)
  OBVIOUS
<1>2. PICK b : Cut(<<chunk>>, 1, b, Len(data)) /\ b[0] = 0 /\ b[1] = Len(data)
  BY <1>1, OneChunk
<1>3. \A k \in 1 .. 1 : k = 1 /\ k - 1 = 0 /\ <<chunk>>[k] = chunk
  OBVIOUS
<1>4. AllNumbers(<<chunk>>, 1, b, data, exact)
  <2>1. \A i \in 1 .. (Len(data) - 0) : i \in 1 .. Len(data) /\ 0 + i = i
    BY <1>1
  <2> QED
    BY <1>2, <1>3, <2>1 DEF AllNumbers
<1> QED
  BY <1>2, <1>4, NumbersKept, RoundedNumbers

\* The same for strings.
LEMMA OneStringChunk ==
  ASSUME NEW S, NEW data \in Seq(S), NEW chunk, DOMAIN chunk.cells = DOMAIN data,
         \A m \in 1 .. Len(data) : write_to_string_column(chunk, m) = data[m]
  PROVE  KeepsStrings(<<chunk>>, data)
<1>1. Len(data) \in Nat /\ DOMAIN chunk.cells = 1 .. Len(data)
  OBVIOUS
<1>2. PICK b : Cut(<<chunk>>, 1, b, Len(data)) /\ b[0] = 0 /\ b[1] = Len(data)
  BY <1>1, OneChunk
<1>3. \A k \in 1 .. 1 : k = 1 /\ k - 1 = 0 /\ <<chunk>>[k] = chunk
  OBVIOUS
<1>4. AllStrings(<<chunk>>, 1, b, data)
  <2>1. \A i \in 1 .. (Len(data) - 0) : i \in 1 .. Len(data) /\ 0 + i = i
    BY <1>1
  <2> QED
    BY <1>2, <1>3, <2>1 DEF AllStrings
<1> QED
  BY <1>2, <1>4, StringsKept

\* A sequence of all elements of a set has every one of them, and the index of one
\* is found.
LEMMA SetToSeqHasAll ==
  ASSUME NEW S, IsFiniteSet(S)
  PROVE  /\ SetToSeq(S) \in [1 .. Cardinality(S) -> S]
         /\ \A x \in S : \E i \in 1 .. Cardinality(S) : SetToSeq(S)[i] = x
<1> DEFINE n == Cardinality(S)
<1>1. n \in Nat /\ IsFiniteSet(1 .. n) /\ Cardinality(1 .. n) = n
  BY FS_CardinalityType, FS_Interval
<1>2. PICK f : f \in Bijection(1 .. n, S)
  BY <1>1, FS_SameCardinalityBij DEF ExistsBijection
<1>3. f \in [1 .. n -> S] /\ IsInjective(f)
  BY <1>2 DEF Bijection, Injection, IsInjective
<1>4. SetToSeq(S) \in [1 .. n -> S] /\ IsInjective(SetToSeq(S))
  <2>1. \E q \in [1 .. Cardinality(S) -> S] : IsInjective(q)
    BY <1>3
  <2>2. SetToSeq(S) = CHOOSE q \in [1 .. Cardinality(S) -> S] : IsInjective(q)
    BY Zenon DEF SetToSeq
  <2> QED
    BY <2>1, <2>2
<1> DEFINE g == SetToSeq(S)
<1>5. g \in Injection(1 .. n, S)
  BY <1>4 DEF Injection, IsInjective
<1>6. g \in Surjection(1 .. n, S)
  <2> HIDE DEF g, n
  <2> QED
    BY <1>1, <1>5, FS_Injection DEF n
<1> QED
  BY <1>4, <1>6 DEF Surjection

\* IndexOf finds what is there.
LEMMA IndexFinds ==
  ASSUME NEW names, NEW n \in Nat, DOMAIN names = 1 .. n, NEW x, \E i \in 1 .. n : names[i] = x
  PROVE  /\ IndexOf(names, x) \in 1 .. n /\ names[IndexOf(names, x)] = x
<1> DEFINE T == {i \in DOMAIN names : names[i] = x}
<1>1. T \subseteq Nat /\ T # {}
  OBVIOUS
<1>2. \E m \in T : \A k \in T : m <= k
  <2> HIDE DEF T
  <2> QED
    BY <1>1, LeastNumber
<1>3. Min(T) \in T
  <2> HIDE DEF T
  <2> QED
    BY <1>2 DEF Min
<1>4. IndexOf(names, x) = Min(T)
  BY DEF IndexOf
<1> QED
  BY <1>3, <1>4

\* An array of indices into a dictionary keeps the strings of a column,
LEMMA DictionaryOfStrings ==
  ASSUME NEW S, NEW data \in Seq(S)
  PROVE  KeepsStrings(Coded(data), data)
<1> DEFINE R == Range(data) \ {NULL}
           first == <<Word("unused")>>
           entries == <<first>> \o SetToSeq(R)
           index(str) == IndexOf(entries, str)
           cells == [n \in DOMAIN data |-> IF data[n] = NULL THEN NullCell
                                           ELSE Cell(index(data[n]))]
           plain == Chunk("utf8", [k \in DOMAIN entries |-> Cell(entries[k])])
           chunk == DictionaryChunk(cells, plain)
<1>1. Coded(data) = <<chunk>>
  BY DEF Coded
<1>2. IsFiniteSet(R)
  <2>1. IsFiniteSet(1 .. Len(data)) /\ DOMAIN data = 1 .. Len(data)
    BY FS_Interval
  <2>2. IsFiniteSet(Range(data))
    <3>1. data \in Surjection(1 .. Len(data), Range(data))
      BY <2>1 DEF Surjection, Range
    <3> QED
      BY <2>1, <3>1, FS_Surjection
  <2> QED
    BY <2>2, FS_Difference
<1>3. \E n \in Nat : DOMAIN entries = 1 .. n /\ \A x \in R : \E i \in 1 .. n : entries[i] = x
  <2> DEFINE s == SetToSeq(R)
             c == Cardinality(R)
             all == R \cup {first}
  <2>1. c \in Nat /\ s \in [1 .. c -> R] /\ \A x \in R : \E i \in 1 .. c : s[i] = x
    BY <1>2, FS_CardinalityType, SetToSeqHasAll
  <2> HIDE DEF R, s, c, first
  <2>2. s \in Seq(all) /\ Len(s) = c /\ <<first>> \in Seq(all) /\ Len(<<first>>) = 1
    BY <2>1
  <2>3. entries \in Seq(all) /\ Len(entries) = 1 + c /\
        \A i \in 1 .. c : entries[1 + i] = s[i]
    <3>1. entries = <<first>> \o s
      BY DEF s
    <3> HIDE DEF all, entries
    <3>2. Len(entries) = 1 + c /\ entries \in Seq(all)
          /\ \A i \in 1 .. 1 + c : entries[i] = IF i <= 1 THEN <<first>>[i] ELSE s[i - 1]
      BY <2>2, <3>1, ConcatProperties
    <3>3. \A i \in 1 .. c : 1 + i \in 1 .. 1 + c /\ ~ (1 + i <= 1) /\ (1 + i) - 1 = i
      BY <2>1
    <3> QED
      BY <3>2, <3>3
  <2> HIDE DEF entries, all
  <2>4. DOMAIN entries = 1 .. 1 + c /\ 1 + c \in Nat
    BY <2>1, <2>3
  <2>5. ASSUME NEW x \in R PROVE \E i \in 1 .. 1 + c : entries[i] = x
    <3>1. PICK i \in 1 .. c : s[i] = x
      BY <2>1
    <3>2. 1 + i \in 1 .. 1 + c
      BY <2>1
    <3> QED
      BY <2>3, <3>1, <3>2
  <2> QED
    BY <2>4, <2>5
<1>4. PICK n \in Nat : DOMAIN entries = 1 .. n /\ \A x \in R : \E i \in 1 .. n : entries[i] = x
  BY <1>3
<1>5. ASSUME NEW m \in 1 .. Len(data)
      PROVE  write_to_string_column(chunk, m) = data[m]
  <2>0. chunk.type = "dictionary" /\ chunk.cells = cells /\ chunk.dictionary[1] = plain
    BY DEF DictionaryChunk
  <2>1. write_to_string_column(chunk, m) =
              IF cells[m].null THEN NULL
              ELSE Head(plain_to_string_column(plain, cells[m].val) \o <<>>)
    <3> HIDE DEF chunk, cells, plain
    <3> QED
      BY <2>0, DictionaryCell
  <2>2. CASE data[m] = NULL
    <3>1. cells[m].null = TRUE
      BY <2>2 DEF NullCell
    <3> HIDE DEF chunk, cells, plain
    <3> QED
      BY <2>1, <2>2, <3>1
  <2>3. CASE data[m] # NULL
    <3>1. data[m] \in R
      BY <2>3 DEF Range
    <3>2. index(data[m]) \in 1 .. n /\ entries[index(data[m])] = data[m]
      <4> HIDE DEF entries, R
      <4> QED
        BY <1>4, <3>1, IndexFinds
    <3>3. cells[m].null = FALSE /\ cells[m].val = index(data[m])
      BY <2>3 DEF Cell
    <3>4. plain.type \in StringTypes
          /\ plain.cells[index(data[m])] = Cell(data[m])
      <4> HIDE DEF entries, index
      <4> QED
        BY <1>4, <3>2 DEF Chunk, StringTypes
    <3> HIDE DEF chunk, cells, plain, index
    <3>5. plain_to_string_column(plain, cells[m].val) = <<data[m]>>
      BY <3>3, <3>4, StringCell
    <3> QED
      BY <2>1, <3>3, <3>5, OneIsFirst
  <2> QED
    BY <2>2, <2>3
<1>6. DOMAIN chunk.cells = DOMAIN data
  BY DEF DictionaryChunk
<1> HIDE DEF chunk
<1> QED
  BY <1>1, <1>5, <1>6, OneStringChunk

\* Cells of numbers in a unit.
LEMMA NumberCellsHold ==
  ASSUME NEW data, NEW unit
  PROVE  /\ DOMAIN NumberCells(data, unit) = DOMAIN data
         /\ \A m \in DOMAIN data :
              HoldsNumber(NumberCells(data, unit)[m], data[m], data[m] * unit)
BY DEF NumberCells, HoldsNumber

\* Cells of numbers as they are.
LEMMA PlainCellsHold ==
  ASSUME NEW data, NEW m \in DOMAIN data, data[m] \in Rounded
  PROVE  HoldsNumber(NumberCells(data, 1)[m], data[m], data[m])
<1>1. data[m] # NAN => data[m] * 1 = data[m]
  BY DEF Rounded
<1> QED
  BY <1>1 DEF NumberCells, HoldsNumber

\* and its numbers: the one of a null is not looked up.
LEMMA DictionaryOfNumbers ==
  ASSUME NEW data \in Seq(Rounded)
  PROVE  KeepsNumbers(<<DictionaryChunk(
                          [n \in DOMAIN data |-> IF data[n] = NAN THEN NullCell
                                                 ELSE Cell(n)],
                          Chunk("float64", NumberCells(data, 1)))>>, data, FALSE)
<1> DEFINE cells == [n \in DOMAIN data |-> IF data[n] = NAN THEN NullCell
                                           ELSE Cell(n)]
           plain == Chunk("float64", NumberCells(data, 1))
           chunk == DictionaryChunk(cells, plain)
<1>1. chunk.type = "dictionary" /\ chunk.cells = cells /\ chunk.dictionary[1] = plain
  BY DEF DictionaryChunk
<1>2. plain.type = "float64" /\ plain.cells = NumberCells(data, 1)
  BY DEF Chunk
<1>3. ASSUME NEW m \in 1 .. Len(data) PROVE IsNumberCell(chunk, m, data[m], FALSE)
  <2>0. m \in DOMAIN data /\ data[m] \in Rounded
    OBVIOUS
  <2>1. CASE data[m] = NAN
    <3>1. cells[m].null = TRUE
      BY <2>0, <2>1 DEF NullCell
    <3> HIDE DEF cells, plain, chunk
    <3>2. /\ write_to_float_column(chunk, m) = NAN
          /\ write_to_string_column(chunk, m) = NULL
      BY <1>1, <3>1, DictionaryCell
    <3> QED
      BY <2>1, <3>2 DEF IsNumberCell, TextsOf, Allowed
  <2>2. CASE data[m] # NAN
    <3>1. cells[m].null = FALSE /\ cells[m].val = m
      BY <2>0, <2>2 DEF Cell
    <3> HIDE DEF cells, plain, chunk
    <3>2. HoldsNumber(plain.cells[m], data[m], data[m])
      BY <1>2, <2>0, PlainCellsHold
    <3>3. PICK text \in TextsOf(data[m]) : plain_to_string_column(plain, m) = <<text>>
      BY <1>2, <2>0, <3>2, NumericCell
    <3>4. plain_to_float_column(plain, m) = <<data[m]>>
      BY <1>2, <2>0, <3>2, NumericCell
    <3>5. /\ write_to_float_column(chunk, m) = Head(<<data[m]>> \o <<>>)
          /\ write_to_string_column(chunk, m) = Head(<<text>> \o <<>>)
      BY <1>1, <3>1, <3>3, <3>4, DictionaryCell
    <3> QED
      BY <2>0, <3>3, <3>5, OneIsFirst, AllowedNumbers, RoundedNumbers DEF IsNumberCell
  <2> QED
    BY <2>1, <2>2
<1>4. DOMAIN chunk.cells = DOMAIN data
  BY <1>1
<1> HIDE DEF chunk
<1>5. KeepsNumbers(<<chunk>>, data, FALSE)
  BY <1>3, <1>4, OneNumberChunk
<1> QED
  BY <1>5 DEF chunk

\* Typed chunks: strings, and numbers as times.
LEMMA TypedStrings ==
  ASSUME NEW S, NEW data \in Seq(S)
  PROVE  KeepsStrings(<<Chunk("large_utf8",
                          [n \in DOMAIN data |-> IF data[n] = NULL THEN NullCell
                                                 ELSE Cell(data[n])])>>, data)
<1> DEFINE chunk == Chunk("large_utf8",
                      [n \in DOMAIN data |-> IF data[n] = NULL THEN NullCell
                                             ELSE Cell(data[n])])
<1>1. ASSUME NEW m \in 1 .. Len(data)
      PROVE  write_to_string_column(chunk, m) = data[m]
  <2>1. m \in DOMAIN data
    OBVIOUS
  <2>2. /\ chunk.type \in StringTypes
        /\ chunk.cells[m] = IF data[m] = NULL THEN NullCell
                            ELSE Cell(data[m])
    BY <2>1 DEF Chunk, StringTypes
  <2> HIDE DEF chunk
  <2> QED
    BY <2>2, StringCell
<1>2. DOMAIN chunk.cells = DOMAIN data
  BY DEF Chunk
<1> HIDE DEF chunk
<1>3. KeepsStrings(<<chunk>>, data)
  BY <1>1, <1>2, OneStringChunk
<1> QED
  BY <1>3 DEF chunk

\* A time stamp in a unit of less than a second.
LEMMA UnitCell ==
  ASSUME NEW chunk, NEW i, NEW v \in Rounded, chunk.type \in {"timestamp_us", "time32_ms"},
         HoldsNumber(chunk.cells[i], v, v * PerTick[chunk.type])
  PROVE  IsNumberCell(chunk, i, v, FALSE)
<1> DEFINE raw == v * PerTick[chunk.type]
<1>1. chunk.type \in DOMAIN PerTick /\ chunk.type # "dictionary"
  BY DEF PerTick
<1>2. TakesTime(chunk.type, raw, v)
  BY <1>1 DEF Rounded, Rounds, TakesTime
<1>3. HoldsNumber(chunk.cells[i], v, raw)
  OBVIOUS
<1> HIDE DEF raw
<1>4. ReadsTime(chunk, i, v)
  BY <1>2, <1>3, TimeCell
<1> QED
  BY <1>1, <1>4, PlainCell DEF ReadsTime

\* A column of microseconds keeps the time stamps but for their last place.
LEMMA TypedNumbers ==
  ASSUME NEW data \in Seq(Rounded)
  PROVE  KeepsNumbers(<<Chunk("timestamp_us",
                          NumberCells(data, PerTick["timestamp_us"]))>>, data, FALSE)
<1> DEFINE chunk == Chunk("timestamp_us",
                      NumberCells(data, PerTick["timestamp_us"]))
<1>1. chunk.type = "timestamp_us" /\ chunk.cells = NumberCells(data, PerTick["timestamp_us"])
  BY DEF Chunk
<1> HIDE DEF chunk
<1>2. ASSUME NEW m \in 1 .. Len(data) PROVE IsNumberCell(chunk, m, data[m], FALSE)
  <2>1. m \in DOMAIN data /\ data[m] \in Rounded
    OBVIOUS
  <2>2. HoldsNumber(chunk.cells[m], data[m], data[m] * PerTick[chunk.type])
    BY <1>1, <2>1, NumberCellsHold
  <2> QED
    BY <1>1, <2>1, <2>2, UnitCell
<1>3. DOMAIN chunk.cells = DOMAIN data
  BY <1>1, NumberCellsHold
<1>4. KeepsNumbers(<<chunk>>, data, FALSE)
  BY <1>2, <1>3, OneNumberChunk
<1> QED
  BY <1>4 DEF chunk

\* A chunk for every cell.
SingleCells(arr, len) == DOMAIN arr = 1 .. len /\ \A k \in 1 .. len : DOMAIN arr[k].cells = 1 .. 1

CutSingly(arr, b, len) ==
  Cut(arr, len, b, len) /\ \A k \in 1 .. len : b[k - 1] + 1 = k /\ b[k] - b[k - 1] = 1

\* An array may have a chunk for every cell.
LEMMA ChunkPerCell ==
  ASSUME NEW arr, NEW len \in Nat, SingleCells(arr, len)
  PROVE  \E b : CutSingly(arr, b, len)
<1> DEFINE b == [k \in 0 .. len |-> k]
<1>1. b \in [0 .. len -> Nat] /\ b[0] = 0 /\ b[len] = len
  OBVIOUS
<1>2. \A k \in 1 .. len : b[k - 1] = k - 1 /\ b[k] = k
  OBVIOUS
<1> HIDE DEF b
<1>3. \A k \in 1 .. len : b[k - 1] + 1 = k /\ b[k] - b[k - 1] = 1 /\ b[k - 1] <= b[k]
  BY <1>2
<1>4. Cut(arr, len, b, len)
  BY <1>1, <1>3 DEF Cut, SingleCells
<1> QED
  BY <1>3, <1>4 DEF CutSingly

\* Chunks of one cell each, of different types, keep the strings of a column
LEMMA SingleStrings ==
  ASSUME NEW S, NEW data \in Seq(S), NEW arr, DOMAIN arr = DOMAIN data,
         \A n \in DOMAIN data :
           arr[n] = IF <<data[n]>> = <<NULL>>
                    THEN Chunk("null", <<NullCell>>)
                    ELSE Chunk("binary", <<Cell(<<data[n]>>[1])>>)
  PROVE  KeepsStrings(arr, data)
<1>1. Len(data) \in Nat /\ DOMAIN data = 1 .. Len(data)
  OBVIOUS
<1>2. ASSUME NEW n \in 1 .. Len(data)
      PROVE  /\ DOMAIN arr[n].cells = 1 .. 1
             /\ write_to_string_column(arr[n], 1) = data[n]
  <2>1. <<data[n]>> = <<NULL>> <=> data[n] = NULL
    OBVIOUS
  <2>2. CASE data[n] = NULL
    <3>1. arr[n] = Chunk("null", <<NullCell>>)
      BY <1>1, <2>1, <2>2
    <3>2. arr[n].type = "null" /\ arr[n].cells = <<NullCell>>
      BY <3>1 DEF Chunk
    <3>3. write_to_string_column(arr[n], 1) = data[n]
      BY <2>2, <3>2, StringCell
    <3> QED
      BY <3>2, <3>3
  <2>3. CASE data[n] # NULL
    <3>1. arr[n] = Chunk("binary", <<Cell(data[n])>>)
      BY <1>1, <2>1, <2>3
    <3>2. arr[n].type \in StringTypes /\ arr[n].cells = <<Cell(data[n])>>
      BY <3>1 DEF Chunk, StringTypes
    <3>3. arr[n].cells[1] = Cell(data[n])
      BY <3>2
    <3> DEFINE chunk == arr[n]
               str == data[n]
               first == 1
    <3>4. chunk.type \in StringTypes /\ chunk.cells[first] = Cell(str)
      BY <3>2, <3>3
    <3>5. DOMAIN chunk.cells = 1 .. 1
      BY <3>2
    <3> HIDE DEF chunk, str, first
    <3>6. write_to_string_column(chunk, first) = str
      BY ONLY <3>4, StringCell
    <3> QED
      BY <3>5, <3>6 DEF chunk, str, first
  <2> QED
    BY <2>2, <2>3
<1>5. SingleCells(arr, Len(data))
  BY <1>1, <1>2 DEF SingleCells
<1>6. PICK b : CutSingly(arr, b, Len(data))
  BY <1>1, <1>5, ChunkPerCell
<1>3. /\ Cut(arr, Len(data), b, Len(data))
      /\ \A k \in 1 .. Len(data) : b[k - 1] + 1 = k /\ b[k] - b[k - 1] = 1
  BY <1>6 DEF CutSingly
<1>4. AllStrings(arr, Len(data), b, data)
  <2> SUFFICES ASSUME NEW k \in 1 .. Len(data), NEW i \in 1 .. (b[k] - b[k - 1])
               PROVE  write_to_string_column(arr[k], i) = data[b[k - 1] + i]
    BY DEF AllStrings
  <2>1. i = 1
    BY <1>3
  <2>2. b[k - 1] + i = k
    BY <1>3, <2>1
  <2> QED
    BY <1>2, <2>1, <2>2
<1> QED
  BY <1>3, <1>4, StringsKept

\* and its numbers.
LEMMA SingleNumbers ==
  ASSUME NEW data \in Seq(Rounded), NEW arr, DOMAIN arr = DOMAIN data,
         \A n \in DOMAIN data :
           arr[n] = IF n % 2 = 0
                    THEN Chunk("time32_ms", NumberCells(<<data[n]>>, PerTick["time32_ms"]))
                    ELSE Chunk(IF <<data[n]>> = <<NAN>> \/ <<data[n]>>[1] % ONE = 0
                               THEN "int64" ELSE "float64",
                               NumberCells(<<data[n]>>, 1))
  PROVE  KeepsNumbers(arr, data, FALSE)
<1>1. Len(data) \in Nat /\ DOMAIN data = 1 .. Len(data)
  OBVIOUS
<1>2. ASSUME NEW n \in 1 .. Len(data)
      PROVE  DOMAIN arr[n].cells = 1 .. 1 /\ IsNumberCell(arr[n], 1, data[n], FALSE)
  <2> DEFINE v == data[n]
             one == <<data[n]>>
  <2>0. v \in Rounded
    BY <1>1
  <2>1. one[1] = v /\ DOMAIN one = 1 .. 1 /\ 1 \in DOMAIN one
    OBVIOUS
  <2>2. CASE n % 2 # 0
    <3>1. PICK type \in {"int64", "float64"} : arr[n] = Chunk(type, NumberCells(one, 1))
      BY <1>1, <2>2
    <3>2. arr[n].type = type /\ arr[n].cells = NumberCells(one, 1)
      BY <3>1 DEF Chunk
    <3> HIDE DEF v, one
    <3>3. DOMAIN arr[n].cells = 1 .. 1
      BY <2>1, <3>2, NumberCellsHold
    <3>4. HoldsNumber(arr[n].cells[1], v, v)
      BY <2>0, <2>1, <3>2, PlainCellsHold
    <3>5. /\ plain_to_float_column(arr[n], 1) = <<v>>
          /\ \E text \in TextsOf(v) : plain_to_string_column(arr[n], 1) = <<text>>
      <4> DEFINE chunk == arr[n]
                 first == 1
      <4>1. chunk.type \in {"float64", "int64"} /\ HoldsNumber(chunk.cells[first], v, v)
        BY <3>2, <3>4
      <4> HIDE DEF chunk, first
      <4>2. /\ plain_to_float_column(chunk, first) = <<v>>
            /\ \E text \in TextsOf(v) : plain_to_string_column(chunk, first) = <<text>>
        BY ONLY <2>0, <4>1, NumericCell
      <4> QED
        BY <4>2 DEF chunk, first
    <3>6. arr[n].type # "dictionary"
      BY <3>2
    <3>7. v \in Allowed(v, FALSE)
      BY <2>0, AllowedNumbers, RoundedNumbers
    <3>8. IsNumberCell(arr[n], 1, v, FALSE)
      BY <3>5, <3>6, <3>7, PlainCell
    <3> QED
      BY <3>3, <3>8 DEF v
  <2>3. CASE n % 2 = 0
    <3>1. arr[n] = Chunk("time32_ms", NumberCells(one, PerTick["time32_ms"]))
      BY <1>1, <2>3
    <3> HIDE DEF v, one
    <3>2. arr[n].type = "time32_ms" /\ arr[n].cells = NumberCells(one, PerTick["time32_ms"])
      BY <3>1 DEF Chunk
    <3>3. DOMAIN arr[n].cells = 1 .. 1
      BY <2>1, <3>2, NumberCellsHold
    <3>4. HoldsNumber(arr[n].cells[1], v, v * PerTick[arr[n].type])
      BY <2>1, <3>2, NumberCellsHold
    <3>5. IsNumberCell(arr[n], 1, v, FALSE)
      BY <2>0, <3>2, <3>4, UnitCell
    <3> QED
      BY <3>3, <3>5 DEF v
  <2> QED
    BY <2>2, <2>3
<1>5. SingleCells(arr, Len(data))
  BY <1>1, <1>2 DEF SingleCells
<1>6. PICK b : CutSingly(arr, b, Len(data))
  BY <1>1, <1>5, ChunkPerCell
<1>3. /\ Cut(arr, Len(data), b, Len(data))
      /\ \A k \in 1 .. Len(data) : b[k - 1] + 1 = k /\ b[k] - b[k - 1] = 1
  BY <1>6 DEF CutSingly
<1>4. AllNumbers(arr, Len(data), b, data, FALSE)
  <2> SUFFICES ASSUME NEW k \in 1 .. Len(data), NEW i \in 1 .. (b[k] - b[k - 1])
               PROVE  IsNumberCell(arr[k], i, data[b[k - 1] + i], FALSE)
    BY DEF AllNumbers
  <2>1. i = 1
    BY <1>3
  <2>2. b[k - 1] + i = k
    BY <1>3, <2>1
  <2> QED
    BY <1>2, <2>1, <2>2
<1> QED
  BY <1>3, <1>4, NumbersKept, RoundedNumbers

\* An array that a client lays out keeps the column, unless it cannot be read at all.
LEMMA LaidKeeps ==
  ASSUME NEW c, IsColumn(c), NEW layout \in {"dictionary", "typed", "chunks", "list"},
         can_read(Laid(layout, c))
  PROVE  KeepsColumn(Laid(layout, c), c, FALSE)
<1>5. c.role \in StringRoles /\ KeepsStrings(Laid(layout, c), c.col.data)
        => KeepsColumn(Laid(layout, c), c, FALSE)
  BY SentAsTheyAre DEF KeepsColumn, IsColumn
<1>6. c.role \notin StringRoles /\ KeepsNumbers(Laid(layout, c), c.col.data, FALSE)
        => KeepsColumn(Laid(layout, c), c, FALSE)
  <2>1. (FALSE /\ c.col.unit # "time stamp") = FALSE
    OBVIOUS
  <2> QED
    BY <2>1 DEF KeepsColumn
<1>1. CASE layout = "dictionary"
  <2>1. CASE c.role \in StringRoles
    <3>1. Laid(layout, c) = Coded(c.col.data)
      BY <1>1, <2>1 DEF Laid
    <3>2. KeepsStrings(Coded(c.col.data), c.col.data)
      BY <2>1, DictionaryOfStrings DEF IsColumn
    <3> QED
      BY <1>5, <2>1, <3>1, <3>2
  <2>2. CASE c.role \notin StringRoles
    <3>1. Laid(layout, c) =
            <<DictionaryChunk(
                [n \in DOMAIN c.col.data |-> IF c.col.data[n] = NAN THEN NullCell
                                             ELSE Cell(n)],
                Chunk("float64", NumberCells(c.col.data, 1)))>>
      BY <1>1, <2>2 DEF Laid
    <3>2. c.col.data \in Seq(Rounded)
      BY <2>2 DEF IsColumn
    <3>3. KeepsNumbers(Laid(layout, c), c.col.data, FALSE)
      BY <3>1, <3>2, DictionaryOfNumbers
    <3> QED
      BY <1>6, <2>2, <3>3
  <2> QED
    BY <2>1, <2>2
<1>2. CASE layout = "typed"
  <2>1. CASE c.role \in StringRoles
    <3>1. Laid(layout, c) =
            <<Chunk("large_utf8",
                [n \in DOMAIN c.col.data |-> IF c.col.data[n] = NULL THEN NullCell
                                             ELSE Cell(c.col.data[n])])>>
      BY <1>2, <2>1 DEF Laid
    <3>2. c.col.data \in Seq(Strings)
      BY <2>1 DEF IsColumn
    <3>3. KeepsStrings(Laid(layout, c), c.col.data)
      BY <3>1, <3>2, TypedStrings
    <3> QED
      BY <1>5, <2>1, <3>3
  <2>2. CASE c.role \notin StringRoles
    <3>1. Laid(layout, c) =
            <<Chunk("timestamp_us",
                NumberCells(c.col.data, PerTick["timestamp_us"]))>>
      BY <1>2, <2>2 DEF Laid
    <3>2. c.col.data \in Seq(Rounded)
      BY <2>2 DEF IsColumn
    <3>3. KeepsNumbers(Laid(layout, c), c.col.data, FALSE)
      BY <3>1, <3>2, TypedNumbers
    <3> QED
      BY <1>6, <2>2, <3>3
  <2> QED
    BY <2>1, <2>2
<1>3. CASE layout = "chunks"
  <2>1. CASE c.role \in StringRoles
    <3>1. /\ DOMAIN Laid(layout, c) = DOMAIN c.col.data
          /\ \A n \in DOMAIN c.col.data :
               Laid(layout, c)[n] =
                 IF <<c.col.data[n]>> = <<NULL>>
                 THEN Chunk("null", <<NullCell>>)
                 ELSE Chunk("binary", <<Cell(<<c.col.data[n]>>[1])>>)
      BY <1>3, <2>1 DEF Laid
    <3>2. c.col.data \in Seq(Strings)
      BY <2>1 DEF IsColumn
    <3>3. KeepsStrings(Laid(layout, c), c.col.data)
      BY <3>1, <3>2, SingleStrings
    <3> QED
      BY <1>5, <2>1, <3>3
  <2>2. CASE c.role \notin StringRoles
    <3>1. /\ DOMAIN Laid(layout, c) = DOMAIN c.col.data
          /\ \A n \in DOMAIN c.col.data :
               Laid(layout, c)[n] =
                 IF n % 2 = 0
                 THEN Chunk("time32_ms", NumberCells(<<c.col.data[n]>>, PerTick["time32_ms"]))
                 ELSE Chunk(IF <<c.col.data[n]>> = <<NAN>> \/ <<c.col.data[n]>>[1] % ONE = 0
                            THEN "int64" ELSE "float64",
                            NumberCells(<<c.col.data[n]>>, 1))
      BY <1>3, <2>2 DEF Laid
    <3>2. c.col.data \in Seq(Rounded)
      BY <2>2 DEF IsColumn
    <3>3. KeepsNumbers(Laid(layout, c), c.col.data, FALSE)
      BY <3>1, <3>2, SingleNumbers
    <3> QED
      BY <1>6, <2>2, <3>3
  <2> QED
    BY <2>1, <2>2
<1>4. CASE layout = "list"
  <2>1. Laid(layout, c) = <<Chunk("list", <<>>)>>
    BY <1>4 DEF Laid
  <2>2. 1 \in DOMAIN <<Chunk("list", <<>>)>>
        /\ <<Chunk("list", <<>>)>>[1].type = "list"
    BY DEF Chunk
  <2>3. "list" \notin Supported
    BY DEF Supported, FloatTypes, IntTypes, StringTypes,
           TimeTypes, PerTick, PerUnit
  <2> QED
    BY <2>1, <2>2, <2>3 DEF can_read
<1> QED
  BY <1>1, <1>2, <1>3, <1>4

-----------------------------------------------------------------------------
(* Arrow tables: the columns of a data frame *)

\* Sequences that stand for every role.
LEMMA RolesAre ==
  /\ DOMAIN AllRoles = 1 .. 8
  /\ \A k \in 1 .. 8 : AllRoles[k] \in Range(AllRoles)
  /\ \A role \in Range(AllRoles) : \E k \in 1 .. 8 : AllRoles[k] = role
  /\ StringRoles \subseteq Range(AllRoles)
  /\ \A role \in {"time_stamp", "unused_string"} :
       role \in Range(AllRoles)
<1>1. DOMAIN AllRoles = 1 .. 8
  BY DEF AllRoles
<1>2. /\ AllRoles[1] = "categorical" /\ AllRoles[2] = "join_key"
      /\ AllRoles[5] = "text" /\ AllRoles[8] = "unused_string"
      /\ AllRoles[6] = "time_stamp"
  BY DEF AllRoles
<1>3. \A k \in 1 .. 8 : AllRoles[k] \in Range(AllRoles)
  BY <1>1 DEF Range
<1>4. 1 \in 1 .. 8 /\ 2 \in 1 .. 8 /\ 5 \in 1 .. 8 /\ 8 \in 1 .. 8 /\ 6 \in 1 .. 8
  OBVIOUS
<1>5. StringRoles \subseteq Range(AllRoles)
  BY <1>2, <1>3, <1>4 DEF StringRoles
<1>6. \A role \in Range(AllRoles) : \E k \in 1 .. 8 : AllRoles[k] = role
  BY <1>1 DEF Range
<1>7. \A role \in {"time_stamp", "unused_string"} : role \in Range(AllRoles)
  BY <1>2, <1>3, <1>4
<1> QED
  BY <1>1, <1>3, <1>5, <1>6, <1>7

\* What is joined over all roles has what every role has.
LEMMA JoinedOverRoles ==
  ASSUME NEW S, NEW of, \A role \in Range(AllRoles) : of[role] \in Seq(S)
  PROVE  LET joined == FlattenSeq([k \in DOMAIN AllRoles |-> of[AllRoles[k]]])
         IN  /\ joined \in Seq(S)
             /\ \A x : x \in Range(joined)
                       <=> \E role \in Range(AllRoles) : x \in Range(of[role])
<1> DEFINE seqs == [k \in DOMAIN AllRoles |-> of[AllRoles[k]]]
<1>1. seqs \in Seq(Seq(S)) /\ Len(seqs) = 8
  <2>1. seqs \in [1 .. 8 -> Seq(S)]
    BY RolesAre
  <2> DEFINE n == 8
  <2>2. n \in Nat /\ seqs \in [1 .. n -> Seq(S)]
    BY <2>1
  <2> HIDE DEF seqs, n
  <2>3. seqs \in Seq(Seq(S)) /\ Len(seqs) = n
    BY ONLY <2>2
  <2> QED
    BY <2>3 DEF n
<1>2. /\ FlattenSeq(seqs) \in Seq(S)
      /\ Range(FlattenSeq(seqs)) = UNION {Range(seqs[k]) : k \in 1 .. 8}
  <2> HIDE DEF seqs
  <2> QED
    BY <1>1, JoinedHasAll
<1>3. \A k \in 1 .. 8 : seqs[k] = of[AllRoles[k]]
  BY RolesAre
<1>4. FlattenSeq(seqs) = FlattenSeq(seqs)
  OBVIOUS
<1> HIDE DEF seqs
<1>5. \A x : x \in UNION {Range(seqs[k]) : k \in 1 .. 8}
             <=> \E role \in Range(AllRoles) : x \in Range(of[role])
  <2>1. \A x : x \in UNION {Range(seqs[k]) : k \in 1 .. 8}
               <=> \E k \in 1 .. 8 : x \in Range(seqs[k])
    <3> DEFINE has(k) == Range(seqs[k])
    <3> HIDE DEF has
    <3>1. \A x : x \in UNION {has(k) : k \in 1 .. 8} <=> \E k \in 1 .. 8 : x \in has(k)
      OBVIOUS
    <3> QED
      BY <3>1 DEF has
  <2>2. \A k \in 1 .. 8 : Range(seqs[k]) = Range(of[AllRoles[k]])
    BY <1>3
  <2>3. ASSUME NEW x, NEW k \in 1 .. 8, x \in Range(seqs[k])
        PROVE  \E role \in Range(AllRoles) : x \in Range(of[role])
    BY <2>2, <2>3, RolesAre
  <2>4. ASSUME NEW x, NEW role \in Range(AllRoles), x \in Range(of[role])
        PROVE  \E k \in 1 .. 8 : x \in Range(seqs[k])
    BY <2>2, <2>4, RolesAre
  <2> QED
    BY <2>1, <2>3, <2>4
<1> QED
  BY <1>2, <1>4, <1>5 DEF seqs

Listed(d, S) ==
  /\ Columns(d) \in Seq([role : Range(AllRoles), col : S])
  /\ \A c : c \in Range(Columns(d))
            <=> \E role \in Range(AllRoles) : \E i \in DOMAIN d[role] :
                  c = [role |-> role, col |-> d[role][i]]

\* Columns lists the columns of a data frame with their roles.
LEMMA ColumnsAre ==
  ASSUME NEW S, NEW d, \A role \in Range(AllRoles) : d[role] \in Seq(S)
  PROVE  Listed(d, S)
<1> DEFINE one(role) == [i \in DOMAIN d[role] |-> [role |-> role, col |-> d[role][i]]]
           of == [role \in Range(AllRoles) |-> one(role)]
           All == [role : Range(AllRoles), col : S]
<1>1. ASSUME NEW role \in Range(AllRoles)
      PROVE  /\ of[role] \in Seq(All)
             /\ \A c : c \in Range(of[role])
                       <=> \E i \in DOMAIN d[role] : c = [role |-> role, col |-> d[role][i]]
  <2>1. d[role] \in Seq(S) /\ of[role] = one(role)
    OBVIOUS
  <2>2. one(role) \in Seq(All)
    <3> DEFINE len == Len(d[role])
    <3>1. len \in Nat /\ DOMAIN d[role] = 1 .. len /\ \A i \in 1 .. len : d[role][i] \in S
      BY <2>1
    <3>2. one(role) \in [1 .. len -> All]
      BY <3>1
    <3> HIDE DEF one, len, All
    <3> QED
      BY <3>1, <3>2
  <2>3. \A c : c \in Range(one(role))
               <=> \E i \in DOMAIN d[role] : c = [role |-> role, col |-> d[role][i]]
    BY DEF Range
  <2> QED
    BY <2>1, <2>2, <2>3
<1>2. Columns(d) = FlattenSeq([k \in DOMAIN AllRoles |-> of[AllRoles[k]]])
  <2>1. \A k \in DOMAIN AllRoles : of[AllRoles[k]] = one(AllRoles[k])
    BY RolesAre
  <2>2. [k \in DOMAIN AllRoles |-> of[AllRoles[k]]]
          = [k \in DOMAIN AllRoles |-> one(AllRoles[k])]
    <3> HIDE DEF of, one
    <3> QED
      BY <2>1
  <2>3. Columns(d) = FlattenSeq([k \in DOMAIN AllRoles |-> one(AllRoles[k])])
    BY DEF Columns
  <2> QED
    BY <2>2, <2>3, Zenon
<1> HIDE DEF of, All
<1>3. /\ Columns(d) \in Seq(All)
      /\ \A x : x \in Range(Columns(d))
                <=> \E role \in Range(AllRoles) : x \in Range(of[role])
  BY <1>1, <1>2, JoinedOverRoles, Zenon
<1>4. Columns(d) \in Seq([role : Range(AllRoles), col : S])
  BY <1>3 DEF All
<1>5. \A c : c \in Range(Columns(d))
             <=> \E role \in Range(AllRoles) : \E i \in DOMAIN d[role] :
                   c = [role |-> role, col |-> d[role][i]]
  <2> DEFINE Is(role, c) == \E i \in DOMAIN d[role] : c = [role |-> role, col |-> d[role][i]]
  <2>1. \A role \in Range(AllRoles) : \A c : c \in Range(of[role]) <=> Is(role, c)
    BY <1>1
  <2> HIDE DEF Is
  <2>2. \A c : c \in Range(Columns(d))
               <=> \E role \in Range(AllRoles) : Is(role, c)
    BY <1>3, <2>1
  <2> QED
    BY <2>2 DEF Is
<1> QED
  BY <1>4, <1>5 DEF Listed

\* What all columns of a data frame of the project have.
LEMMA FrameColumns ==
  ASSUME NEW d, IsDataFrame(d)
  PROVE  /\ \E S : /\ \A role \in Range(AllRoles) : d[role] \in Seq(S)
                   /\ Columns(d) \in Seq([role : Range(AllRoles), col : S])
         /\ \A c \in Range(Columns(d)) :
              /\ c.role \in Range(AllRoles) /\ IsColumn(c)
              /\ c.col.name \in Strings
              /\ \E i \in DOMAIN d[c.role] : c.col = d[c.role][i]
         /\ \A c1, c2 \in Range(Columns(d)) :
              /\ c1.col.name = c2.col.name => c1 = c2
              /\ Len(c1.col.data) = Len(c2.col.data)
<1> DEFINE S == ColumnsWith(Strings) \cup ColumnsWith(Rounded)
           R == Range(AllRoles)
<1>1. ASSUME NEW role \in R
      PROVE  IF role \in StringRoles THEN d[role] \in Seq(ColumnsWith(Strings))
             ELSE d[role] \in Seq(ColumnsWith(Rounded))
  BY DEF IsDataFrame
<1>2. \A role \in R : d[role] \in Seq(S)
  <2> TAKE role \in R
  <2> DEFINE P == ColumnsWith(Strings)
             N == ColumnsWith(Rounded)
  <2>1. d[role] \in Seq(P) \/ d[role] \in Seq(N)
    BY <1>1
  <2> HIDE DEF P, N, R
  <2>2. d[role] \in Seq(P \cup N)
    BY <2>1
  <2> QED
    BY <2>2 DEF P, N
<1> HIDE DEF S
<1>3. /\ Columns(d) \in Seq([role : R, col : S])
      /\ \A c : c \in Range(Columns(d))
                <=> \E role \in R : \E i \in DOMAIN d[role] : c = [role |-> role, col |-> d[role][i]]
  <2>1. \A role \in Range(AllRoles) : d[role] \in Seq(S)
    BY <1>2
  <2> HIDE DEF R
  <2>2. Listed(d, S)
    BY ONLY <2>1, ColumnsAre
  <2> QED
    BY <2>2 DEF Listed, R
<1> HIDE DEF R
<1>4. ASSUME NEW c \in Range(Columns(d))
      PROVE  \E role \in R : \E i \in DOMAIN d[role] : c = [role |-> role, col |-> d[role][i]]
  BY <1>3
<1>5. ASSUME NEW c \in Range(Columns(d))
      PROVE  /\ c.role \in R /\ IsColumn(c) /\ c.col.name \in Strings
             /\ \E i \in DOMAIN d[c.role] : c.col = d[c.role][i]
  <2>1. PICK role \in R : \E i \in DOMAIN d[role] : c = [role |-> role, col |-> d[role][i]]
    BY <1>4
  <2>2. PICK i \in DOMAIN d[role] : c = [role |-> role, col |-> d[role][i]]
    BY <2>1
  <2>3. c.role = role /\ c.col = d[role][i]
    BY <2>2
  <2>4. CASE role \in StringRoles
    <3>1. d[role] \in Seq(ColumnsWith(Strings))
      BY <1>1, <2>4
    <3>2. c.col \in ColumnsWith(Strings)
      BY <2>3, <3>1
    <3>3. c.col.data \in Seq(Strings) /\ c.col.name \in Strings
      BY <3>2 DEF ColumnsWith
    <3> QED
      BY <2>3, <2>4, <3>3 DEF IsColumn
  <2>5. CASE role \notin StringRoles
    <3>1. d[role] \in Seq(ColumnsWith(Rounded))
      BY <1>1, <2>5
    <3>2. c.col \in ColumnsWith(Rounded)
      BY <2>3, <3>1
    <3>3. c.col.data \in Seq(Rounded) /\ c.col.name \in Strings
      BY <3>2 DEF ColumnsWith
    <3> QED
      BY <2>3, <2>5, <3>3 DEF IsColumn
  <2> QED
    BY <2>4, <2>5
<1>6. ASSUME NEW c1 \in Range(Columns(d)),
             NEW c2 \in Range(Columns(d))
      PROVE  /\ c1.col.name = c2.col.name => c1 = c2
             /\ Len(c1.col.data) = Len(c2.col.data)
  <2>1. PICK r \in R : \E i \in DOMAIN d[r] : c1 = [role |-> r, col |-> d[r][i]]
    BY <1>4
  <2>2. PICK i \in DOMAIN d[r] : c1 = [role |-> r, col |-> d[r][i]]
    BY <2>1
  <2>3. PICK s \in R : \E k \in DOMAIN d[s] : c2 = [role |-> s, col |-> d[s][k]]
    BY <1>4
  <2>4. PICK k \in DOMAIN d[s] : c2 = [role |-> s, col |-> d[s][k]]
    BY <2>3
  <2>5. c1.col = d[r][i] /\ c2.col = d[s][k]
    BY <2>2, <2>4
  <2>6. /\ d[r][i].name = d[s][k].name => r = s /\ i = k
        /\ Len(d[r][i].data) = Len(d[s][k].data)
    BY DEF IsDataFrame, R
  <2>7. r = s /\ i = k => c1 = c2
    BY <2>2, <2>4
  <2> QED
    BY <2>5, <2>6, <2>7
<1>7. \A role \in R : d[role] \in Seq(S)
  BY <1>2 DEF R
<1> QED
  BY <1>3, <1>5, <1>6, <1>7 DEF R

\* The names of the columns that can be read in a role.
NamesAre(names, d, role) ==
  \A x : x \in Range(names)
         <=> \E c \in Range(Columns(d)) :
               ReadingRole(c) = role /\ x = c.col.name

\* A schema names the columns of the data frame it is made of.
LEMMA SchemaNames ==
  ASSUME NEW d, IsDataFrame(d), NEW role \in Range(AllRoles)
  PROVE  /\ SchemaOf(d)[role] \in Seq(Strings)
         /\ NamesAre(SchemaOf(d)[role], d, role)
<1> DEFINE cols == Columns(d)
           seqs == [i \in DOMAIN cols |->
                      IF ReadingRole(cols[i]) = role THEN <<cols[i].col.name>> ELSE <<>>]
           n == Len(cols)
<1>1. PICK S : cols \in Seq(S)
  BY FrameColumns
<1>2. n \in Nat /\ DOMAIN cols = 1 .. n
  BY <1>1
<1>3. ASSUME NEW i \in 1 .. n PROVE cols[i] \in Range(cols) /\ cols[i].col.name \in Strings
  <2>1. cols[i] \in Range(cols)
    BY <1>2 DEF Range
  <2> QED
    BY <2>1, FrameColumns
<1>4. SchemaOf(d)[role] = FlattenSeq(seqs)
  BY DEF SchemaOf
<1> HIDE DEF cols
<1>5. ASSUME NEW i \in 1 .. n
      PROVE  /\ seqs[i] \in Seq(Strings)
             /\ \A x : x \in Range(seqs[i])
                       <=> ReadingRole(cols[i]) = role /\ x = cols[i].col.name
  <2>1. seqs[i] = IF ReadingRole(cols[i]) = role THEN <<cols[i].col.name>> ELSE <<>>
    BY <1>2
  <2>2. seqs[i] \in Seq(Strings)
    BY <1>3, <2>1
  <2> DEFINE name == cols[i].col.name
  <2>3. Range(<<>>) = {} /\ Range(<<name>>) = {name}
    <3> HIDE DEF name
    <3> QED
      BY DEF Range
  <2> QED
    BY <2>1, <2>2, <2>3
<1>6. n \in Nat /\ seqs \in [1 .. n -> Seq(Strings)]
  BY <1>2, <1>5
<1> HIDE DEF seqs, n
<1>7. seqs \in Seq(Seq(Strings)) /\ Len(seqs) = n
  BY <1>6
<1>8. /\ FlattenSeq(seqs) \in Seq(Strings)
      /\ Range(FlattenSeq(seqs)) = UNION {Range(seqs[k]) : k \in 1 .. n}
  BY <1>6, <1>7, JoinedHasAll
<1>9. \A x : x \in UNION {Range(seqs[k]) : k \in 1 .. n}
             <=> \E k \in 1 .. n : x \in Range(seqs[k])
  <2> DEFINE has(k) == Range(seqs[k])
  <2> HIDE DEF has
  <2>1. \A x : x \in UNION {has(k) : k \in 1 .. n} <=> \E k \in 1 .. n : x \in has(k)
    OBVIOUS
  <2> QED
    BY <2>1 DEF has
<1>10. ASSUME NEW x
       PROVE  (\E k \in 1 .. n : ReadingRole(cols[k]) = role /\ x = cols[k].col.name)
              <=> \E c \in Range(cols) : ReadingRole(c) = role /\ x = c.col.name
  BY <1>2 DEF Range
<1>11. \A x : x \in Range(FlattenSeq(seqs))
              <=> \E c \in Range(cols) : ReadingRole(c) = role /\ x = c.col.name
  <2>1. \A x : (\E k \in 1 .. n : x \in Range(seqs[k]))
               <=> \E k \in 1 .. n : ReadingRole(cols[k]) = role /\ x = cols[k].col.name
    BY <1>5
  <2> QED
    BY <1>8, <1>9, <1>10, <2>1
<1> QED
  BY <1>4, <1>8, <1>11 DEF cols, NamesAre

-----------------------------------------------------------------------------
(* Arrow tables: what is read of them *)

\* Every column of the table has the name of a column of the data frame, and keeps
\* it unless it is one that cannot be read.
HoldsFrame(t, d, own) ==
  /\ DOMAIN t = DOMAIN Columns(d)
  /\ \A i \in DOMAIN t :
       /\ t[i].name = Columns(d)[i].col.name
       /\ can_read(t[i].array) => KeepsColumn(t[i].array, Columns(d)[i], own)

\* df_to_table keeps every column,
LEMMA TableHolds ==
  ASSUME NEW d \in Frames, NEW own, own = TRUE
  PROVE  HoldsFrame(df_to_table(d), d, own)
<1> DEFINE cols == Columns(d)
<1>1. /\ MAX_CHUNKSIZE \in Nat \ {0} /\ INT64_MAX \in Nat
      /\ IsDataFrame(d) /\ FitsArrow(d)
  BY ImportAssumption
<1>2. ASSUME NEW i \in DOMAIN cols PROVE KeepsColumn(extract_arrays(d)[i], cols[i], TRUE)
  <2> DEFINE c == cols[i]
             data == c.col.data
  <2>1. /\ c \in Range(Columns(d))
    BY DEF Range
  <2>2. /\ c.role \in Range(AllRoles) /\ IsColumn(c)
        /\ \E k \in DOMAIN d[c.role] : c.col = d[c.role][k]
    BY <1>1, <2>1, FrameColumns
  <2>3. /\ df_to_schema(d)[i] =
             IF c.role \in StringRoles THEN "utf8"
             ELSE IF c.col.unit = "time stamp" THEN "timestamp_ns" ELSE "float64"
        /\ extract_arrays(d)[i] =
             IF df_to_schema(d)[i] = "utf8" THEN make_string_array(data)
             ELSE IF df_to_schema(d)[i] = "timestamp_ns"
                  THEN make_time_stamp_array(data)
             ELSE make_float_array(data)
    <3>1. df_to_schema(d)[i] =
            IF c.role \in StringRoles THEN "utf8"
            ELSE IF c.col.unit = "time stamp" THEN "timestamp_ns" ELSE "float64"
      BY Zenon DEF df_to_schema
    <3>2. extract_arrays(d)[i] =
            CASE df_to_schema(d)[i] = "utf8" -> make_string_array(data)
              [] df_to_schema(d)[i] = "timestamp_ns" -> make_time_stamp_array(data)
              [] OTHER -> make_float_array(data)
      BY Zenon DEF extract_arrays
    <3> HIDE DEF c, data
    <3> QED
      BY <3>1, <3>2
  <2>4. CASE c.role \in StringRoles
    <3>1. extract_arrays(d)[i] = make_string_array(data)
      BY <2>3, <2>4
    <3>2. data \in Seq(Strings)
      BY <2>2, <2>4 DEF IsColumn
    <3> HIDE DEF data
    <3>3. KeepsStrings(make_string_array(data), SentStrings(data, TRUE))
      BY <1>1, <3>2, StringArrayKeeps
    <3> QED
      BY <2>4, <3>1, <3>3 DEF KeepsColumn, data
  <2>5. CASE c.role \notin StringRoles /\ c.col.unit = "time stamp"
    <3>1. extract_arrays(d)[i] = make_time_stamp_array(data)
      BY <2>3, <2>5
    <3>2. data \in Seq(Rounded)
      BY <2>2, <2>5 DEF IsColumn
    <3>3. \A val \in Range(data) \ {NAN} : Nanos(val) <= INT64_MAX
      <4>1. PICK k \in DOMAIN d[c.role] : c.col = d[c.role][k]
        BY <2>2
      <4>2. c.role \in Range(AllRoles) \ StringRoles
        BY <2>2, <2>5
      <4> QED
        BY <1>1, <2>5, <4>1, <4>2 DEF FitsArrow
    <3> HIDE DEF data
    <3>5. \A m \in 1 .. Len(data) : data[m] = NAN \/ Nanos(data[m]) <= INT64_MAX
      BY <3>2, <3>3 DEF Range
    <3>6. KeepsNumbers(make_time_stamp_array(data), data, FALSE)
      BY <1>1, <3>2, <3>5, TimeStampArrayKeeps
    <3>7. (TRUE /\ c.col.unit # "time stamp") = FALSE
      BY <2>5
    <3> QED
      BY <2>5, <3>1, <3>6, <3>7 DEF KeepsColumn, data
  <2>6. CASE c.role \notin StringRoles /\ c.col.unit # "time stamp"
    <3>1. extract_arrays(d)[i] = make_float_array(data)
      BY <2>3, <2>6
    <3>2. data \in Seq(Rounded)
      BY <2>2, <2>6 DEF IsColumn
    <3> HIDE DEF data
    <3>3. KeepsNumbers(make_float_array(data), data, TRUE)
      BY <1>1, <3>2, FloatArrayKeeps
    <3>7. (TRUE /\ c.col.unit # "time stamp") = TRUE
      BY <2>6
    <3> QED
      BY <2>6, <3>1, <3>3, <3>7 DEF KeepsColumn, data
  <2> QED
    BY <2>4, <2>5, <2>6
<1>3. /\ DOMAIN df_to_table(d) = DOMAIN cols
      /\ \A i \in DOMAIN cols : /\ df_to_table(d)[i].name = cols[i].col.name
                                /\ df_to_table(d)[i].array = extract_arrays(d)[i]
  BY DEF df_to_table
<1> QED
  BY <1>2, <1>3 DEF HoldsFrame

\* and so does a table that a client has sent, in each of the layouts.
LEMMA SentTableHolds ==
  ASSUME NEW d \in Frames, NEW layout \in Layouts, NEW own, own = FALSE
  PROVE  HoldsFrame([i \in DOMAIN Columns(d) |->
                       [name |-> Columns(d)[i].col.name,
                        array |-> Laid(layout, Columns(d)[i])]], d, own)
<1> DEFINE cols == Columns(d)
<1>1. IsDataFrame(d) /\ layout \in {"dictionary", "typed", "chunks", "list"}
  BY ImportAssumption
<1>2. ASSUME NEW i \in DOMAIN cols, can_read(Laid(layout, cols[i]))
      PROVE  KeepsColumn(Laid(layout, cols[i]), cols[i], FALSE)
  <2>1. cols[i] \in Range(Columns(d))
    BY DEF Range
  <2>2. IsColumn(cols[i])
    BY <1>1, <2>1, FrameColumns
  <2> DEFINE c == cols[i]
  <2>3. IsColumn(c) /\ can_read(Laid(layout, c))
    BY <1>2, <2>2
  <2>4. KeepsColumn(Laid(layout, c), c, FALSE)
    <3> HIDE DEF c
    <3> QED
      BY <1>1, <2>3, LaidKeeps
  <2> QED
    BY <2>4
<1> QED
  BY <1>2 DEF HoldsFrame

\* The array of the column of a name.
ArrayNamed(t, name) == t[IndexOf([i \in DOMAIN t |-> t[i].name], name)].array

\* The array that has the name of a column keeps that column.
LEMMA NamedArrayKeeps ==
  ASSUME NEW d, IsDataFrame(d), NEW t, NEW own, HoldsFrame(t, d, own),
         NEW c \in Range(Columns(d)),
         can_read(ArrayNamed(t, c.col.name))
  PROVE  KeepsColumn(ArrayNamed(t, c.col.name), c, own)
<1> DEFINE cols == Columns(d)
           names == [i \in DOMAIN t |-> t[i].name]
           name == c.col.name
<1>1. PICK S : cols \in Seq(S)
  BY FrameColumns
<1>2. PICK n \in Nat : DOMAIN cols = 1 .. n
  BY <1>1
<1>3. DOMAIN names = 1 .. n /\ \A i \in 1 .. n : names[i] = cols[i].col.name
  BY <1>2 DEF HoldsFrame
<1>4. \E i \in 1 .. n : names[i] = name
  <2>1. PICK i \in DOMAIN cols : cols[i] = c
    BY DEF Range
  <2> QED
    BY <1>2, <1>3, <2>1
<1> DEFINE at == IndexOf(names, name)
<1>5. at \in 1 .. n /\ names[at] = name
  <2> HIDE DEF names, name
  <2> QED
    BY <1>3, <1>4, IndexFinds
<1>6. ArrayNamed(t, c.col.name) = t[at].array
  BY DEF ArrayNamed
<1> HIDE DEF at
<1>7. cols[at] \in Range(Columns(d)) /\ cols[at].col.name = c.col.name
  <2>1. at \in DOMAIN cols
    BY <1>2, <1>5
  <2>2. cols[at].col.name = c.col.name
    BY <1>3, <1>5
  <2> QED
    BY <2>1, <2>2 DEF Range
<1>8. cols[at] = c
  BY <1>7, FrameColumns
<1>9. at \in DOMAIN t
  BY <1>3, <1>5
<1> QED
  BY <1>6, <1>8, <1>9 DEF HoldsFrame

\* table_to_df reads the columns of a schema by their names.
LEMMA TableRead ==
  ASSUME NEW t, NEW schema, table_to_df(t, schema) # Failure
  PROVE  /\ \A name \in Range(concat_colnames(schema)) :
              can_read(ArrayNamed(t, name))
         /\ table_to_df(t, schema) =
              [role \in Range(AllRoles) |->
                 [i \in DOMAIN schema[role] |->
                    NamedColumn(schema[role][i],
                      IF role \in StringRoles
                      THEN to_string_column(ArrayNamed(t, schema[role][i]))
                      ELSE to_float_column(ArrayNamed(t, schema[role][i])))]]
<1> DEFINE names == [i \in DOMAIN t |-> t[i].name]
           wanted == Range(concat_colnames(schema))
           frame == [role \in Range(AllRoles) |->
                       [i \in DOMAIN schema[role] |->
                          NamedColumn(schema[role][i],
                            IF role \in StringRoles
                            THEN to_string_column(ArrayNamed(t, schema[role][i]))
                            ELSE to_float_column(ArrayNamed(t, schema[role][i])))]]
           unread == \/ ~ wanted \subseteq Range(names)
                    \/ \E name \in wanted : ~ can_read(ArrayNamed(t, name))
<1>1. table_to_df(t, schema) = IF unread THEN Failure ELSE frame
  BY Zenon DEF table_to_df, ArrayNamed
<1>2. ~ unread
  <2> HIDE DEF unread, frame
  <2> QED
    BY <1>1
<1>3. table_to_df(t, schema) = frame
  <2> HIDE DEF unread, frame
  <2> QED
    BY <1>1, <1>2
<1> QED
  BY <1>2, <1>3, Zenon

\* A column that is read by its name.
LEMMA ColumnRead ==
  ASSUME NEW d, IsDataFrame(d), NEW t, NEW own, HoldsFrame(t, d, own), NEW schema,
         \A role \in Range(AllRoles) : schema[role] \in Seq(Strings),
         table_to_df(t, schema) # Failure,
         NEW role \in Range(AllRoles), NEW i \in DOMAIN schema[role],
         NEW c \in Range(Columns(d)), c.col.name = schema[role][i]
  PROVE  LET item == table_to_df(t, schema)[role][i]
         IN  /\ DOMAIN table_to_df(t, schema)[role] = DOMAIN schema[role]
             /\ item.name = c.col.name
             /\ \E arr : /\ KeepsColumn(arr, c, own)
                         /\ item.data = IF role \in StringRoles
                                        THEN to_string_column(arr)
                                        ELSE to_float_column(arr)
<1> DEFINE arr == ArrayNamed(t, c.col.name)
<1>1. schema[role][i] \in Range(concat_colnames(schema))
  <2>1. \A x : x \in Range(concat_colnames(schema))
               <=> \E s \in Range(AllRoles) : x \in Range(schema[s])
    <3> DEFINE joined == FlattenSeq([k \in DOMAIN AllRoles |-> schema[AllRoles[k]]])
    <3>1. \A x : x \in Range(joined)
                 <=> \E s \in Range(AllRoles) : x \in Range(schema[s])
      BY JoinedOverRoles, Zenon
    <3> QED
      BY <3>1, Zenon DEF concat_colnames
  <2>2. schema[role][i] \in Range(schema[role])
    BY DEF Range
  <2> QED
    BY <2>1, <2>2
<1>2. can_read(arr)
  BY <1>1, TableRead
<1>3. KeepsColumn(arr, c, own)
  BY <1>2, NamedArrayKeeps
<1>4. table_to_df(t, schema)[role] =
        [k \in DOMAIN schema[role] |->
           NamedColumn(schema[role][k],
             IF role \in StringRoles
             THEN to_string_column(ArrayNamed(t, schema[role][k]))
             ELSE to_float_column(ArrayNamed(t, schema[role][k])))]
  BY TableRead
<1>5. table_to_df(t, schema)[role][i] =
        NamedColumn(c.col.name,
             IF role \in StringRoles THEN to_string_column(arr)
             ELSE to_float_column(arr))
  BY <1>4
<1> DEFINE val == IF role \in StringRoles THEN to_string_column(arr)
                  ELSE to_float_column(arr)
           item == table_to_df(t, schema)[role][i]
<1>8. item = NamedColumn(c.col.name, val)
  BY <1>5
<1>9. item.name = c.col.name /\ item.data = val
  <2> HIDE DEF item, val
  <2> QED
    BY <1>8 DEF NamedColumn
<1> HIDE DEF arr
<1>6. /\ table_to_df(t, schema)[role][i].name = c.col.name
      /\ table_to_df(t, schema)[role][i].data =
           IF role \in StringRoles THEN to_string_column(arr)
           ELSE to_float_column(arr)
  BY <1>9
<1>7. DOMAIN table_to_df(t, schema)[role] = DOMAIN schema[role]
  BY <1>4
<1> QED
  BY <1>3, <1>6, <1>7

\* The cells of a data frame are those of its columns.
LEMMA CellsAre ==
  ASSUME NEW d
  PROVE  \A x : x \in CellsOf(d)
                <=> \E c \in Range(Columns(d)) : x = <<c.col.name, c.col.data>>
BY DEF CellsOf, Range

\* What is read of a column in the role in which it can be read is what was sent.
LEMMA DataRead ==
  ASSUME NEW c, IsColumn(c), NEW arr, NEW own, KeepsColumn(arr, c, own), NEW data,
         data = IF ReadingRole(c) \in StringRoles
                THEN to_string_column(arr) ELSE to_float_column(arr)
  PROVE  /\ DOMAIN data = DOMAIN c.col.data
         /\ \A n \in DOMAIN c.col.data : data[n] \in SentAs(c, c.col.data[n], own)
<1>1. ReadingRole(c) \in StringRoles <=> c.role \in StringRoles
  BY DEF ReadingRole, is_ts, StringRoles
<1>2. CASE c.role \in StringRoles
  <2>1. data = SentStrings(c.col.data, own)
    BY <1>1, <1>2 DEF KeepsColumn, KeepsStrings
  <2>2. \A str : Sent(str, own) \in SentAs(c, str, own)
    BY <1>2 DEF Sent, SentAs
  <2> QED
    BY <2>1, <2>2 DEF SentStrings
<1>3. CASE c.role \notin StringRoles
  <2> DEFINE exact == own /\ c.col.unit # "time stamp"
             len == Len(c.col.data)
  <2>1. DOMAIN c.col.data = 1 .. len
    BY <1>3 DEF IsColumn
  <2>2. KeepsNumbers(arr, c.col.data, exact) /\ data = to_float_column(arr)
    BY <1>1, <1>3 DEF KeepsColumn
  <2>3. \A v : Allowed(v, exact) = SentAs(c, v, own)
    BY <1>3 DEF Allowed, SentAs
  <2> HIDE DEF exact
  <2>4. DOMAIN data = 1 .. len /\ \A m \in 1 .. len : data[m] \in Allowed(c.col.data[m], exact)
    BY <2>2 DEF KeepsNumbers
  <2> QED
    BY <2>1, <2>3, <2>4
<1> QED
  BY <1>2, <1>3

\* Every column of one frame arrives as one of the other, and no others are there.
SameColumns(d, f, own) ==
  /\ \A c \in Range(Columns(d)) : \E read \in Range(Columns(f)) : Arrives(c, read, own)
  /\ \A read \in Range(Columns(f)) : \E c \in Range(Columns(d)) : Arrives(c, read, own)

\* What is read of a table that holds a data frame are its columns, each with the
\* cells that may arrive for its own.
LEMMA TableKeepsCells ==
  ASSUME NEW d, IsDataFrame(d), NEW t, NEW own, HoldsFrame(t, d, own),
         table_to_df(t, SchemaOf(d)) # Failure
  PROVE  SameColumns(d, table_to_df(t, SchemaOf(d)), own)
<1> DEFINE schema == SchemaOf(d)
           f == table_to_df(t, schema)
           R == Range(AllRoles)
           S == UNION {Range(f[role]) : role \in R}
           cols == Range(Columns(d))
<1>0. \A role \in R : schema[role] \in Seq(Strings)
  BY SchemaNames
<1>1. ASSUME NEW role \in R PROVE DOMAIN f[role] = DOMAIN schema[role] /\ f[role] \in Seq(S)
  <2> DEFINE len == Len(schema[role])
             item(k) == NamedColumn(schema[role][k],
                          IF role \in StringRoles
                          THEN to_string_column(ArrayNamed(t, schema[role][k]))
                          ELSE to_float_column(ArrayNamed(t, schema[role][k])))
  <2>1. f[role] = [k \in DOMAIN schema[role] |-> item(k)]
    BY TableRead
  <2>2. len \in Nat /\ DOMAIN schema[role] = 1 .. len
    BY <1>0
  <2> HIDE DEF f, schema, item, len
  <2>3. DOMAIN f[role] = 1 .. len /\ f[role] = [k \in 1 .. len |-> item(k)]
    BY <2>1, <2>2
  <2>4. \A k \in 1 .. len : f[role][k] \in S
    <3>1. \A k \in 1 .. len : f[role][k] \in Range(f[role])
      BY <2>3 DEF Range
    <3> QED
      BY <3>1
  <2> HIDE DEF S
  <2>5. f[role] \in [1 .. len -> S]
    BY <2>3, <2>4
  <2> QED
    BY <2>2, <2>3, <2>5
<1>2. \A x : x \in Range(Columns(f))
             <=> \E role \in R : \E i \in DOMAIN f[role] : x = [role |-> role, col |-> f[role][i]]
  <2>1. \A role \in Range(AllRoles) : f[role] \in Seq(S)
    BY <1>1
  <2> HIDE DEF f, S, R
  <2>2. Listed(f, S)
    BY ONLY <2>1, ColumnsAre
  <2> QED
    BY <2>2 DEF Listed, R
<1>3. ASSUME NEW role \in R, NEW i \in DOMAIN schema[role], NEW c \in cols,
             ReadingRole(c) = role, schema[role][i] = c.col.name
      PROVE  \A read : read.col = f[role][i] => Arrives(c, read, own)
  <2>1. /\ f[role][i].name = c.col.name
        /\ \E arr : /\ KeepsColumn(arr, c, own)
                    /\ f[role][i].data = IF role \in StringRoles
                                         THEN to_string_column(arr)
                                         ELSE to_float_column(arr)
    BY <1>0, <1>3, ColumnRead
  <2>2. PICK arr : /\ KeepsColumn(arr, c, own)
                   /\ f[role][i].data = IF role \in StringRoles
                                        THEN to_string_column(arr)
                                        ELSE to_float_column(arr)
    BY <2>1
  <2> HIDE DEF f, schema
  <2>3. IsColumn(c)
    BY FrameColumns
  <2> DEFINE data == f[role][i].data
  <2>4. data = IF ReadingRole(c) \in StringRoles THEN to_string_column(arr)
               ELSE to_float_column(arr)
    BY <1>3, <2>2
  <2> HIDE DEF data
  <2>5. /\ DOMAIN data = DOMAIN c.col.data
        /\ \A n \in DOMAIN c.col.data : data[n] \in SentAs(c, c.col.data[n], own)
    BY <2>2, <2>3, <2>4, DataRead
  <2> QED
    BY <2>1, <2>5 DEF data, Arrives
<1>4. \A role \in R : \A x : x \in Range(schema[role])
        <=> \E c \in cols : ReadingRole(c) = role /\ x = c.col.name
  <2>1. \A role \in R : NamesAre(schema[role], d, role)
    BY SchemaNames
  <2> QED
    BY <2>1 DEF NamesAre
<1> HIDE DEF f, schema, S
<1>5. ASSUME NEW y \in Range(Columns(f)) PROVE \E c \in cols : Arrives(c, y, own)
  <2>2. PICK role \in R : \E i \in DOMAIN f[role] : y = [role |-> role, col |-> f[role][i]]
    BY <1>2
  <2>3. PICK i \in DOMAIN f[role] : y = [role |-> role, col |-> f[role][i]]
    BY <2>2
  <2>4. i \in DOMAIN schema[role] /\ schema[role][i] \in Range(schema[role])
    BY <1>1 DEF Range
  <2>5. PICK c \in cols : ReadingRole(c) = role /\ schema[role][i] = c.col.name
    BY <1>4, <2>4
  <2>7. y.col = f[role][i]
    BY <2>3
  <2> QED
    BY <1>3, <2>4, <2>5, <2>7
<1>6. ASSUME NEW c \in cols PROVE \E y \in Range(Columns(f)) : Arrives(c, y, own)
  <2> DEFINE role == ReadingRole(c)
  <2>2. role \in R
    <3>1. c.role \in R
      BY FrameColumns
    <3> QED
      BY <3>1, RolesAre DEF ReadingRole
  <2>3. c.col.name \in Range(schema[role])
    BY <1>4, <2>2
  <2>4. PICK i \in DOMAIN schema[role] : schema[role][i] = c.col.name
    BY <2>3 DEF Range
  <2> DEFINE y == [role |-> role, col |-> f[role][i]]
  <2>5. y.col = f[role][i]
    OBVIOUS
  <2> HIDE DEF role
  <2>6. y \in Range(Columns(f))
    <3>1. i \in DOMAIN f[role]
      BY <1>1, <2>2
    <3> QED
      BY <1>2, <2>2, <3>1
  <2> HIDE DEF y
  <2>7. Arrives(c, y, own)
    BY <1>3, <2>2, <2>4, <2>5 DEF role
  <2> QED
    BY <2>6, <2>7
<1>7. SameColumns(d, f, own)
  BY <1>5, <1>6 DEF SameColumns
<1> QED
  BY <1>7 DEF f, schema

\* What the texts of a number say.
LEMMA TrimWord ==
  ASSUME NEW word, word \notin WHITESPACE
  PROVE  trim(<<word>>) = <<word>> /\ Len(<<word>>) = 1 /\ <<word>>[1] = word
<1> DEFINE str == <<word>>
           kept == {i \in DOMAIN str : str[i] \notin WHITESPACE}
<1>1. DOMAIN str = {1} /\ str[1] = word /\ str \in Seq({word}) /\ Len(str) = 1
  OBVIOUS
<1>2. kept = {1}
  <2> HIDE DEF str
  <2> QED
    BY <1>1
<1>3. Min({1}) = 1 /\ Max({1}) = 1
  BY DEF Min, Max
<1>4. SubSeq(str, 1, 1) = str
  <2> DEFINE part == SubSeq(str, 1, 1)
  <2> HIDE DEF str
  <2>1. part \in Seq({word}) /\ Len(part) = 1 /\ part[1] = str[1]
    BY <1>1
  <2>2. Len(str) = Len(part) /\ \A i \in 1 .. Len(str) : str[i] = part[i]
    BY <1>1, <2>1
  <2> HIDE DEF part
  <2>3. part = str
    BY <1>1, <2>1, <2>2
  <2> QED
    BY <2>3 DEF part
<1>5. trim(str) = IF kept = {} THEN <<>> ELSE SubSeq(str, Min(kept), Max(kept))
  BY DEF trim
<1> HIDE DEF kept, str
<1>6. trim(str) = str
  BY <1>2, <1>3, <1>4, <1>5
<1> QED
  BY <1>1, <1>6 DEF str

\* Words of numbers and nulls are no blanks.
LEMMA WordsAreNoBlanks ==
  ASSUME NEW kind \in {"number", "date", "second", "fraction", "nan", "NULL", "null"}, NEW v
  PROVE  <<kind, v>> \notin WHITESPACE /\ <<kind, v>>[1] = kind /\ <<kind, v>>[2] = v
<1>1. <<kind, v>>[1] = kind /\ <<kind, v>>[2] = v
  OBVIOUS
<1>2. kind # "n"
  OBVIOUS
<1>3. kind # " "
  BY Zenon
<1>4. <<kind, v>> # <<" ", 0>> /\ <<kind, v>> # <<"n", 10>>
  BY <1>2, <1>3, Zenon
<1> QED
  BY <1>1, <1>4, Zenon DEF WHITESPACE, BLANK, LF

\* get_time_stamp reads a word of a number or of a time stamp, whatever the formats,
\* as long as they read what the engine writes,
LEMMA WordRead ==
  ASSUME NEW kind \in {"number", "date", "second", "fraction"}, NEW v,
         NEW time_formats, ReadsTimes(time_formats)
  PROVE  <<<<kind, v>>>> # NULL /\ get_time_stamp(<<<<kind, v>>>>, time_formats) = v
<1>0. "date" \in time_formats /\ "second" \in time_formats /\ "fraction" \in time_formats
  BY DEF ReadsTimes
<1> DEFINE word == <<kind, v>>
<1>2. word \notin WHITESPACE /\ word[1] = kind /\ word[2] = v
  BY WordsAreNoBlanks
<1>3. <<word>> # NULL
  <2>1. word[1] # "NULL"
    BY <1>2
  <2> HIDE DEF word
  <2>2. <<word>>[1] = word /\ NULL[1] = <<"NULL", 1>> /\ <<"NULL", 1>>[1] = "NULL"
    BY DEF NULL
  <2> QED
    BY <2>1, <2>2
<1> HIDE DEF word
<1>4. trim(<<word>>) = <<word>> /\ Len(<<word>>) = 1 /\ <<word>>[1] = word
  BY <1>2, TrimWord
<1>5. CASE kind \in time_formats
  <2>1. to_time_stamp(<<word>>, time_formats) = Parsed(v)
    BY <1>2, <1>4, <1>5 DEF to_time_stamp
  <2>2. get_time_stamp(<<word>>, time_formats) = v
    BY <2>1 DEF get_time_stamp, Parsed
  <2> QED
    BY <1>3, <2>2 DEF word
<1>6. CASE kind \notin time_formats
  <2>0. kind = "number"
    BY <1>0, <1>6
  <2>1. to_time_stamp(<<word>>, time_formats).success = FALSE
    BY <1>2, <1>4, <1>6 DEF to_time_stamp, Failed
  <2>2. to_double(<<word>>) = Parsed(v)
    BY <1>2, <1>4, <2>0 DEF to_double
  <2>3. get_double(<<word>>) = v
    BY <2>2 DEF get_double, Parsed
  <2>4. get_time_stamp(<<word>>, time_formats) = v
    BY <2>1, <2>3 DEF get_time_stamp
  <2> QED
    BY <1>3, <2>4 DEF word
<1> QED
  BY <1>5, <1>6

\* and no number from the text of a null.
LEMMA NullRead ==
  ASSUME NEW n, NEW time_formats, ReadsTimes(time_formats)
  PROVE  get_time_stamp(<<<<"NULL", n>>>>, time_formats) = NAN
<1> DEFINE word == <<"NULL", n>>
<1>2. word \notin WHITESPACE /\ word[1] = "NULL"
  BY WordsAreNoBlanks
<1> HIDE DEF word
<1>3. trim(<<word>>) = <<word>> /\ Len(<<word>>) = 1 /\ <<word>>[1] = word
  BY <1>2, TrimWord
<1>4. to_time_stamp(<<word>>, time_formats).success = FALSE
  BY <1>2, <1>3 DEF to_time_stamp, Failed, ReadsTimes
<1>5. to_double(<<word>>) = Failed
  BY <1>2, <1>3 DEF to_double
<1>6. get_double(<<word>>) = NAN
  BY <1>5 DEF get_double, Failed
<1>7. get_time_stamp(<<word>>, time_formats) = NAN
  BY <1>4, <1>6 DEF get_time_stamp
<1> QED
  BY <1>7 DEF word

\* A time stamp is written as whole seconds, or cut to microseconds.
LEMMA StampWritten ==
  ASSUME NEW w \in Nat
  PROVE  \E kind \in {"date", "second", "fraction"} :
           ts_to_string(w) = <<<<kind, IF w % ONE = 0 THEN w ELSE Micros(w)>>>>
<1>1. w # NAN
  BY DEF NAN
<1>2. w % DAY = 0 => w % ONE = 0
  BY DEF DAY, ONE
<1> DEFINE u == Micros(w)
<1>3. ts_to_string(w) = IF w % DAY = 0 THEN <<<<"date", w>>>>
                        ELSE IF w % ONE = 0 THEN <<<<"second", w>>>>
                        ELSE <<<<"fraction", u>>>>
  BY <1>1 DEF ts_to_string
<1> HIDE DEF u
<1> DEFINE s == ts_to_string(w)
<1>4. CASE w % DAY = 0
  BY <1>2, <1>3, <1>4
<1>5. CASE w % DAY # 0 /\ w % ONE = 0
  BY <1>3, <1>5
<1>6. CASE w % DAY # 0 /\ w % ONE # 0
  BY <1>3, <1>6 DEF u
<1> QED
  BY <1>4, <1>5, <1>6

\* get_time_stamp reads a number or a time stamp from every text that may stand for it,
\* but for the digits that the text has not.
LEMMA TimesRead ==
  ASSUME NEW v \in Rounded, NEW text \in TextsOf(v), NEW time_formats, ReadsTimes(time_formats)
  PROVE  /\ text = NULL <=> v = NAN
         /\ v # NAN => get_time_stamp(text, time_formats) \in Near(v, DIGIT)
<1>1. CASE v = NAN
  BY <1>1 DEF TextsOf
<1>2. CASE v # NAN
  <2>0. /\ v \in Nat /\ Rounds(v) /\ ULP \in Nat /\ DIGIT \in Nat /\ ULP <= DIGIT
    BY <1>2, RoundingAssumption DEF Rounded
  <2>1. \E kind \in {"number", "date", "second", "fraction"} : \E w \in Near(v, DIGIT) :
          text = <<<<kind, w>>>>
    <3>1. CASE text \in {<<Number(w)>> : w \in Near(v, DIGIT)}
      BY <3>1 DEF Number
    <3>2. CASE text \in {ts_to_string(w) : w \in Near(v, ULP)}
      <4>1. PICK w \in Near(v, ULP) : text = ts_to_string(w)
        BY <3>2
      <4>2. w \in Nat /\ w \in Near(v, DIGIT)
        BY <2>0 DEF Near
      <4>3. Micros(w) \in Near(v, DIGIT)
        BY <2>0 DEF Rounds
      <4>4. PICK kind \in {"date", "second", "fraction"} :
              ts_to_string(w) = <<<<kind, IF w % ONE = 0 THEN w ELSE Micros(w)>>>>
        BY <4>2, StampWritten
      <4> DEFINE u == IF w % ONE = 0 THEN w ELSE Micros(w)
      <4>5. u \in Near(v, DIGIT)
        BY <4>2, <4>3
      <4>6. text = <<<<kind, u>>>>
        BY <4>1, <4>4
      <4> HIDE DEF u
      <4> QED
        BY <4>5, <4>6
    <3> QED
      BY <1>2, <3>1, <3>2 DEF TextsOf
  <2>2. PICK kind \in {"number", "date", "second", "fraction"}, w \in Near(v, DIGIT) :
          text = <<<<kind, w>>>>
    BY <2>1
  <2>3. text # NULL /\ get_time_stamp(text, time_formats) = w
    BY <2>2, WordRead
  <2> QED
    BY <1>2, <2>3
<1> QED
  BY <1>1, <1>2

\* The same with the formats that the engine is given.
LEMMA TextSays ==
  ASSUME NEW v \in Rounded, NEW text \in TextsOf(v)
  PROVE  /\ text = NULL <=> v = NAN
         /\ v # NAN => get_time_stamp(text, Formats_) \in Near(v, DIGIT)
BY ImportAssumption, TimesRead

\* Read as strings, a column still says what it holds.
LEMMA TextsSay ==
  ASSUME NEW c, IsColumn(c), NEW arr, NEW own, KeepsColumn(arr, c, own)
  PROVE  /\ Len(to_string_column(arr)) = Len(c.col.data)
         /\ Says(c, to_string_column(arr), own)
<1> DEFINE data == c.col.data
           texts == to_string_column(arr)
<1>1. CASE c.role \in StringRoles
  <2>1. texts = SentStrings(data, own)
    BY <1>1 DEF KeepsColumn, KeepsStrings
  <2>2. data \in Seq(Strings)
    BY <1>1 DEF IsColumn
  <2>3. \A str : Sent(str, own) \in SentAs(c, str, own)
    BY <1>1 DEF Sent, SentAs
  <2>4. Len(texts) = Len(data)
    <3> HIDE DEF texts, data
    <3> QED
      BY <2>1, <2>2, SentTyped
  <2>5. \A n \in DOMAIN texts : texts[n] \in SentAs(c, data[n], own)
    BY <2>1, <2>3 DEF SentStrings
  <2> QED
    BY <1>1, <2>4, <2>5 DEF Says
<1>2. CASE c.role \notin StringRoles
  <2> DEFINE exact == own /\ c.col.unit # "time stamp"
  <2>0. KeepsNumbers(arr, data, exact)
    BY <1>2 DEF KeepsColumn
  <2> HIDE DEF exact
  <2>1. /\ DOMAIN texts = 1 .. Len(data)
        /\ texts \in Seq(UNION {TextsOf(data[m]) : m \in 1 .. Len(data)})
        /\ \A m \in 1 .. Len(data) : texts[m] \in TextsOf(data[m])
    BY <2>0 DEF KeepsNumbers
  <2>2. data \in Seq(Rounded)
    BY <1>2 DEF IsColumn
  <2> HIDE DEF texts, data
  <2>3. Len(texts) = Len(data)
    BY <2>1, <2>2
  <2>4. ASSUME NEW n \in DOMAIN texts
        PROVE  /\ texts[n] = NULL <=> data[n] = NAN
               /\ data[n] # NAN => get_time_stamp(texts[n], Formats_) \in Near(data[n], DIGIT)
    <3>1. data[n] \in Rounded /\ texts[n] \in TextsOf(data[n])
      BY <2>1, <2>2
    <3> QED
      BY <3>1, TextSays
  <2> QED
    BY <1>2, <2>3, <2>4 DEF Says, texts, data
<1> QED
  BY <1>1, <1>2

\* The schema for strings has the names of all columns.
LEMMA NamesOfTable ==
  ASSUME NEW d, IsDataFrame(d), NEW t, NEW own, HoldsFrame(t, d, own)
  PROVE  LET schema == [r \in Range(AllRoles) |->
                          IF r = "unused_string" THEN [i \in DOMAIN t |-> t[i].name] ELSE <<>>]
         IN  /\ \A role \in Range(AllRoles) : schema[role] \in Seq(Strings)
             /\ DOMAIN schema["unused_string"] = DOMAIN Columns(d)
             /\ \A i \in DOMAIN Columns(d) :
                  schema["unused_string"][i] = Columns(d)[i].col.name
<1> DEFINE schema == [r \in Range(AllRoles) |->
                        IF r = "unused_string" THEN [i \in DOMAIN t |-> t[i].name] ELSE <<>>]
           names == [i \in DOMAIN t |-> t[i].name]
           cols == Columns(d)
<1>1. PICK S : cols \in Seq(S)
  BY FrameColumns
<1>2. PICK n \in Nat : DOMAIN cols = 1 .. n
  BY <1>1
<1>3. DOMAIN names = 1 .. n /\ \A i \in 1 .. n : names[i] = cols[i].col.name
  BY <1>2 DEF HoldsFrame
<1>4. \A i \in 1 .. n : cols[i].col.name \in Strings
  <2> TAKE i \in 1 .. n
  <2>1. cols[i] \in Range(Columns(d))
    BY <1>2 DEF Range
  <2> QED
    BY <2>1, FrameColumns
<1>5. names \in Seq(Strings)
  <2>1. names = [i \in 1 .. n |-> cols[i].col.name]
    BY <1>2 DEF HoldsFrame
  <2>2. names \in [1 .. n -> Strings]
    BY <1>4, <2>1
  <2> HIDE DEF names
  <2> QED
    BY <2>2
<1>6. <<>> \in Seq(Strings)
  OBVIOUS
<1>7. schema["unused_string"] = names
  BY RolesAre
<1>8. \A role \in Range(AllRoles) : schema[role] \in Seq(Strings)
  <2> TAKE role \in Range(AllRoles)
  <2>1. schema[role] = IF role = "unused_string" THEN names ELSE <<>>
    OBVIOUS
  <2> HIDE DEF schema, names
  <2> QED
    BY <1>5, <1>6, <2>1
<1> HIDE DEF names
<1>9. /\ DOMAIN schema["unused_string"] = DOMAIN cols
      /\ \A i \in DOMAIN cols : schema["unused_string"][i] = cols[i].col.name
  BY <1>2, <1>3, <1>7
<1> QED
  BY <1>8, <1>9

\* Read as strings alone, an arrow table still says all the numbers.
LEMMA StringsSayAll ==
  ASSUME NEW d \in Frames, NEW t, NEW own, HoldsFrame(t, d, own), NEW schema,
         \A role \in Range(AllRoles) : schema[role] \in Seq(Strings),
         DOMAIN schema["unused_string"] = DOMAIN Columns(d),
         \A i \in DOMAIN Columns(d) :
           schema["unused_string"][i] = Columns(d)[i].col.name,
         table_to_df(t, schema) # Failure
  PROVE  \A i \in DOMAIN Columns(d) :
           LET item == table_to_df(t, schema)["unused_string"][i]
           IN /\ item.name = Columns(d)[i].col.name
              /\ Len(item.data) = row_count(d)
              /\ Says(Columns(d)[i], item.data, own)
<1> TAKE i \in DOMAIN Columns(d)
<1> DEFINE c == Columns(d)[i]
           item == table_to_df(t, schema)["unused_string"][i]
<1>1. IsDataFrame(d)
  BY ImportAssumption
<1>2. c \in Range(Columns(d)) /\ c.col.name = schema["unused_string"][i]
  BY DEF Range
<1>3. "unused_string" \in Range(AllRoles) /\ "unused_string" \in StringRoles
  BY RolesAre DEF StringRoles
<1>4. /\ item.name = c.col.name
      /\ \E arr : KeepsColumn(arr, c, own) /\ item.data = to_string_column(arr)
  <2>1. i \in DOMAIN schema["unused_string"]
    OBVIOUS
  <2> DEFINE role == "unused_string"
  <2>2. role \in Range(AllRoles) /\ role \in StringRoles
        /\ i \in DOMAIN schema[role] /\ c.col.name = schema[role][i]
    BY <1>2, <1>3, <2>1
  <2>3. item = table_to_df(t, schema)[role][i]
    OBVIOUS
  <2> HIDE DEF role, c, item
  <2> QED
    BY <1>1, <1>2, <2>2, <2>3, ColumnRead
<1>5. PICK arr : KeepsColumn(arr, c, own) /\ item.data = to_string_column(arr)
  BY <1>4
<1>6. IsColumn(c)
  BY <1>1, <1>2, FrameColumns
<1>7. Len(c.col.data) = row_count(d)
  <2>1. PICK S : Columns(d) \in Seq(S)
    BY <1>1, FrameColumns
  <2>2. Columns(d) # <<>> /\ 1 \in DOMAIN Columns(d)
    BY <2>1
  <2>3. Columns(d)[1] \in Range(Columns(d))
    BY <2>2 DEF Range
  <2>4. Len(c.col.data) = Len(Columns(d)[1].col.data)
    BY <1>1, <1>2, <2>3, FrameColumns
  <2> QED
    BY <2>2, <2>4 DEF row_count
<1> HIDE DEF c, item
<1>8. /\ Len(to_string_column(arr)) = Len(c.col.data)
      /\ Says(c, to_string_column(arr), own)
  BY <1>5, <1>6, TextsSay
<1>9. item.name = c.col.name /\ Len(item.data) = row_count(d) /\ Says(c, item.data, own)
  BY <1>4, <1>5, <1>7, <1>8
<1> QED
  BY <1>9 DEF c, item

\* A data frame f that has the columns of d in the roles in which they are read, with
\* the cells that are wanted of each.
HoldsColumns(f, d, want) ==
  /\ \A role \in Range(AllRoles) : f[role] = [i \in DOMAIN SchemaOf(d)[role] |-> f[role][i]]
  /\ \A c \in Range(Columns(d)) : \A i \in DOMAIN SchemaOf(d)[ReadingRole(c)] :
       SchemaOf(d)[ReadingRole(c)][i] = c.col.name =>
         f[ReadingRole(c)][i].name = c.col.name /\ f[ReadingRole(c)][i].data = want[c]

\* Columns that hold what is wanted of the columns of a data frame have those
\* cells.
LEMMA CellsFound ==
  ASSUME NEW d, IsDataFrame(d), NEW f, NEW want, HoldsColumns(f, d, want)
  PROVE  CellsOf(f) = {<<c.col.name, want[c]>> : c \in Range(Columns(d))}
<1> USE DEF HoldsColumns
<1> DEFINE schema == SchemaOf(d)
           R == Range(AllRoles)
           S == UNION {Range(f[role]) : role \in R}
           cols == Range(Columns(d))
<1>1. ASSUME NEW role \in R PROVE DOMAIN f[role] = DOMAIN schema[role] /\ f[role] \in Seq(S)
  <2> DEFINE len == Len(schema[role])
  <2>1. f[role] = [i \in DOMAIN schema[role] |-> f[role][i]]
    OBVIOUS
  <2>2. len \in Nat /\ DOMAIN schema[role] = 1 .. len
    BY SchemaNames
  <2> HIDE DEF schema, len
  <2>3. DOMAIN f[role] = 1 .. len /\ f[role] = [k \in 1 .. len |-> f[role][k]]
    BY <2>1, <2>2
  <2>4. \A k \in 1 .. len : f[role][k] \in S
    <3>1. \A k \in 1 .. len : f[role][k] \in Range(f[role])
      BY <2>3 DEF Range
    <3> QED
      BY <3>1
  <2> HIDE DEF S
  <2>5. f[role] \in [1 .. len -> S]
    BY <2>3, <2>4
  <2> QED
    BY <2>2, <2>3, <2>5
<1>2. \A x : x \in Range(Columns(f))
             <=> \E role \in R : \E i \in DOMAIN f[role] : x = [role |-> role, col |-> f[role][i]]
  <2>1. \A role \in Range(AllRoles) : f[role] \in Seq(S)
    BY <1>1
  <2> HIDE DEF S, R
  <2>2. Listed(f, S)
    BY ONLY <2>1, ColumnsAre
  <2> QED
    BY <2>2 DEF Listed, R
<1>3. \A role \in R : \A x : x \in Range(schema[role])
        <=> \E c \in cols : ReadingRole(c) = role /\ x = c.col.name
  <2>1. \A role \in R : NamesAre(schema[role], d, role)
    BY SchemaNames
  <2> QED
    BY <2>1 DEF NamesAre
<1> HIDE DEF schema, S
<1>4. ASSUME NEW x \in CellsOf(f) PROVE \E c \in cols : x = <<c.col.name, want[c]>>
  <2>1. PICK y \in Range(Columns(f)) : x = <<y.col.name, y.col.data>>
    BY CellsAre
  <2>2. PICK role \in R : \E i \in DOMAIN f[role] : y = [role |-> role, col |-> f[role][i]]
    BY <1>2
  <2>3. PICK i \in DOMAIN f[role] : y = [role |-> role, col |-> f[role][i]]
    BY <2>2
  <2>4. i \in DOMAIN schema[role] /\ schema[role][i] \in Range(schema[role])
    BY <1>1 DEF Range
  <2>5. PICK c \in cols : ReadingRole(c) = role /\ schema[role][i] = c.col.name
    BY <1>3, <2>4
  <2>6. f[role][i].name = c.col.name /\ f[role][i].data = want[c]
    BY <2>4, <2>5 DEF schema
  <2>7. y.col = f[role][i]
    BY <2>3
  <2> QED
    BY <2>1, <2>6, <2>7
<1>5. ASSUME NEW c \in cols PROVE <<c.col.name, want[c]>> \in CellsOf(f)
  <2> DEFINE role == ReadingRole(c)
             x == <<c.col.name, want[c]>>
  <2>2. role \in R
    <3>1. c.role \in R
      BY FrameColumns
    <3> QED
      BY <3>1, RolesAre DEF ReadingRole
  <2>3. c.col.name \in Range(schema[role])
    BY <1>3, <2>2
  <2>4. PICK i \in DOMAIN schema[role] : schema[role][i] = c.col.name
    BY <2>3 DEF Range
  <2>5. f[role][i].name = c.col.name /\ f[role][i].data = want[c]
    BY <2>2, <2>4 DEF schema
  <2> HIDE DEF role
  <2> DEFINE y == [role |-> role, col |-> f[role][i]]
  <2>6. y \in Range(Columns(f))
    <3>1. i \in DOMAIN f[role]
      BY <1>1, <2>2, <2>4
    <3> QED
      BY <1>2, <2>2, <3>1
  <2>7. x = <<y.col.name, y.col.data>>
    BY <2>5
  <2> HIDE DEF y, x
  <2>8. x \in CellsOf(f)
    BY <2>6, <2>7, CellsAre
  <2> QED
    BY <2>8 DEF x
<1> QED
  BY <1>4, <1>5

\* Where the first elements of a sequence are in S and the others are not, the first
\* ones are kept.
LEMMA KeptFirst ==
  ASSUME NEW T, NEW seq \in Seq(T), NEW S, NEW m \in 0 .. Len(seq),
         \A i \in 1 .. Len(seq) : seq[i] \in S <=> i <= m
  PROVE  Kept(seq, S) = SubSeq(seq, 1, m)
<1> DEFINE n == Len(seq)
           seqs == [i \in DOMAIN seq |-> IF seq[i] \in S THEN <<seq[i]>> ELSE <<>>]
           b == [k \in 0 .. n |-> IF k <= m THEN k ELSE m]
<1>1. n \in Nat /\ DOMAIN seq = 1 .. n /\ m \in 0 .. n
  OBVIOUS
<1>2. \A i \in 1 .. n : seqs[i] = IF i <= m THEN <<seq[i]>> ELSE <<>>
  BY <1>1
<1>3. seqs \in Seq(Seq(T)) /\ Len(seqs) = n
  <2>1. seqs = [i \in 1 .. n |-> seqs[i]]
    BY <1>1
  <2>2. \A i \in 1 .. n : seqs[i] \in Seq(T)
    BY <1>2
  <2> HIDE DEF seqs
  <2>3. seqs \in [1 .. n -> Seq(T)]
    BY <2>1, <2>2
  <2> QED
    BY <1>1, <2>3
<1>4. \A k \in 1 .. n : Len(seqs[k]) = IF k <= m THEN 1 ELSE 0
  BY <1>2
<1> HIDE DEF seqs
<1>5. Joins(seqs, n, b) /\ b[n] = m /\ \A k \in 1 .. n : k <= m => b[k - 1] = k - 1
  <2>1. b \in [0 .. n -> Nat] /\ \A k \in 0 .. n : b[k] = IF k <= m THEN k ELSE m
    BY <1>1
  <2> HIDE DEF b, n
  <2> QED
    BY <1>1, <1>4, <2>1 DEF Joins
<1> HIDE DEF b
<1>6. FlattenSeq(seqs) \in Seq(T) /\ IsJoined(FlattenSeq(seqs), seqs, n, b)
  BY <1>1, <1>3, <1>5, JoinedAt
<1>7. Len(FlattenSeq(seqs)) = m
  BY <1>1, <1>5, <1>6 DEF IsJoined
<1>8. ASSUME NEW i \in 1 .. m PROVE FlattenSeq(seqs)[i] = seq[i]
  <2>1. PICK k \in 1 .. n : \E j \in 1 .. Len(seqs[k]) :
               i = b[k - 1] + j /\ FlattenSeq(seqs)[i] = seqs[k][j]
    BY <1>1, <1>6, <1>7 DEF IsJoined
  <2>2. PICK j \in 1 .. Len(seqs[k]) : i = b[k - 1] + j /\ FlattenSeq(seqs)[i] = seqs[k][j]
    BY <2>1
  <2>3. k <= m /\ j = 1
    BY <1>4, <2>2
  <2>4. i = k
    BY <1>1, <1>5, <2>2, <2>3
  <2>5. seqs[k] = <<seq[k]>>
    BY <1>2, <2>3
  <2>6. seqs[k][j] = seq[k]
    BY <2>3, <2>5
  <2> QED
    BY <2>2, <2>4, <2>6
<1>9. FlattenSeq(seqs) = SubSeq(seq, 1, m)
  <2>1. SubSeq(seq, 1, m) \in Seq(T) /\ Len(SubSeq(seq, 1, m)) = m
        /\ \A i \in 1 .. m : SubSeq(seq, 1, m)[i] = seq[i]
    BY <1>1
  <2> QED
    BY <1>6, <1>7, <1>8, <2>1
<1> QED
  BY <1>9 DEF Kept, seqs

\* Kept keeps everything when all of it is wanted.
LEMMA KeptAll ==
  ASSUME NEW T, NEW seq \in Seq(T), NEW S, \A i \in 1 .. Len(seq) : seq[i] \in S
  PROVE  Kept(seq, S) = seq
<1>1. Kept(seq, S) = SubSeq(seq, 1, Len(seq))
  BY KeptFirst
<1>2. SubSeq(seq, 1, Len(seq)) = seq
  OBVIOUS
<1> QED
  BY <1>1, <1>2

-----------------------------------------------------------------------------
(* JSON *)

\* The vector of a column.
LEMMA VectorFound ==
  ASSUME NEW d, IsDataFrame(d), NEW c \in Range(Columns(d))
  PROVE  /\ vector(JSONOf(d), c.col.name).values = InJSON(c)
         /\ vector(JSONOf(d), c.col.name).type = IF c.role \in StringRoles THEN "string" ELSE "float"
<1> DEFINE obj == JSONOf(d)
           names == [i \in DOMAIN obj |-> obj[i].name]
           name == c.col.name
<1>1. PICK S : Columns(d) \in Seq(S)
  BY FrameColumns
<1>2. PICK n \in Nat : DOMAIN Columns(d) = 1 .. n
  BY <1>1
<1>3. /\ DOMAIN obj = 1 .. n
      /\ \A i \in 1 .. n :
           /\ obj[i].name = Columns(d)[i].col.name
           /\ obj[i].type = IF Columns(d)[i].role \in StringRoles THEN "string" ELSE "float"
           /\ obj[i].values = InJSON(Columns(d)[i])
  BY <1>2 DEF JSONOf
<1> HIDE DEF obj
<1>4. DOMAIN names = 1 .. n /\ \A i \in 1 .. n : names[i] = Columns(d)[i].col.name
  BY <1>3
<1>5. \E i \in 1 .. n : names[i] = name
  BY <1>2, <1>4 DEF Range
<1> DEFINE at == IndexOf(names, name)
<1>6. at \in 1 .. n /\ names[at] = name
  <2> HIDE DEF names, name
  <2> QED
    BY <1>4, <1>5, IndexFinds
<1>7. vector(obj, name) = obj[at]
  BY DEF vector
<1> HIDE DEF at, names
<1>8. Columns(d)[at] \in Range(Columns(d)) /\ Columns(d)[at].col.name = c.col.name
  BY <1>2, <1>4, <1>6 DEF Range
<1>9. Columns(d)[at] = c
  BY <1>8, FrameColumns
<1> QED
  BY <1>3, <1>6, <1>7, <1>9 DEF obj, name

\* The fields of a column.
LEMMA ColumnIsNamed ==
  \A name, data : NamedColumn(name, data).name = name /\ NamedColumn(name, data).data = data
BY Zenon DEF NamedColumn

\* Only columns of numbers are time stamps.
LEMMA TimeStampRoles == \A c : is_ts(c) => c.role \in {"numerical", "unused_float"}
BY Zenon DEF is_ts

\* Columns made of a list of names have those names and their data.
LEMMA ColumnsAreNamed ==
  ASSUME NEW names, NEW data, NEW cols,
         cols = [i \in DOMAIN names |-> NamedColumn(names[i], data[i])]
  PROVE  /\ cols = [i \in DOMAIN names |-> cols[i]]
         /\ \A i \in DOMAIN names : cols[i].name = names[i] /\ cols[i].data = data[i]
<1>1. \A i \in DOMAIN names : cols[i] = NamedColumn(names[i], data[i])
  OBVIOUS
<1>2. cols = [i \in DOMAIN names |-> cols[i]]
  OBVIOUS
<1> QED
  BY <1>1, <1>2, ColumnIsNamed

\* A column of a string role is read in it.
LEMMA RolesRead ==
  ASSUME NEW d, IsDataFrame(d), NEW c \in Range(Columns(d))
  PROVE  /\ ReadingRole(c) \in Range(AllRoles)
         /\ ReadingRole(c) \in StringRoles <=> c.role \in StringRoles
         /\ c.role \in StringRoles => c.col.data \in Seq(Strings)
         /\ c.role \notin StringRoles => c.col.data \in Seq(Rounded)
         /\ ReadingRole(c) = "time_stamp" <=> c.role = "time_stamp" \/ is_ts(c)
<1>1. c.role \in Range(AllRoles) /\ IsColumn(c)
  BY FrameColumns
<1> QED
  BY <1>1, RolesAre, TimeStampRoles DEF ReadingRole, StringRoles, IsColumn

\* A JSON object that holds a data frame is read as one with the cells that it holds.
LEMMA ObjectKeepsCells ==
  ASSUME NEW d, IsDataFrame(d), NEW formats, from_json(JSONOf(d), formats, SchemaOf(d)) # Failure
  PROVE  CellsOf(from_json(JSONOf(d), formats, SchemaOf(d))) =
           {<<c.col.name, InJSON(c)>> : c \in Range(Columns(d))}
<1> DEFINE schema == SchemaOf(d)
           obj == JSONOf(d)
           f == from_json(obj, formats, schema)
           known(name) == has_vector(obj, name, {"string", "float"})
           targets == Kept(schema["target"], {name \in Range(schema["target"]) : known(name)})
           complete ==
             \A role \in Range(AllRoles) : \A i \in DOMAIN schema[role] :
               \/ role = "target" /\ ~known(schema[role][i])
               \/ has_vector(obj, schema[role][i],
                             CASE role \in StringRoles -> {"string"}
                               [] role = "time_stamp"  -> {"string", "float"}
                               [] OTHER                -> {"float"})
           read == [role \in Range(AllRoles) |->
             CASE role = "time_stamp" -> json_time_stamps(obj, schema[role], formats)
               [] role = "target"     -> json_columns(obj, targets)
               [] OTHER               -> json_columns(obj, schema[role])]
<1>1. f = IF ~complete THEN Failure ELSE read
  BY DEF from_json
<1>2. f = read
  <2> HIDE DEF complete, read, schema, obj
  <2>1. from_json(obj, formats, schema) # Failure
    BY DEF schema, obj
  <2> QED
    BY <1>1, <2>1
<1>3. ASSUME NEW role \in Range(AllRoles), NEW i \in DOMAIN schema[role]
      PROVE  \E c \in Range(Columns(d)) : ReadingRole(c) = role /\ c.col.name = schema[role][i]
  <2>1. NamesAre(schema[role], d, role)
    BY SchemaNames
  <2>2. schema[role][i] \in Range(schema[role])
    BY DEF Range
  <2> QED
    BY <2>1, <2>2 DEF NamesAre
<1>4. schema["target"] \in Seq(Strings) /\ "target" \in Range(AllRoles)
  <2>1. "target" \in Range(AllRoles)
    BY DEF AllRoles, Range
  <2> QED
    BY <2>1, SchemaNames
<1>5. targets = schema["target"]
  <2>1. ASSUME NEW i \in DOMAIN schema["target"]
        PROVE  schema["target"][i] \in {name \in Range(schema["target"]) : known(name)}
    <3>1. PICK c \in Range(Columns(d)) : c.col.name = schema["target"][i]
      BY <1>3, <1>4
    <3>2. PICK k \in DOMAIN Columns(d) : Columns(d)[k] = c
      BY DEF Range
    <3>3. known(c.col.name)
      BY <3>2 DEF has_vector, JSONOf
    <3> HIDE DEF known
    <3> QED
      BY <3>1, <3>3 DEF Range
  <2> HIDE DEF known, schema
  <2> QED
    BY <1>4, <2>1, KeptAll
<1> HIDE DEF complete, known, targets
<1>6. ASSUME NEW role \in Range(AllRoles)
      PROVE  /\ f[role] = [i \in DOMAIN schema[role] |-> f[role][i]]
             /\ \A i \in DOMAIN schema[role] :
                  /\ f[role][i].name = schema[role][i]
                  /\ \A c \in Range(Columns(d)) :
                       ReadingRole(c) = role /\ c.col.name = schema[role][i] =>
                         f[role][i].data = InJSON(c)
  <2> DEFINE names == schema[role]
  <2>1. f[role] =
          CASE role = "time_stamp" -> json_time_stamps(obj, names, formats)
            [] OTHER               -> json_columns(obj, names)
    BY <1>2, <1>5
  <2> HIDE DEF f, read, names, schema
  <2>2. ASSUME NEW c \in Range(Columns(d)), ReadingRole(c) = role
        PROVE  /\ vector(obj, c.col.name).values = InJSON(c)
               /\ vector(obj, c.col.name).type = IF c.role \in StringRoles THEN "string" ELSE "float"
    BY VectorFound
  <2> HIDE DEF obj
  <2> DEFINE data == [i \in DOMAIN names |->
                        CASE role = "time_stamp" ->
                               IF vector(obj, names[i]).type = "float"
                               THEN vector(obj, names[i]).values
                               ELSE [j \in DOMAIN vector(obj, names[i]).values |->
                                       to_time_stamp(vector(obj, names[i]).values[j], formats).val]
                          [] OTHER -> vector(obj, names[i]).values]
  <2>3. f[role] = [i \in DOMAIN names |-> NamedColumn(names[i], data[i])]
    <3>2. CASE role = "time_stamp"
      BY <2>1, <3>2 DEF json_time_stamps
    <3>3. CASE role # "time_stamp"
      BY <2>1, <3>3 DEF json_columns
    <3> QED
      BY <3>2, <3>3
  <2>4. ASSUME NEW c \in Range(Columns(d)), ReadingRole(c) = role, NEW i \in DOMAIN names,
               c.col.name = names[i]
        PROVE  data[i] = InJSON(c)
    <3>2. CASE role = "time_stamp"
      <4>1. c.role \notin StringRoles
        BY <2>4, <3>2, RolesRead DEF StringRoles
      <4> QED
        BY <2>2, <2>4, <3>2, <4>1
    <3>3. CASE role # "time_stamp"
      BY <2>2, <2>4, <3>3
    <3> QED
      BY <3>2, <3>3
  <2> HIDE DEF data
  <2>5. /\ f[role] = [i \in DOMAIN names |-> f[role][i]]
        /\ \A i \in DOMAIN names : f[role][i].name = names[i] /\ f[role][i].data = data[i]
    BY ONLY <2>3, ColumnsAreNamed
  <2> QED
    BY <2>4, <2>5 DEF names
<1> HIDE DEF f, read
<1>7. \A c \in Range(Columns(d)) : \A i \in DOMAIN SchemaOf(d)[ReadingRole(c)] :
        SchemaOf(d)[ReadingRole(c)][i] = c.col.name =>
          /\ f[ReadingRole(c)][i].name = c.col.name
          /\ f[ReadingRole(c)][i].data = InJSON(c)
  BY <1>6, RolesRead
<1>8. \A role \in Range(AllRoles) : f[role] = [i \in DOMAIN SchemaOf(d)[role] |-> f[role][i]]
  BY <1>6
<1> DEFINE want == [c \in Range(Columns(d)) |-> InJSON(c)]
<1>9. \A c \in Range(Columns(d)) : want[c] = InJSON(c)
  OBVIOUS
<1> HIDE DEF want
<1>10. HoldsColumns(f, d, want)
  BY <1>7, <1>8, <1>9 DEF HoldsColumns
<1>11. CellsOf(f) = {<<c.col.name, want[c]>> : c \in Range(Columns(d))}
  BY ONLY IsDataFrame(d), <1>10, CellsFound
<1>12. CellsOf(f) = {<<c.col.name, InJSON(c)>> : c \in Range(Columns(d))}
  BY <1>9, <1>11
<1> QED
  BY <1>12 DEF f

-----------------------------------------------------------------------------
(* Cells *)

\* get_double reads the word of a number, and a database stores it,
LEMMA NumberRead ==
  ASSUME NEW w
  PROVE  /\ get_double(<<Number(w)>>) = w
         /\ insert_double(<<Number(w)>>) = <<Number(w)>>
<1> DEFINE word == <<"number", w>>
<1>1. Number(w) = word
  BY DEF Number
<1>2. word \notin WHITESPACE /\ word[1] = "number" /\ word[2] = w
  BY WordsAreNoBlanks
<1> HIDE DEF word
<1>3. to_double(<<word>>) = Parsed(w)
  BY <1>2, TrimWord DEF to_double
<1>4. get_double(<<word>>) = w /\ insert_double(<<word>>) = <<Number(w)>>
  BY <1>3 DEF get_double, insert_double, Parsed
<1> QED
  BY <1>1, <1>4

\* and neither finds a number in another word.
LEMMA NoNumberRead ==
  ASSUME NEW kind \in {"nan", "NULL"}, NEW n
  PROVE  get_double(<<<<kind, n>>>>) = NAN /\ insert_double(<<<<kind, n>>>>) = DBNULL
<1> DEFINE word == <<kind, n>>
<1>1. word \notin WHITESPACE /\ word[1] = kind
  BY WordsAreNoBlanks
<1> HIDE DEF word
<1>2. to_double(<<word>>) = Failed
  BY <1>1, TrimWord DEF to_double
<1> QED
  BY <1>2 DEF get_double, insert_double, Failed, word

\* get_double reads what to_precise_string writes, and a database stores it.
LEMMA NumbersRead ==
  ASSUME NEW v
  PROVE  /\ get_double(to_precise_string(v)) = IF v = NAN THEN NAN ELSE Digits(16, v)
         /\ insert_double(to_precise_string(v)) =
              IF v = NAN THEN DBNULL ELSE <<Number(Digits(16, v))>>
<1>1. CASE v = NAN
  <2>1. to_precise_string(v) = <<<<"nan", 0>>>>
    BY <1>1 DEF to_precise_string, Word
  <2> QED
    BY <1>1, <2>1, NoNumberRead
<1>2. CASE v # NAN
  <2>1. to_precise_string(v) = <<Number(Digits(16, v))>>
    BY <1>2 DEF to_precise_string
  <2> DEFINE w == Digits(16, v)
  <2> HIDE DEF w
  <2>2. get_double(<<Number(w)>>) = w /\ insert_double(<<Number(w)>>) = <<Number(w)>>
    BY NumberRead
  <2> QED
    BY <1>2, <2>1, <2>2 DEF w
<1> QED
  BY <1>1, <1>2

\* What a number in a table is read as, and what its text is.
LEMMA StoredNumbersRead ==
  ASSUME NEW w
  PROVE  /\ iter_get_double("REAL", DBNULL) = NAN
         /\ iter_get_double("REAL", <<Number(w)>>) = w
         /\ iter_get_string("REAL", DBNULL) = NULLTEXT
         /\ iter_get_string("REAL", <<Number(w)>>) = <<Number(Digits(15, w))>>
<1>1. iter_get_double("REAL", DBNULL) = NAN /\ iter_get_string("REAL", DBNULL) = NULLTEXT
  <2>0. DBNULL[1][1] = "null"
    BY DEF DBNULL, Word
  <2>1. column_double(DBNULL) = 0
    BY <2>0 DEF column_double
  <2> QED
    BY <2>1 DEF iter_get_double, iter_get_string
<1>2. iter_get_double("REAL", <<Number(w)>>) = w
      /\ iter_get_string("REAL", <<Number(w)>>) = <<Number(Digits(15, w))>>
  <2> DEFINE str == <<Number(w)>>
  <2>1. str # DBNULL /\ Len(str) = 1 /\ str[1][1] = "number" /\ str[1][2] = w
    BY DEF DBNULL, Number, Word
  <2> HIDE DEF str
  <2>2. column_double(str) = w
    BY <2>1 DEF column_double
  <2>3. column_text("REAL", str) = <<Number(Digits(15, w))>>
    BY <2>1, <2>2 DEF column_text
  <2>4. w = 0 => get_double(column_text("REAL", str)) = 0
    <3>1. get_double(<<Number(0)>>) = 0
      BY NumberRead
    <3> QED
      BY <2>3, <3>1, RoundingAssumption
  <2>5. iter_get_double("REAL", str) = IF w # 0 THEN w ELSE get_double(column_text("REAL", str))
    BY <2>1, <2>2 DEF iter_get_double
  <2>6. iter_get_string("REAL", str) = column_text("REAL", str)
    BY <2>1 DEF iter_get_string
  <2>7. iter_get_double("REAL", str) = w
    BY <2>4, <2>5
  <2> QED
    BY <2>3, <2>6, <2>7 DEF str
<1> QED
  BY <1>1, <1>2

\* What is written of a cell.
WrittenCell(c, n) ==
  IF c.role \in StringRoles THEN str_of(c.col.data[n])
  ELSE IF c.role = "time_stamp" \/ is_ts(c) THEN ts_to_string(c.col.data[n])
  ELSE to_precise_string(c.col.data[n])

\* Columns that a table holds as texts.
IsTexts(c) == c.role \in StringRoles \/ c.role = "time_stamp" \/ is_ts(c)

\* What a table has of it.
StoredCell(c, n) ==
  IF IsTexts(c) THEN WrittenCell(c, n)
  ELSE IF c.col.data[n] = NAN THEN DBNULL
  ELSE <<Number(Digits(16, c.col.data[n]))>>

\* From a line, a cell is read as what its text says,
LEMMA WrittenCellRead ==
  ASSUME NEW c, IsColumn(c), NEW n \in DOMAIN c.col.data, NEW time_formats, ReadsTimes(time_formats)
  PROVE  cell(ReadingRole(c), WrittenCell(c, n), time_formats) = AsText(c, c.col.data[n])
<1> DEFINE v == c.col.data[n]
<1>1. CASE c.role \in StringRoles
  <2>1. ReadingRole(c) = c.role
    BY <1>1, TimeStampRoles DEF ReadingRole, StringRoles
  <2>2. WrittenCell(c, n) = str_of(v) /\ AsText(c, v) = string_cell(c.role, str_of(v))
    BY <1>1 DEF WrittenCell, AsText
  <2>3. cell(ReadingRole(c), WrittenCell(c, n), time_formats) = string_cell(c.role, WrittenCell(c, n))
    BY <1>1, <2>1 DEF cell, StringRoles
  <2> QED
    BY <2>2, <2>3
<1>2. CASE c.role \notin StringRoles /\ (c.role = "time_stamp" \/ is_ts(c))
  <2>1. ReadingRole(c) = "time_stamp"
    BY <1>2 DEF ReadingRole
  <2>2. v \in Rounded
    BY <1>2 DEF IsColumn
  <2>3. WrittenCell(c, n) = ts_to_string(v)
    BY <1>2 DEF WrittenCell
  <2>4. AsText(c, v) = IF v = NAN THEN NAN ELSE IF v % ONE = 0 THEN v ELSE Micros(v)
    BY <1>2 DEF AsText
  <2>5. cell("time_stamp", WrittenCell(c, n), time_formats)
          = get_time_stamp(WrittenCell(c, n), time_formats)
    BY DEF cell, StringRoles
  <2> DEFINE u == IF v % ONE = 0 THEN v ELSE Micros(v)
  <2> HIDE DEF v
  <2>6. get_time_stamp(ts_to_string(v), time_formats) = IF v = NAN THEN NAN ELSE u
    <3>1. CASE v = NAN
      <4>1. ts_to_string(v) = <<<<"NULL", 0>>>>
        BY <3>1 DEF ts_to_string, NULLTEXT, Word
      <4> QED
        BY <3>1, <4>1, NullRead
    <3>2. CASE v # NAN
      <4>1. v \in Nat
        BY <2>2, <3>2 DEF Rounded
      <4>2. PICK kind \in {"date", "second", "fraction"} : ts_to_string(v) = <<<<kind, u>>>>
        BY <4>1, StampWritten
      <4> HIDE DEF u
      <4> QED
        BY <3>2, <4>2, WordRead
    <3> QED
      BY <3>1, <3>2
  <2> QED
    BY <2>1, <2>3, <2>4, <2>5, <2>6 DEF v
<1>3. CASE c.role \notin StringRoles /\ c.role # "time_stamp" /\ ~ is_ts(c)
  <2>1. ReadingRole(c) \notin StringRoles /\ ReadingRole(c) # "time_stamp"
    BY <1>3 DEF ReadingRole
  <2>2. WrittenCell(c, n) = to_precise_string(v)
    BY <1>3 DEF WrittenCell
  <2>3. AsText(c, v) = IF v = NAN THEN NAN ELSE Digits(16, v)
    BY <1>3 DEF AsText
  <2>4. cell(ReadingRole(c), WrittenCell(c, n), time_formats) = get_double(WrittenCell(c, n))
    BY <2>1 DEF cell
  <2> QED
    BY <2>2, <2>3, <2>4, NumbersRead
<1> QED
  BY <1>1, <1>2, <1>3

\* and so it is from a table, where numbers have fewer digits for a query.
LEMMA StoredCellRead ==
  ASSUME NEW c, IsColumn(c), NEW n \in DOMAIN c.col.data, NEW time_formats, ReadsTimes(time_formats),
         c.role \in StringRoles => c.col.data[n] # DBNULL,
         NEW coltype, coltype = IF IsTexts(c) THEN "TEXT" ELSE "REAL"
  PROVE  /\ ReadingRole(c) \in StringRoles =>
              string_cell(ReadingRole(c), iter_get_string(coltype, StoredCell(c, n)))
                = AsText(c, c.col.data[n])
         /\ ReadingRole(c) = "time_stamp" =>
              iter_get_time_stamp(coltype, StoredCell(c, n), time_formats) = AsText(c, c.col.data[n])
         /\ ReadingRole(c) \notin StringRoles /\ ReadingRole(c) # "time_stamp" =>
              iter_get_double(coltype, StoredCell(c, n)) = AsText(c, c.col.data[n])
         /\ cell(ReadingRole(c), iter_get_string(coltype, StoredCell(c, n)), time_formats)
              = AsQueried(c, c.col.data[n])
<1> DEFINE v == c.col.data[n]
<1>0. cell(ReadingRole(c), WrittenCell(c, n), time_formats) = AsText(c, v)
  BY WrittenCellRead
<1>1. CASE IsTexts(c)
  <2>1. coltype = "TEXT" /\ StoredCell(c, n) = WrittenCell(c, n)
    BY <1>1 DEF StoredCell
  <2>2. AsQueried(c, v) = AsText(c, v)
    BY <1>1 DEF AsQueried, IsTexts
  <2>3. WrittenCell(c, n) # DBNULL
    <3>1. CASE c.role \in StringRoles
      <4>1. NULLTEXT # DBNULL
        BY DEF NULLTEXT, DBNULL, Word
      <4> QED
        BY <3>1, <4>1 DEF WrittenCell, str_of
    <3>2. CASE c.role \notin StringRoles
      <4>1. WrittenCell(c, n) = ts_to_string(v)
        BY <1>1, <3>2 DEF IsTexts, WrittenCell
      <4>2. ts_to_string(v) # DBNULL
        BY DEF ts_to_string, DBNULL, NULLTEXT, Word
      <4> QED
        BY <4>1, <4>2
    <3> QED
      BY <3>1, <3>2
  <2>4. iter_get_string(coltype, StoredCell(c, n)) = WrittenCell(c, n)
    BY <2>1, <2>3 DEF iter_get_string, column_text
  <2>5. /\ ReadingRole(c) \in StringRoles \/ ReadingRole(c) = "time_stamp"
        /\ ~(ReadingRole(c) \in StringRoles /\ ReadingRole(c) = "time_stamp")
    <3>1. "time_stamp" \notin StringRoles
      BY DEF StringRoles
    <3>2. CASE c.role \in StringRoles
      <4>1. ~ is_ts(c)
        BY <3>2, TimeStampRoles DEF StringRoles
      <4> QED
        BY <3>1, <3>2, <4>1 DEF ReadingRole
    <3>3. CASE c.role \notin StringRoles
      BY <1>1, <3>1, <3>3 DEF IsTexts, ReadingRole
    <3> QED
      BY <3>2, <3>3
  <2>6. ReadingRole(c) \in StringRoles =>
          cell(ReadingRole(c), WrittenCell(c, n), time_formats) =
            string_cell(ReadingRole(c), WrittenCell(c, n))
    BY DEF cell, StringRoles
  <2>7. ReadingRole(c) = "time_stamp" =>
          cell(ReadingRole(c), WrittenCell(c, n), time_formats) =
            get_time_stamp(WrittenCell(c, n), time_formats)
    BY DEF cell, StringRoles
  <2>8. iter_get_time_stamp(coltype, StoredCell(c, n), time_formats) =
          get_time_stamp(WrittenCell(c, n), time_formats)
    BY <2>1, <2>3 DEF iter_get_time_stamp, column_text
  <2> DEFINE role == ReadingRole(c)
             stored == StoredCell(c, n)
             text == AsText(c, v)
             asked == AsQueried(c, v)
             written == WrittenCell(c, n)
  <2>9. /\ cell(role, written, time_formats) = text /\ asked = text
        /\ iter_get_string(coltype, stored) = written
        /\ role \in StringRoles \/ role = "time_stamp"
        /\ role \in StringRoles => text = string_cell(role, written)
        /\ role = "time_stamp" => iter_get_time_stamp(coltype, stored, time_formats) = text
    BY <1>0, <2>2, <2>4, <2>5, <2>6, <2>7, <2>8
  <2> HIDE DEF v, role, stored, text, asked, written
  <2>10. /\ role \in StringRoles => string_cell(role, iter_get_string(coltype, stored)) = text
         /\ role = "time_stamp" => iter_get_time_stamp(coltype, stored, time_formats) = text
         /\ role \notin StringRoles /\ role # "time_stamp" => iter_get_double(coltype, stored) = text
         /\ cell(role, iter_get_string(coltype, stored), time_formats) = asked
    BY <2>9
  <2> QED
    BY <2>10 DEF v, role, stored, text, asked
<1>2. CASE ~IsTexts(c)
  <2> DEFINE w == Digits(16, v)
  <2>1. ReadingRole(c) \notin StringRoles /\ ReadingRole(c) # "time_stamp"
    BY <1>2 DEF ReadingRole, IsTexts
  <2>2. coltype = "REAL" /\ StoredCell(c, n) = IF v = NAN THEN DBNULL ELSE <<Number(w)>>
    BY <1>2 DEF StoredCell
  <2>3. AsText(c, v) = (IF v = NAN THEN NAN ELSE w)
        /\ AsQueried(c, v) = (IF v = NAN THEN NAN ELSE Digits(15, w))
    BY <1>2 DEF AsText, AsQueried, IsTexts
  <2>4. \A str : cell(ReadingRole(c), str, time_formats) = get_double(str)
    BY <2>1 DEF cell
  <2> HIDE DEF v, w
  <2>5. iter_get_double(coltype, StoredCell(c, n)) = IF v = NAN THEN NAN ELSE w
    BY <2>2, StoredNumbersRead
  <2>6. get_double(iter_get_string(coltype, StoredCell(c, n))) =
          IF v = NAN THEN NAN ELSE Digits(15, w)
    <3>1. CASE v = NAN
      <4>1. iter_get_string(coltype, StoredCell(c, n)) = <<<<"NULL", 0>>>>
        BY <2>2, <3>1, StoredNumbersRead DEF NULLTEXT, Word
      <4> QED
        BY <3>1, <4>1, NoNumberRead
    <3>2. CASE v # NAN
      <4> DEFINE x == Digits(15, w)
      <4>1. iter_get_string(coltype, StoredCell(c, n)) = <<Number(x)>>
        BY <2>2, <3>2, StoredNumbersRead
      <4> HIDE DEF x
      <4>2. get_double(<<Number(x)>>) = x
        BY NumberRead
      <4> QED
        BY <3>2, <4>1, <4>2 DEF x
    <3> QED
      BY <3>1, <3>2
  <2> QED
    BY <2>1, <2>3, <2>4, <2>5, <2>6 DEF v
<1> QED
  BY <1>1, <1>2

-----------------------------------------------------------------------------
(* Rows and the columns of a schema *)

\* All columns have as many cells as the data frame has rows.
LEMMA RowCount ==
  ASSUME NEW d, IsDataFrame(d)
  PROVE  /\ row_count(d) \in Nat
         /\ row_count(d) > 0 => Columns(d) # <<>>
         /\ \A c \in Range(Columns(d)) :
              Len(c.col.data) = row_count(d) /\ DOMAIN c.col.data = 1 .. row_count(d)
<1>1. PICK S : Columns(d) \in Seq(S)
  BY FrameColumns
<1>2. ASSUME NEW c \in Range(Columns(d))
      PROVE  Len(c.col.data) \in Nat /\ DOMAIN c.col.data = 1 .. Len(c.col.data)
  <2>1. IsColumn(c)
    BY FrameColumns
  <2>2. c.col.data \in Seq(Strings) \/ c.col.data \in Seq(Rounded)
    BY <2>1 DEF IsColumn
  <2> QED
    BY <2>2
<1>3. CASE Columns(d) = <<>>
  <2>1. Range(Columns(d)) = {}
    BY <1>3 DEF Range
  <2> QED
    BY <1>3, <2>1 DEF row_count
<1>4. CASE Columns(d) # <<>>
  <2>1. Columns(d)[1] \in Range(Columns(d))
    <3>1. 1 \in DOMAIN Columns(d)
      BY <1>1, <1>4
    <3> QED
      BY <3>1 DEF Range
  <2>2. row_count(d) = Len(Columns(d)[1].col.data)
    BY <1>4 DEF row_count
  <2>3. \A c \in Range(Columns(d)) : Len(c.col.data) = row_count(d)
    BY <2>1, <2>2, FrameColumns
  <2> QED
    BY <1>2, <1>4, <2>1, <2>2, <2>3
<1> QED
  BY <1>3, <1>4

\* Where the columns of a role begin among all columns of a schema.
Before(schema, role) ==
  Len(FlattenSeq([i \in 1 .. (IndexOf(AllRoles, role) - 1) |-> schema[AllRoles[i]]]))

\* Where the columns of a role are in the list of all names of a schema.
LEMMA PlaceInSchema ==
  ASSUME NEW S, NEW schema, \A role \in Range(AllRoles) : schema[role] \in Seq(S),
         NEW role \in Range(AllRoles), NEW i \in DOMAIN schema[role]
  PROVE  /\ Before(schema, role) + i \in DOMAIN concat_colnames(schema)
         /\ concat_colnames(schema)[Before(schema, role) + i] = schema[role][i]
         /\ roles_of(schema)[Before(schema, role) + i] = role
<1> DEFINE seqs  == [k \in DOMAIN AllRoles |-> schema[AllRoles[k]]]
           roles == [k \in DOMAIN AllRoles |-> [m \in DOMAIN schema[AllRoles[k]] |-> AllRoles[k]]]
           j == IndexOf(AllRoles, role)
           first == [k \in 1 .. j - 1 |-> schema[AllRoles[k]]]
<1>0. PICK n \in Nat : n = 8
  OBVIOUS
<1>1. seqs \in Seq(Seq(S)) /\ Len(seqs) = n /\ \A k \in 1 .. n : seqs[k] = schema[AllRoles[k]]
  <2>1. DOMAIN seqs = 1 .. n /\ \A k \in 1 .. n : seqs[k] = schema[AllRoles[k]]
    BY <1>0, RolesAre
  <2>2. seqs = [k \in 1 .. n |-> seqs[k]]
    BY <1>0, RolesAre
  <2>3. \A k \in 1 .. n : seqs[k] \in Seq(S)
    BY <2>1, <1>0, RolesAre
  <2> HIDE DEF seqs
  <2>4. seqs \in Seq(Seq(S)) /\ Len(seqs) = n
    BY ONLY <2>2, <2>3, SequenceOf
  <2> QED
    BY <2>1, <2>4
<1>2. PICK b : Joins(seqs, n, b)
  <2> HIDE DEF seqs
  <2> QED
    BY <1>1, JoinsExist
<1> HIDE DEF seqs
<1>3. /\ roles \in Seq(Seq(Range(AllRoles))) /\ Len(roles) = n
      /\ \A k \in 1 .. n : /\ roles[k] = [m \in DOMAIN schema[AllRoles[k]] |-> AllRoles[k]]
                           /\ Len(roles[k]) = Len(seqs[k])
  <2>1. /\ DOMAIN roles = 1 .. n
        /\ \A k \in 1 .. n : roles[k] = [m \in DOMAIN schema[AllRoles[k]] |-> AllRoles[k]]
    BY <1>0, RolesAre
  <2>2. roles = [k \in 1 .. n |-> roles[k]]
    BY <1>0, RolesAre
  <2> HIDE DEF roles
  <2>3. ASSUME NEW k \in 1 .. n
        PROVE  roles[k] \in Seq(Range(AllRoles)) /\ Len(roles[k]) = Len(seqs[k])
    <3>1. seqs[k] \in Seq(S) /\ seqs[k] = schema[AllRoles[k]] /\ AllRoles[k] \in Range(AllRoles)
      BY <1>1, <1>0, RolesAre
    <3> DEFINE len == Len(seqs[k])
               name == AllRoles[k]
    <3>2. len \in Nat /\ DOMAIN schema[AllRoles[k]] = 1 .. len
      BY <3>1
    <3>3. roles[k] = [m \in 1 .. len |-> name]
      BY <2>1, <3>2
    <3>4. name \in Range(AllRoles)
      BY <3>1
    <3> HIDE DEF len, name
    <3>5. roles[k] \in Seq(Range(AllRoles)) /\ Len(roles[k]) = len
      BY <3>2, <3>3, <3>4
    <3> QED
      BY <3>5 DEF len
  <2>4. roles \in Seq(Seq(Range(AllRoles))) /\ Len(roles) = n
    BY ONLY <2>2, <2>3, SequenceOf
  <2> QED
    BY <2>1, <2>3, <2>4
<1>4. j \in 1 .. n /\ AllRoles[j] = role
  BY <1>0, RolesAre, IndexFinds
<1>5. Before(schema, role) = Len(FlattenSeq(first))
  BY DEF Before
<1>6. \A k \in 1 .. j - 1 : first[k] = seqs[k]
  <2> HIDE DEF j
  <2>1. \A k \in 1 .. j - 1 : k \in 1 .. n
    BY <1>4
  <2> QED
    BY <1>1, <2>1
<1> HIDE DEF roles, j
<1>7. Joins(roles, n, b)
  BY <1>2, <1>3 DEF Joins
<1>8. Before(schema, role) = b[j - 1]
  <2> DEFINE c == [k \in 0 .. j - 1 |-> b[k]]
  <2>1. j - 1 \in Nat /\ first \in Seq(Seq(S)) /\ Len(first) = j - 1
    <3>1. first = [k \in 1 .. j - 1 |-> first[k]] /\ DOMAIN first = 1 .. j - 1
      OBVIOUS
    <3> HIDE DEF first
    <3>2. ASSUME NEW k \in 1 .. j - 1 PROVE first[k] \in Seq(S)
      <4>1. k \in 1 .. n
        <5>1. j \in Nat /\ j <= n
          BY <1>4
        <5> QED
          BY <5>1
      <4>2. seqs[k] \in Seq(S)
        BY <1>1, <4>1
      <4> QED
        BY <1>6, <4>2
    <3>3. j - 1 \in Nat
      BY <1>4
    <3> QED
      BY ONLY <3>1, <3>2, <3>3, SequenceOf
  <2> HIDE DEF first
  <2>2. Joins(first, j - 1, c)
    <3>1. j - 1 \in 0 .. n
      BY <1>4
    <3> QED
      BY ONLY <1>2, <1>6, <3>1, FirstParts
  <2>3. c[j - 1] = b[j - 1]
    BY <1>4
  <2> HIDE DEF c
  <2>4. Len(FlattenSeq(first)) = c[j - 1]
    BY <2>1, <2>2, JoinedParts
  <2> QED
    BY <1>5, <2>3, <2>4
<1>9. i \in 1 .. Len(seqs[j]) /\ i \in 1 .. Len(roles[j]) /\ seqs[j] = schema[role]
      /\ roles[j][i] = role
  <2>1. schema[role] \in Seq(S) /\ DOMAIN schema[role] = 1 .. Len(schema[role])
    OBVIOUS
  <2>2. seqs[j] = schema[role] /\ Len(roles[j]) = Len(seqs[j])
    BY <1>1, <1>3, <1>4
  <2>3. roles[j] = [m \in DOMAIN schema[role] |-> role]
    BY <1>3, <1>4
  <2> QED
    BY <2>1, <2>2, <2>3
<1>10. /\ FlattenSeq(seqs) \in Seq(S) /\ Len(FlattenSeq(seqs)) = b[n]
       /\ Parted(FlattenSeq(seqs), seqs, n, b)
  BY ONLY <1>1, <1>2, JoinedParts
<1>11. Parted(FlattenSeq(roles), roles, n, b)
  BY ONLY <1>3, <1>7, JoinedParts
<1>12. /\ b[j - 1] + i \in 1 .. b[n] /\ FlattenSeq(seqs)[b[j - 1] + i] = seqs[j][i]
       /\ FlattenSeq(roles)[b[j - 1] + i] = roles[j][i]
  BY <1>4, <1>9, <1>10, <1>11 DEF Parted
<1>13. concat_colnames(schema) = FlattenSeq(seqs)
  BY DEF concat_colnames, seqs
<1>14. roles_of(schema) = FlattenSeq(roles)
  BY DEF roles_of, roles
<1> QED
  BY <1>8, <1>9, <1>10, <1>12, <1>13, <1>14

\* A data frame read by its schema.
LEMMA FrameHolds ==
  ASSUME NEW d, IsDataFrame(d), NEW f, NEW data, NEW want,
         \A role \in Range(AllRoles) :
           f[role] = [i \in DOMAIN SchemaOf(d)[role] |->
                        NamedColumn(SchemaOf(d)[role][i], data[role][i])],
         \A c \in Range(Columns(d)) : \A i \in DOMAIN SchemaOf(d)[ReadingRole(c)] :
           SchemaOf(d)[ReadingRole(c)][i] = c.col.name => data[ReadingRole(c)][i] = want[c]
  PROVE  HoldsColumns(f, d, want)
<1>1. ASSUME NEW role \in Range(AllRoles)
      PROVE  /\ f[role] = [i \in DOMAIN SchemaOf(d)[role] |-> f[role][i]]
             /\ \A i \in DOMAIN SchemaOf(d)[role] :
                  f[role][i].name = SchemaOf(d)[role][i] /\ f[role][i].data = data[role][i]
  <2> DEFINE names == SchemaOf(d)[role]
             cols == f[role]
             cells == data[role]
  <2>1. cols = [i \in DOMAIN names |-> NamedColumn(names[i], cells[i])]
    OBVIOUS
  <2> HIDE DEF names, cols, cells
  <2>2. /\ cols = [i \in DOMAIN names |-> cols[i]]
        /\ \A i \in DOMAIN names : cols[i].name = names[i] /\ cols[i].data = cells[i]
    BY ONLY <2>1, ColumnsAreNamed
  <2> QED
    BY <2>2 DEF names, cols, cells
<1>2. \A c \in Range(Columns(d)) : ReadingRole(c) \in Range(AllRoles)
  BY RolesRead
<1>3. ASSUME NEW c \in Range(Columns(d)), NEW i \in DOMAIN SchemaOf(d)[ReadingRole(c)],
             SchemaOf(d)[ReadingRole(c)][i] = c.col.name
      PROVE  f[ReadingRole(c)][i].name = c.col.name /\ f[ReadingRole(c)][i].data = want[c]
  <2> DEFINE role == ReadingRole(c)
  <2>1. role \in Range(AllRoles) /\ i \in DOMAIN SchemaOf(d)[role]
        /\ SchemaOf(d)[role][i] = c.col.name /\ data[role][i] = want[c]
    BY <1>2, <1>3
  <2> HIDE DEF role
  <2>2. f[role][i].name = c.col.name /\ f[role][i].data = want[c]
    BY <1>1, <2>1
  <2> QED
    BY <2>2 DEF role
<1>4. \A role \in Range(AllRoles) : f[role] = [i \in DOMAIN SchemaOf(d)[role] |-> f[role][i]]
  BY <1>1
<1> QED
  BY ONLY <1>3, <1>4 DEF HoldsColumns

-----------------------------------------------------------------------------
(* Tables of a database *)

\* The rows the readers of data frames give.
LEMMA RowsWritten ==
  ASSUME NEW d, IsDataFrame(d), FitsText(d)
  PROVE  LET reader == DataFrameReader(d, BELL)
         IN  /\ reader.colnames = [i \in DOMAIN Columns(d) |-> Columns(d)[i].col.name]
             /\ DOMAIN reader.coltypes = DOMAIN Columns(d)
             /\ \A i \in DOMAIN Columns(d) :
                  reader.coltypes[i] = "double" <=> ~IsTexts(Columns(d)[i])
             /\ \A i \in DOMAIN Columns(d) : reader.coltypes[i] \in {"double", "string", "time_stamp"}
             /\ reader.lines = [n \in 1 .. row_count(d) |->
                                  [i \in DOMAIN Columns(d) |-> WrittenCell(Columns(d)[i], n)]]
<1> DEFINE cols == Columns(d)
           reader == DataFrameReader(d, BELL)
<1>1. reader.colnames = make_colnames(d, BELL) /\ reader.coltypes = make_coltypes(d)
      /\ reader.lines = [row \in 1 .. row_count(d) |-> row_line(d, row)]
  BY DEF DataFrameReader
<1>2. ASSUME NEW i \in DOMAIN cols PROVE remove_quotechars(cols[i].col.name, BELL) = cols[i].col.name
  <2> DEFINE c == cols[i]
             name == c.col.name
             S == Range(name) \ {BELL}
  <2>1. c \in Range(cols)
    BY DEF Range
  <2>2. name \in Strings /\ c.role \in Range(AllRoles) /\ \E k \in DOMAIN d[c.role] : c.col = d[c.role][k]
    BY <2>1, FrameColumns
  <2>3. BELL \notin Range(name)
    <3>1. PICK k \in DOMAIN d[c.role] : c.col = d[c.role][k]
      BY <2>2
    <3>2. {QUOTE, BELL, LF} \cap Range(d[c.role][k].name) = {}
      BY <2>2, FitsText(d) DEF FitsText
    <3> QED
      BY <3>1, <3>2
  <2> HIDE DEF name
  <2>4. name \in Seq(STRING \X Nat)
    BY <2>2 DEF Strings
  <2>5. \A k \in 1 .. Len(name) : name[k] \in S
    <3>1. DOMAIN name = 1 .. Len(name)
      BY <2>4
    <3> QED
      BY <2>3, <3>1 DEF Range
  <2> HIDE DEF S
  <2>6. Kept(name, S) = name
    BY <2>4, <2>5, KeptAll
  <2> QED
    BY <2>6 DEF remove_quotechars, S, name
<1>3. make_colnames(d, BELL) = [i \in DOMAIN Columns(d) |-> Columns(d)[i].col.name]
  BY <1>2 DEF make_colnames
<1>4. ASSUME NEW i \in DOMAIN cols
      PROVE  /\ make_coltypes(d)[i] \in {"double", "string", "time_stamp"}
             /\ make_coltypes(d)[i] = "double" <=> ~IsTexts(cols[i])
  <2> DEFINE c == cols[i]
  <2>1. make_coltypes(d)[i] = CASE c.role = "time_stamp"              -> "time_stamp"
                                [] c.role \in StringRoles \/ is_ts(c) -> "string"
                                [] OTHER                              -> "double"
    BY DEF make_coltypes
  <2>2. c.role = "time_stamp" => ~ (c.role \in StringRoles \/ is_ts(c))
    BY TimeStampRoles DEF StringRoles
  <2> HIDE DEF c
  <2> QED
    BY <2>1, <2>2 DEF c, IsTexts
<1>5. DOMAIN make_coltypes(d) = DOMAIN Columns(d)
  BY DEF make_coltypes
<1>6. ASSUME NEW n \in 1 .. row_count(d)
      PROVE  row_line(d, n) = [i \in DOMAIN cols |-> WrittenCell(cols[i], n)]
  <2>1. ASSUME NEW i \in DOMAIN cols
        PROVE  (CASE cols[i].role \in StringRoles -> str_of(cols[i].col.data[n])
                  [] cols[i].role = "time_stamp" \/ is_ts(cols[i]) -> ts_to_string(cols[i].col.data[n])
                  [] OTHER -> to_precise_string(cols[i].col.data[n]))
                 = WrittenCell(cols[i], n)
    <3>1. cols[i].role \in StringRoles => cols[i].role # "time_stamp" /\ ~ is_ts(cols[i])
      BY TimeStampRoles DEF StringRoles
    <3> DEFINE c == cols[i]
    <3> HIDE DEF c
    <3> QED
      BY <3>1 DEF WrittenCell, c
  <2> QED
    BY <2>1, Zenon DEF row_line
<1> QED
  BY <1>1, <1>3, <1>4, <1>5, <1>6

\* What a table has that a data frame has been written to.
HoldsRows(t, d) ==
  /\ t.colnames = [i \in DOMAIN Columns(d) |-> Columns(d)[i].col.name]
  /\ \A i \in DOMAIN Columns(d) :
       t.coltypes[i] = IF IsTexts(Columns(d)[i]) THEN "TEXT" ELSE "REAL"
  /\ DOMAIN t.rows = 1 .. row_count(d)
  /\ \A n \in 1 .. row_count(d) : \A i \in DOMAIN Columns(d) :
       t.rows[n][i] = StoredCell(Columns(d)[i], n)

\* df_to_db stores every row,
LEMMA RowsStored ==
  ASSUME NEW d, IsDataFrame(d), FitsText(d)
  PROVE  HoldsRows(df_to_db(d), d)
<1> DEFINE reader == DataFrameReader(d, BELL)
           names == reader.colnames
           types == reader.coltypes
           lines == reader.lines
           statement == make_statement("t", "sqlite3", names, types)
           created == [colnames |-> statement.colnames, coltypes |-> statement.coltypes,
                       rows |-> <<>>]
           cols == Columns(d)
           R == row_count(d)
           used == Kept(SubSeq(lines, 1, Len(lines)),
                        {line \in Range(lines) : line # <<>> /\ Len(line) = Len(created.colnames)})
           coltypes == coltypes_of(created.coltypes)
           stored == [n \in DOMAIN used |-> insert_cells(used[n], coltypes)]
<1>1. df_to_db(d) = [created EXCEPT !.rows = read_rows(created, names, lines, 0)]
  BY DEF df_to_db
<1>2. /\ created.colnames = names /\ created.rows = <<>>
      /\ created.coltypes = [i \in DOMAIN types |-> to_string_sqlite(types[i])]
  <2>1. statement = make_statement_sqlite("t", names, types)
    BY DEF make_statement
  <2>2. statement.colnames = names
        /\ statement.coltypes = [i \in DOMAIN types |-> to_string_sqlite(types[i])]
    BY <2>1 DEF make_statement_sqlite, CreateTable
  <2> QED
    BY <2>2
<1> HIDE DEF reader, created, statement
<1>3. read_rows(created, names, lines, 0) = <<>> \o stored
  BY <1>2 DEF read_rows, has_colnames
<1>4. /\ names = [i \in DOMAIN cols |-> cols[i].col.name]
      /\ DOMAIN types = DOMAIN cols
      /\ \A i \in DOMAIN cols :
           types[i] = "double" <=> ~IsTexts(cols[i])
      /\ \A i \in DOMAIN cols : types[i] \in {"double", "string", "time_stamp"}
      /\ lines = [n \in 1 .. R |-> [i \in DOMAIN cols |-> WrittenCell(cols[i], n)]]
  BY RowsWritten DEF reader
<1>5. PICK len \in Nat : DOMAIN cols = 1 .. len /\ (R > 0 => len > 0) /\ R \in Nat
  <2>1. PICK S : cols \in Seq(S)
    BY FrameColumns
  <2> QED
    BY <2>1, RowCount
<1>6. \A i \in DOMAIN cols :
        /\ created.coltypes[i] = IF types[i] = "double" THEN "REAL" ELSE "TEXT"
        /\ coltypes[i] = IF types[i] = "double" THEN "double" ELSE "string"
  <2>1. \A i \in DOMAIN cols :
          created.coltypes[i] = IF types[i] = "double" THEN "REAL" ELSE "TEXT"
    BY <1>2, <1>4 DEF to_string_sqlite
  <2>2. DOMAIN created.coltypes = DOMAIN cols
    BY <1>2, <1>4
  <2> QED
    BY <2>1, <2>2 DEF coltypes_of
<1> HIDE DEF names, types, lines, coltypes, cols, R
<1> DEFINE T == {lines[n] : n \in 1 .. R}
<1>7. /\ lines \in Seq(T) /\ Len(lines) = R /\ DOMAIN lines = 1 .. R
      /\ \A n \in 1 .. R : lines[n] = [i \in 1 .. len |-> WrittenCell(cols[i], n)]
  <2>1. lines = [n \in 1 .. R |-> lines[n]] /\ \A n \in 1 .. R : lines[n] \in T
    BY <1>4
  <2> HIDE DEF T
  <2>2. lines \in Seq(T) /\ Len(lines) = R /\ DOMAIN lines = 1 .. R
    BY ONLY <1>5, <2>1, SequenceOf
  <2>3. \A n \in 1 .. R : lines[n] = [i \in 1 .. len |-> WrittenCell(cols[i], n)]
    BY <1>4, <1>5
  <2> QED
    BY <2>2, <2>3
<1>8. used = lines
  <2> DEFINE S == {line \in Range(lines) : line # <<>> /\ Len(line) = Len(created.colnames)}
  <2>1. Len(created.colnames) = len
    <3>1. created.colnames = [i \in 1 .. len |-> cols[i].col.name]
      BY <1>2, <1>4, <1>5
    <3> QED
      BY <1>5, <3>1
  <2>2. ASSUME NEW n \in 1 .. R PROVE lines[n] \in S
    <3>1. lines[n] = [i \in 1 .. len |-> WrittenCell(cols[i], n)]
      BY <1>7
    <3>2. Len(lines[n]) = len
      BY <1>5, <3>1
    <3>3. len > 0
      BY <1>5
    <3>4. lines[n] # <<>>
      BY <3>2, <3>3
    <3>5. lines[n] \in Range(lines)
      BY <1>7 DEF Range
    <3> QED
      BY <2>1, <3>2, <3>4, <3>5
  <2>3. SubSeq(lines, 1, Len(lines)) = lines
    BY <1>7
  <2> HIDE DEF S, T
  <2>4. Kept(lines, S) = lines
    BY <1>7, <2>2, KeptAll
  <2> QED
    BY <2>3, <2>4 DEF S
<1> HIDE DEF used, T
<1>9. <<>> \o stored = stored /\ DOMAIN stored = 1 .. R
  <2>1. DOMAIN stored = 1 .. R
    BY <1>7, <1>8
  <2>2. stored \in Seq({stored[n] : n \in 1 .. R})
    <3>1. stored = [n \in 1 .. R |-> stored[n]]
      BY <1>7, <1>8
    <3> HIDE DEF stored
    <3> DEFINE S == {stored[n] : n \in 1 .. R}
    <3>2. \A n \in 1 .. R : stored[n] \in S
      OBVIOUS
    <3> HIDE DEF S
    <3>3. stored \in Seq(S)
      BY ONLY <1>5, <3>1, <3>2, SequenceOf
    <3> QED
      BY <3>3 DEF S
  <2> HIDE DEF stored
  <2> QED
    BY <2>1, <2>2, ConcatEmptySeq
<1>10. ASSUME NEW n \in 1 .. R, NEW i \in 1 .. len
       PROVE  stored[n][i] = StoredCell(cols[i], n)
  <2> DEFINE line == lines[n]
  <2>1. stored[n] = insert_cells(line, coltypes)
    BY <1>7, <1>8
  <2>2. DOMAIN line = 1 .. len /\ line[i] = WrittenCell(cols[i], n)
    BY <1>7
  <2> HIDE DEF line, stored
  <2>3. stored[n][i] = IF types[i] = "double" THEN insert_double(line[i]) ELSE line[i]
    BY <1>5, <1>6, <2>1, <2>2 DEF insert_cells, insert_text
  <2> DEFINE c == cols[i]
  <2>4. types[i] = "double" <=> ~IsTexts(c)
    BY <1>4, <1>5
  <2>7. line[i] = WrittenCell(c, n)
    BY <2>2
  <2> HIDE DEF c
  <2>8. stored[n][i] = StoredCell(c, n)
    <3>1. CASE ~IsTexts(c)
      <4>1. WrittenCell(c, n) = to_precise_string(c.col.data[n])
        BY <3>1 DEF WrittenCell, IsTexts
      <4>2. stored[n][i] = insert_double(WrittenCell(c, n))
        BY <2>3, <2>4, <2>7, <3>1
      <4> QED
        BY <3>1, <4>1, <4>2, NumbersRead DEF StoredCell
    <3>2. CASE IsTexts(c)
      BY <2>3, <2>4, <2>7, <3>2 DEF StoredCell
    <3> QED
      BY <3>1, <3>2
  <2> QED
    BY <2>8 DEF c
<1> HIDE DEF stored
<1>11. /\ df_to_db(d).colnames = names /\ df_to_db(d).rows = stored
       /\ df_to_db(d).coltypes = created.coltypes
  <2>1. created = [colnames |-> statement.colnames, coltypes |-> statement.coltypes,
                   rows |-> <<>>]
    BY DEF created
  <2> QED
    BY <1>1, <1>2, <1>3, <1>9, <2>1
<1>12. \A i \in DOMAIN cols :
         df_to_db(d).coltypes[i] = IF IsTexts(cols[i]) THEN "TEXT" ELSE "REAL"
  BY <1>4, <1>6, <1>11
<1> QED
  BY <1>4, <1>5, <1>9, <1>10, <1>11, <1>12 DEF HoldsRows, R, cols

\* Where the cells of a column are in the rows.
LEMMA ColumnAt ==
  ASSUME NEW d, IsDataFrame(d), NEW names, NEW c \in Range(Columns(d)),
         names = [i \in DOMAIN Columns(d) |-> Columns(d)[i].col.name]
  PROVE  /\ IndexOf(names, c.col.name) \in DOMAIN Columns(d)
         /\ Columns(d)[IndexOf(names, c.col.name)] = c
<1>1. PICK S : Columns(d) \in Seq(S)
  BY FrameColumns
<1>2. PICK n \in Nat : DOMAIN Columns(d) = 1 .. n
  BY <1>1
<1>3. DOMAIN names = 1 .. n /\ \A i \in 1 .. n : names[i] = Columns(d)[i].col.name
  BY <1>2
<1>4. \E i \in 1 .. n : names[i] = c.col.name
  BY <1>2, <1>3 DEF Range
<1> DEFINE at == IndexOf(names, c.col.name)
           name == c.col.name
<1>5. at \in 1 .. n /\ names[at] = c.col.name
  <2>1. DOMAIN names = 1 .. n /\ \E i \in 1 .. n : names[i] = name
    BY <1>3, <1>4
  <2> HIDE DEF name
  <2>2. IndexOf(names, name) \in 1 .. n /\ names[IndexOf(names, name)] = name
    BY ONLY n \in Nat, <2>1, IndexFinds
  <2> QED
    BY <2>2 DEF name
<1> HIDE DEF at
<1>6. Columns(d)[at] \in Range(Columns(d)) /\ Columns(d)[at].col.name = c.col.name
  BY <1>2, <1>3, <1>5 DEF Range
<1>7. Columns(d)[at] = c
  BY <1>6, FrameColumns
<1> QED
  BY <1>2, <1>5, <1>7 DEF at

\* The place of a column among those that are read.
LEMMA PlaceRead ==
  ASSUME NEW d, IsDataFrame(d), NEW c \in Range(Columns(d)),
         NEW i \in DOMAIN SchemaOf(d)[ReadingRole(c)], SchemaOf(d)[ReadingRole(c)][i] = c.col.name
  PROVE  LET k == Before(SchemaOf(d), ReadingRole(c)) + i
         IN  /\ k \in DOMAIN concat_colnames(SchemaOf(d))
             /\ concat_colnames(SchemaOf(d))[k] = c.col.name
             /\ roles_of(SchemaOf(d))[k] = ReadingRole(c)
<1> DEFINE schema == SchemaOf(d)
           role == ReadingRole(c)
<1>1. \A r \in Range(AllRoles) : schema[r] \in Seq(Strings)
  BY SchemaNames
<1>2. role \in Range(AllRoles)
  BY RolesRead
<1>3. i \in DOMAIN schema[role] /\ schema[role][i] = c.col.name
  OBVIOUS
<1> HIDE DEF schema, role
<1>4. /\ Before(schema, role) + i \in DOMAIN concat_colnames(schema)
      /\ concat_colnames(schema)[Before(schema, role) + i] = schema[role][i]
      /\ roles_of(schema)[Before(schema, role) + i] = role
  BY ONLY <1>1, <1>2, <1>3, PlaceInSchema
<1> QED
  BY <1>3, <1>4 DEF schema, role

\* No string of a data frame stands for the null of a table,
LEMMA StoredWithin ==
  ASSUME NEW d, IsDataFrame(d), FitsText(d), NEW c \in Range(Columns(d)), c.role \in StringRoles,
         NEW n \in DOMAIN c.col.data
  PROVE  c.col.data[n] # DBNULL
<1>1. c.role \in Range(AllRoles) /\ \E i \in DOMAIN d[c.role] : c.col = d[c.role][i]
  BY FrameColumns
<1>2. PICK i \in DOMAIN d[c.role] : c.col = d[c.role][i]
  BY <1>1
<1>3. DBNULL \notin Range(d[c.role][i].data)
  BY <1>1 DEF FitsText
<1> QED
  BY <1>2, <1>3 DEF Range

\* and what is read of them, or of a query, are the cells that their texts say.
LEMMA StoredRowsRead ==
  ASSUME NEW d, IsDataFrame(d), FitsText(d), NEW t, HoldsRows(t, d),
         NEW time_formats, ReadsTimes(time_formats)
  PROVE  /\ from_db(t, SchemaOf(d), time_formats) # Failure =>
              CellsOf(from_db(t, SchemaOf(d), time_formats)) =
                {<<c.col.name, InText(c)>> : c \in Range(Columns(d))}
         /\ CellsOf(from_query(t, SchemaOf(d), time_formats)) =
              {<<c.col.name, InQuery(c)>> : c \in Range(Columns(d))}
<1> DEFINE schema == SchemaOf(d)
           all == concat_colnames(schema)
           roles == roles_of(schema)
           at(k) == IndexOf(t.colnames, all[k])
           type(k) == t.coltypes[at(k)]
           lines == select_rows(t, all)
           place(role, i) == Before(schema, role) + i
           OfTable(k, row) ==
             CASE roles[k] \in StringRoles -> string_cell(roles[k], iter_get_string(type(k), row[k]))
               [] roles[k] = "time_stamp"  -> iter_get_time_stamp(type(k), row[k], time_formats)
               [] OTHER                    -> iter_get_double(type(k), row[k])
           OfQuery(k, row) == cell(roles[k], iter_get_string(type(k), row[at(k)]), time_formats)
           text == [c \in Range(Columns(d)) |-> InText(c)]
           digits == [c \in Range(Columns(d)) |-> InQuery(c)]
           tabled  == [role \in Range(AllRoles) |-> [i \in DOMAIN schema[role] |->
                         [n \in DOMAIN lines |-> OfTable(place(role, i), lines[n])]]]
           queried == [role \in Range(AllRoles) |-> [i \in DOMAIN schema[role] |->
                         [n \in DOMAIN t.rows |-> OfQuery(place(role, i), t.rows[n])]]]
<1>1. ASSUME NEW c \in Range(Columns(d)),
             NEW i \in DOMAIN schema[ReadingRole(c)], schema[ReadingRole(c)][i] = c.col.name
      PROVE  /\ tabled[ReadingRole(c)][i] = InText(c)
             /\ queried[ReadingRole(c)][i] = InQuery(c)
  <2> DEFINE role == ReadingRole(c)
             k == place(role, i)
             R == row_count(d)
             coltype == type(k)
             said == [n \in 1 .. R |-> AsText(c, c.col.data[n])]
             asked == [n \in 1 .. R |-> AsQueried(c, c.col.data[n])]
  <2>1. k \in DOMAIN all /\ all[k] = c.col.name /\ roles[k] = role
    BY <1>1, PlaceRead
  <2>2. at(k) \in DOMAIN Columns(d) /\ Columns(d)[at(k)] = c
    BY <2>1, ColumnAt DEF HoldsRows
  <2>3. /\ \A n \in 1 .. R : t.rows[n][at(k)] = StoredCell(c, n)
        /\ coltype = IF IsTexts(c) THEN "TEXT" ELSE "REAL"
    BY <2>2 DEF HoldsRows
  <2>4. /\ DOMAIN lines = 1 .. R /\ DOMAIN t.rows = 1 .. R
        /\ \A n \in 1 .. R : lines[n][k] = StoredCell(c, n)
    BY <2>1, <2>3 DEF HoldsRows, select_rows
  <2>5. role \in Range(AllRoles) /\ i \in DOMAIN schema[role]
    BY RolesRead
  <2>6. DOMAIN c.col.data = 1 .. R /\ IsColumn(c)
    BY RowCount, FrameColumns
  <2>7. ASSUME NEW n \in 1 .. R
        PROVE  /\ role \in StringRoles =>
                    string_cell(role, iter_get_string(coltype, StoredCell(c, n))) = said[n]
               /\ role = "time_stamp" =>
                    iter_get_time_stamp(coltype, StoredCell(c, n), time_formats) = said[n]
               /\ role \notin StringRoles /\ role # "time_stamp" =>
                    iter_get_double(coltype, StoredCell(c, n)) = said[n]
               /\ cell(role, iter_get_string(coltype, StoredCell(c, n)), time_formats) = asked[n]
    <3>1. n \in DOMAIN c.col.data
      BY <2>6
    <3>2. c.role \in StringRoles => c.col.data[n] # DBNULL
      BY <3>1, StoredWithin
    <3>3. IsColumn(c)
      BY <2>6
    <3>4. said[n] = AsText(c, c.col.data[n]) /\ asked[n] = AsQueried(c, c.col.data[n])
      OBVIOUS
    <3> HIDE DEF coltype, said, asked
    <3> QED
      BY ONLY <2>3, <3>1, <3>2, <3>3, <3>4, ReadsTimes(time_formats), StoredCellRead
  <2>8. /\ tabled[role][i] = [n \in 1 .. R |-> OfTable(k, lines[n])]
        /\ queried[role][i] = [n \in 1 .. R |-> OfQuery(k, t.rows[n])]
    BY <2>4, <2>5
  <2>9. InText(c) = said /\ InQuery(c) = asked
    BY <2>6 DEF InText, InQuery
  <2>10. said = [n \in 1 .. R |-> said[n]] /\ asked = [n \in 1 .. R |-> asked[n]]
    OBVIOUS
  <2>11. /\ OfTable(k, lines[1]) = OfTable(k, lines[1])
         /\ \A row : OfTable(k, row) =
              IF role \in StringRoles THEN string_cell(role, iter_get_string(coltype, row[k]))
              ELSE IF role = "time_stamp" THEN iter_get_time_stamp(coltype, row[k], time_formats)
              ELSE iter_get_double(coltype, row[k])
         /\ \A row : OfQuery(k, row) = cell(role, iter_get_string(coltype, row[at(k)]), time_formats)
    BY <2>1 DEF StringRoles
  <2> HIDE DEF k, role, tabled, queried, lines, R, said, asked, coltype, OfTable, OfQuery, at
  <2>12. \A n \in 1 .. R : OfTable(k, lines[n]) = said[n]
    BY <2>4, <2>7, <2>11
  <2>13. \A n \in 1 .. R : OfQuery(k, t.rows[n]) = asked[n]
    BY <2>3, <2>7, <2>11
  <2>14. tabled[role][i] = said /\ queried[role][i] = asked
    BY <2>8, <2>10, <2>12, <2>13
  <2> QED
    BY <2>9, <2>14 DEF role
<1>2. ASSUME NEW role \in Range(AllRoles), from_db(t, schema, time_formats) # Failure
      PROVE  from_db(t, schema, time_formats)[role] =
               [i \in DOMAIN schema[role] |-> NamedColumn(schema[role][i], tabled[role][i])]
  <2>1. from_db(t, schema, time_formats)[role] =
          [i \in DOMAIN schema[role] |->
             NamedColumn(schema[role][i], [n \in DOMAIN lines |-> OfTable(place(role, i), lines[n])])]
    <3> HIDE DEF schema, lines
    <3> QED
      BY <1>2 DEF from_db, Vectors, Before, lines
  <2> HIDE DEF schema, lines, OfTable
  <2> QED
    BY <2>1
<1>3. ASSUME NEW role \in Range(AllRoles)
      PROVE  from_query(t, schema, time_formats)[role] =
               [i \in DOMAIN schema[role] |-> NamedColumn(schema[role][i], queried[role][i])]
  <2>1. from_query(t, schema, time_formats)[role] =
          [i \in DOMAIN schema[role] |->
             NamedColumn(schema[role][i],
                         [n \in DOMAIN t.rows |-> OfQuery(place(role, i), t.rows[n])])]
    <3> HIDE DEF schema
    <3> QED
      BY DEF from_query, Vectors, Before
  <2> HIDE DEF schema, OfQuery
  <2> QED
    BY <2>1
<1>4. \A c \in Range(Columns(d)) : \A i \in DOMAIN SchemaOf(d)[ReadingRole(c)] :
        SchemaOf(d)[ReadingRole(c)][i] = c.col.name =>
          /\ tabled[ReadingRole(c)][i] = text[c]
          /\ queried[ReadingRole(c)][i] = digits[c]
  BY <1>1
<1>5. /\ \A c \in Range(Columns(d)) : text[c] = InText(c)
      /\ \A c \in Range(Columns(d)) : digits[c] = InQuery(c)
  OBVIOUS
<1> HIDE DEF queried, tabled, text, digits
<1>6. CellsOf(from_query(t, schema, time_formats)) =
        {<<c.col.name, InQuery(c)>> : c \in Range(Columns(d))}
  <2>1. HoldsColumns(from_query(t, schema, time_formats), d, digits)
    BY ONLY IsDataFrame(d), <1>3, <1>4, FrameHolds DEF schema
  <2>2. CellsOf(from_query(t, schema, time_formats)) =
          {<<c.col.name, digits[c]>> : c \in Range(Columns(d))}
    BY ONLY IsDataFrame(d), <2>1, CellsFound
  <2> QED
    BY <1>5, <2>2
<1>7. ASSUME from_db(t, schema, time_formats) # Failure
      PROVE  CellsOf(from_db(t, schema, time_formats)) =
               {<<c.col.name, InText(c)>> : c \in Range(Columns(d))}
  <2>1. HoldsColumns(from_db(t, schema, time_formats), d, text)
    BY ONLY IsDataFrame(d), <1>2, <1>4, <1>7, FrameHolds DEF schema
  <2>2. CellsOf(from_db(t, schema, time_formats)) =
          {<<c.col.name, text[c]>> : c \in Range(Columns(d))}
    BY ONLY IsDataFrame(d), <2>1, CellsFound
  <2> QED
    BY <1>5, <2>2
<1> QED
  BY <1>6, <1>7

-----------------------------------------------------------------------------
(* CSV files: lines *)

\* The beginning of a sequence, up to the next element.
LEMMA PrefixGrows ==
  ASSUME NEW S, NEW s \in Seq(S), NEW j \in Nat, j + 1 \in 1 .. Len(s)
  PROVE  SubSeq(s, 1, j + 1) = Append(SubSeq(s, 1, j), s[j + 1])
OBVIOUS

\* The run of lines_of through a text.
ReadsLines(f, text, S) ==
  /\ f[0].lines = <<>> /\ f[0].line = <<>>
  /\ \A m \in 0 .. Len(text) : f[m].lines \in Seq(Seq(S)) /\ f[m].line \in Seq(S)
  /\ \A m \in 1 .. Len(text) :
       IF text[m] = LF
       THEN f[m].lines = Append(f[m - 1].lines, f[m - 1].line) /\ f[m].line = <<>>
       ELSE f[m].lines = f[m - 1].lines /\ f[m].line = Append(f[m - 1].line, text[m])

\* lines_of goes over a text one character after the other.
LEMMA LinesAreRead ==
  ASSUME NEW S, NEW text \in Seq(S)
  PROVE  \E f : /\ ReadsLines(f, text, S)
                /\ lines_of(text) = Append(f[Len(text)].lines, f[Len(text)].line)
<1> DEFINE N == Len(text)
           R == [lines : Seq(Seq(S)), line : Seq(S)]
           init == [lines |-> <<>>, line |-> <<>>]
           next(st, m) == IF text[m] = LF
                          THEN [lines |-> Append(st.lines, st.line), line |-> <<>>]
                          ELSE [st EXCEPT !.line = Append(@, text[m])]
           step == [m \in 1 .. N |-> [st \in R |-> next(st, m)]]
           read == CHOOSE f : f = [i \in 0 .. N |-> IF i = 0 THEN init ELSE next(f[i - 1], i)]
<1>1. N \in Nat /\ init \in R /\ \A m \in 1 .. N : text[m] \in S
  OBVIOUS
<1>2. lines_of(text) = Append(read[N].lines, read[N].line)
  BY DEF lines_of
<1>3. ASSUME NEW st \in R, NEW m \in 1 .. N PROVE next(st, m) \in R
  <2>1. /\ st.lines \in Seq(Seq(S)) /\ st.line \in Seq(S) /\ text[m] \in S
        /\ \A x : [st EXCEPT !.line = x] = [lines |-> st.lines, line |-> x]
    BY <1>1
  <2>2. Append(st.lines, st.line) \in Seq(Seq(S)) /\ Append(st.line, text[m]) \in Seq(S)
    BY <2>1
  <2>3. CASE text[m] = LF
    BY <2>2, <2>3
  <2>4. CASE text[m] # LF
    BY <2>1, <2>2, <2>4
  <2> QED
    BY <2>3, <2>4
<1> HIDE DEF next, N, R, init
<1>4. read = [i \in 0 .. N |-> IF i = 0 THEN init ELSE next(read[i - 1], i)]
      /\ read \in [0 .. N -> R]
  <2>1. step \in [1 .. N -> [R -> R]]
    BY <1>3
  <2>2. ASSUME NEW st \in R, NEW m \in 1 .. N PROVE step[m][st] = next(st, m)
    OBVIOUS
  <2> HIDE DEF step
  <2>3. PICK f : Repeats(f, N, R, init, step)
    BY <1>1, <2>1, RecursiveFunctionExists
  <2>4. f = [i \in 0 .. N |-> IF i = 0 THEN init ELSE next(f[i - 1], i)]
    <3>1. ASSUME NEW i \in 0 .. N PROVE f[i] = IF i = 0 THEN init ELSE next(f[i - 1], i)
      <4>1. CASE i = 0
        BY <2>3, <4>1 DEF Repeats
      <4>2. CASE i # 0
        <5>1. i \in 1 .. N /\ i - 1 \in 0 .. N
          BY <1>1, <4>2
        <5>2. f[i - 1] \in R
          BY <2>3, <5>1 DEF Repeats
        <5> QED
          BY <2>2, <2>3, <4>2, <5>1, <5>2 DEF Repeats
      <4> QED
        BY <4>1, <4>2
    <3> QED
      BY <2>3, <3>1 DEF Repeats
  <2>5. read = [i \in 0 .. N |-> IF i = 0 THEN init ELSE next(read[i - 1], i)]
    BY <2>4
  <2> HIDE DEF read
  <2> DEFINE T == {i \in 0 .. N : read[i] \in R}
  <2>6. 0 \in T
    BY <1>1, <2>5
  <2>7. \A i \in 0 .. N - 1 : i \in T => i + 1 \in T
    <3>1. ASSUME NEW i \in 0 .. N - 1, i \in T PROVE i + 1 \in T
      <4>1. i + 1 \in 1 .. N /\ i + 1 \in 0 .. N /\ i + 1 # 0 /\ (i + 1) - 1 = i /\ read[i] \in R
        BY <1>1, <3>1
      <4>2. read[i + 1] = next(read[i], i + 1)
        BY <2>5, <4>1
      <4> QED
        BY <1>3, <4>1, <4>2
    <3> QED
      BY <3>1
  <2>8. 0 .. N \subseteq T
    <3> HIDE DEF T
    <3> QED
      BY ONLY <1>1, <2>6, <2>7, BoundedInduction
  <2> QED
    BY <2>5, <2>8
<1> HIDE DEF read
<1>5. ReadsLines(read, text, S)
  <2>1. read[0] = init
    BY <1>1, <1>4
  <2>2. \A m \in 1 .. N : read[m] = next(read[m - 1], m)
    BY <1>1, <1>4
  <2>3. \A m \in 0 .. Len(text) : read[m].lines \in Seq(Seq(S)) /\ read[m].line \in Seq(S)
    BY <1>4 DEF N, R
  <2>4. ASSUME NEW m \in 1 .. Len(text)
        PROVE  IF text[m] = LF
               THEN read[m].lines = Append(read[m - 1].lines, read[m - 1].line)
                    /\ read[m].line = <<>>
               ELSE /\ read[m].lines = read[m - 1].lines
                    /\ read[m].line = Append(read[m - 1].line, text[m])
    <3>1. m \in 1 .. N /\ read[m - 1] \in R
      <4>1. m \in 1 .. N
        BY DEF N
      <4>2. m - 1 \in 0 .. N
        BY <1>1, <4>1
      <4> QED
        BY <1>4, <4>1, <4>2
    <3>2. read[m] = next(read[m - 1], m)
      BY <2>2, <3>1
    <3> DEFINE st == read[m - 1]
    <3>3. st \in R /\ read[m] = next(st, m)
      BY <3>1, <3>2
    <3> HIDE DEF st
    <3>4. IF text[m] = LF
          THEN read[m].lines = Append(st.lines, st.line) /\ read[m].line = <<>>
          ELSE read[m].lines = st.lines /\ read[m].line = Append(st.line, text[m])
      <4>1. CASE text[m] = LF
        <5>1. read[m] = [lines |-> Append(st.lines, st.line), line |-> <<>>]
          BY <3>3, <4>1 DEF next
        <5> QED
          BY <5>1, <4>1
      <4>2. CASE text[m] # LF
        <5>1. read[m] = [st EXCEPT !.line = Append(@, text[m])]
          BY <3>3, <4>2 DEF next
        <5> QED
          BY <5>1, <3>3, <4>2 DEF R
      <4> QED
        BY <4>1, <4>2
    <3> QED
      BY <3>4 DEF st
  <2>5. read[0].lines = <<>> /\ read[0].line = <<>>
    BY <2>1 DEF init
  <2> QED
    BY ONLY <2>3, <2>4, <2>5 DEF ReadsLines
<1> QED
  BY <1>2, <1>5 DEF N

\* From p on, characters that are no line feeds become part of the line.
LEMMA LineGoesOn ==
  ASSUME NEW S, NEW text \in Seq(S), NEW f, ReadsLines(f, text, S),
         NEW p \in Nat, NEW body \in Seq(S), p + Len(body) <= Len(text),
         f[p].line = <<>>, LF \notin Range(body),
         \A j \in 1 .. Len(body) : text[p + j] = body[j]
  PROVE  f[p + Len(body)].lines = f[p].lines /\ f[p + Len(body)].line = body
<1> DEFINE N == Len(body)
           P(j) == f[p + j].lines = f[p].lines /\ f[p + j].line = SubSeq(body, 1, j)
           T == {j \in 0 .. N : P(j)}
<1>1. N \in Nat /\ Len(text) \in Nat /\ p \in 0 .. Len(text) /\ p + N <= Len(text)
  OBVIOUS
<1>2. 0 \in T
  <2>1. SubSeq(body, 1, 0) = <<>> /\ p + 0 = p
    OBVIOUS
  <2>2. P(0)
    BY <2>1
  <2> HIDE DEF P, N
  <2> QED
    BY <1>1, <2>2
<1>3. ASSUME NEW j \in 0 .. N - 1, j \in T PROVE j + 1 \in T
  <2> DEFINE m == p + (j + 1)
  <2>1. /\ m \in 1 .. Len(text) /\ m - 1 = p + j
        /\ j + 1 \in 1 .. N /\ j + 1 \in 0 .. N /\ j \in Nat
    <3>1. j \in 0 .. N - 1
      OBVIOUS
    <3> DEFINE L == Len(text)
    <3>2. L \in Nat /\ p + N <= L
      BY <1>1
    <3> HIDE DEF N, L
    <3>3. m \in 1 .. L /\ m - 1 = p + j /\ j + 1 \in 1 .. N /\ j + 1 \in 0 .. N /\ j \in Nat
      BY ONLY <1>1, <3>1, <3>2, p \in Nat
    <3> QED
      BY <3>3 DEF L
  <2>2. text[m] = body[j + 1] /\ body[j + 1] # LF
    BY <2>1 DEF Range
  <2>3. SubSeq(body, 1, j + 1) = Append(SubSeq(body, 1, j), body[j + 1])
    BY ONLY <2>1, body \in Seq(S), PrefixGrows DEF N
  <2> HIDE DEF m
  <2>4. f[m].lines = f[m - 1].lines /\ f[m].line = Append(f[m - 1].line, text[m])
    BY <2>1, <2>2 DEF ReadsLines
  <2>5. f[m - 1].lines = f[p].lines /\ f[m - 1].line = SubSeq(body, 1, j)
    BY <1>3, <2>1
  <2>6. f[m].lines = f[p].lines /\ f[m].line = SubSeq(body, 1, j + 1)
    BY <2>2, <2>3, <2>4, <2>5
  <2> QED
    BY <2>1, <2>6 DEF m
<1>4. 0 .. N \subseteq T
  <2> HIDE DEF N, T
  <2>1. N \in Nat
    BY <1>1
  <2> QED
    BY ONLY <2>1, <1>2, <1>3, BoundedInduction
<1>5. P(N)
  <2>1. N \in 0 .. N
    BY <1>1
  <2>2. N \in T
    BY ONLY <2>1, <1>4
  <2> QED
    BY <2>2
<1>6. SubSeq(body, 1, N) = body
  OBVIOUS
<1> QED
  BY <1>5, <1>6

\* The lines of a text: where they end, and what they consist of.
LinesLie(text, bodies, n, e) ==
  /\ e \in [0 .. n -> Nat] /\ e[0] = 0 /\ e[n] = Len(text)
  /\ \A k \in 1 .. n :
       /\ e[k] = e[k - 1] + Len(bodies[k]) + 1
       /\ e[k] <= Len(text)
       /\ text[e[k]] = LF
       /\ LF \notin Range(bodies[k])
       /\ \A j \in 1 .. Len(bodies[k]) : text[e[k - 1] + j] = bodies[k][j]

\* The lines of a text are what is between its line feeds.
LEMMA LinesFound ==
  ASSUME NEW S, NEW text \in Seq(S), NEW n \in Nat, NEW bodies \in Seq(Seq(S)), Len(bodies) = n,
         NEW e, LinesLie(text, bodies, n, e)
  PROVE  lines_of(text) = Append(bodies, <<>>)
<1>1. PICK f : /\ ReadsLines(f, text, S)
               /\ lines_of(text) = Append(f[Len(text)].lines, f[Len(text)].line)
  BY LinesAreRead
<1> DEFINE P(k) == f[e[k]].lines = SubSeq(bodies, 1, k) /\ f[e[k]].line = <<>>
           T == {k \in 0 .. n : P(k)}
<1>2. 0 \in T
  <2>1. P(0)
    BY <1>1 DEF ReadsLines, LinesLie
  <2> HIDE DEF P
  <2> QED
    BY <2>1
<1>3. ASSUME NEW k \in 0 .. n - 1, k \in T PROVE k + 1 \in T
  <2> DEFINE i == k + 1
             body == bodies[i]
             p == e[k]
             m == e[i]
  <2>1. i \in 1 .. n /\ i - 1 = k /\ k \in 0 .. n
    OBVIOUS
  <2>2. body \in Seq(S) /\ Len(body) \in Nat
    BY <2>1
  <2>3. P(k)
    BY <1>3
  <2>4. SubSeq(bodies, 1, i) = Append(SubSeq(bodies, 1, k), body)
    BY <2>1
  <2> HIDE DEF i, body
  <2>5. /\ m = p + Len(body) + 1 /\ m <= Len(text) /\ text[m] = LF /\ LF \notin Range(body)
        /\ \A j \in 1 .. Len(body) : text[p + j] = body[j]
    BY <2>1 DEF LinesLie, body
  <2>6. p \in Nat /\ m \in Nat
    BY <2>1 DEF LinesLie
  <2>7. f[p].lines = SubSeq(bodies, 1, k) /\ f[p].line = <<>>
    BY <2>3
  <2> HIDE DEF p, m
  <2>8. p + Len(body) <= Len(text) /\ m - 1 = p + Len(body) /\ m \in 1 .. Len(text)
    <3> DEFINE L == Len(text)
    <3>1. L \in Nat /\ m <= L
      BY <2>5
    <3> HIDE DEF L
    <3>2. p + Len(body) <= L /\ m - 1 = p + Len(body) /\ m \in 1 .. L
      BY <2>2, <2>5, <2>6, <3>1
    <3> QED
      BY <3>2 DEF L
  <2>9. f[p + Len(body)].lines = f[p].lines /\ f[p + Len(body)].line = body
    BY ONLY <1>1, <2>2, <2>5, <2>6, <2>7, <2>8, text \in Seq(S), LineGoesOn
  <2>10. f[m].lines = Append(f[m - 1].lines, f[m - 1].line) /\ f[m].line = <<>>
    BY <1>1, <2>5, <2>8 DEF ReadsLines
  <2>11. f[m].lines = SubSeq(bodies, 1, i) /\ f[m].line = <<>>
    BY <2>4, <2>7, <2>8, <2>9, <2>10
  <2>12. P(i)
    BY <2>11 DEF m
  <2> HIDE DEF P
  <2> QED
    BY <2>1, <2>12 DEF i
<1>4. 0 .. n \subseteq T
  <2> HIDE DEF T
  <2> QED
    BY ONLY n \in Nat, <1>2, <1>3, BoundedInduction
<1>5. P(n)
  <2>1. n \in 0 .. n
    OBVIOUS
  <2>2. n \in T
    BY ONLY <2>1, <1>4
  <2> QED
    BY <2>2
<1>6. SubSeq(bodies, 1, n) = bodies /\ e[n] = Len(text)
  BY DEF LinesLie
<1> QED
  BY <1>1, <1>5, <1>6

\* What Append does to an empty sequence and to the first element of another.
LEMMA AppendKeepsFirst ==
  /\ \A x : Append(<<>>, x) = <<x>>
  /\ \A S : \A s \in Seq(S) : \A x \in S : Append(s, x) \in Seq(S) /\ Len(Append(s, x)) = Len(s) + 1
  /\ \A S : \A s \in Seq(S) : \A x :
       Len(s) > 0 => Len(Append(s, x)) > 1 /\ Len(Append(s, x)) > 0 /\ Append(s, x)[1] = s[1]
OBVIOUS

\* The first line of a text, whatever follows it.
LEMMA FirstLine ==
  ASSUME NEW S, LF \in S, NEW body \in Seq(S), LF \notin Range(body), NEW tail \in Seq(S),
         NEW text, text = Append(body, LF) \o tail
  PROVE  /\ lines_of(text) \in Seq(Seq(S)) /\ Len(lines_of(text)) > 1
         /\ lines_of(text)[1] = body
<1> DEFINE N == Len(text)
           p == Len(body) + 1
<1>1. /\ text \in Seq(S) /\ N \in Nat /\ p \in 1 .. N /\ text[p] = LF
      /\ \A j \in 1 .. Len(body) : text[j] = body[j]
  OBVIOUS
<1>2. PICK f : ReadsLines(f, text, S) /\ lines_of(text) = Append(f[N].lines, f[N].line)
  BY <1>1, LinesAreRead
<1>3. f[Len(body)].lines = <<>> /\ f[Len(body)].line = body
  <2>1. /\ \A j \in 1 .. Len(body) : text[0 + j] = body[j]
        /\ 0 + Len(body) <= Len(text) /\ 0 + Len(body) = Len(body)
    BY <1>1
  <2>2. f[0].lines = <<>> /\ f[0].line = <<>>
    BY <1>2 DEF ReadsLines
  <2>3. f[0 + Len(body)].lines = f[0].lines /\ f[0 + Len(body)].line = body
    <3> DEFINE z == 0
    <3>1. z \in Nat /\ f[z].line = <<>> /\ z + Len(body) <= Len(text)
          /\ \A j \in 1 .. Len(body) : text[z + j] = body[j]
      BY <2>1, <2>2
    <3> HIDE DEF z
    <3>2. f[z + Len(body)].lines = f[z].lines /\ f[z + Len(body)].line = body
      <4>1. text \in Seq(S) /\ ReadsLines(f, text, S)
        BY <1>1, <1>2
      <4> QED
        BY ONLY <4>1, <3>1, body \in Seq(S), LF \notin Range(body), LineGoesOn
    <3> QED
      BY <3>2 DEF z
  <2> QED
    BY <2>1, <2>2, <2>3
<1>4. f[p].lines = <<body>>
  <2>1. p - 1 = Len(body) /\ p \in 1 .. Len(text)
    BY <1>1
  <2> HIDE DEF p
  <2>2. f[p].lines = Append(f[p - 1].lines, f[p - 1].line)
    BY <1>1, <1>2, <2>1 DEF ReadsLines
  <2> QED
    BY <1>3, <2>1, <2>2, AppendKeepsFirst
<1> HIDE DEF p, N
<1> DEFINE T == {k \in 0 .. N : k >= p => Len(f[k].lines) > 0 /\ f[k].lines[1] = body}
<1>5. 0 \in T
  BY <1>1
<1>6. ASSUME NEW k \in 0 .. N - 1, k \in T PROVE k + 1 \in T
  <2> DEFINE m == k + 1
  <2>1. m \in 1 .. N /\ m - 1 = k /\ m \in 0 .. N /\ k \in 0 .. N /\ k \in Nat
    BY <1>1
  <2> HIDE DEF m
  <2>2. CASE m = p
    <3>1. Len(f[m].lines) > 0 /\ f[m].lines[1] = body
      <4>1. Len(<<body>>) > 0 /\ <<body>>[1] = body
        OBVIOUS
      <4> QED
        BY ONLY <1>4, <2>2, <4>1, Zenon
    <3> QED
      BY <2>1, <3>1 DEF m
  <2>3. CASE m < p
    BY <1>1, <2>1, <2>3 DEF m
  <2>4. CASE m > p
    <3>1. k >= p
      BY <1>1, <2>1, <2>4
    <3>2. Len(f[k].lines) > 0 /\ f[k].lines[1] = body
      BY <1>6, <3>1
    <3>3. f[k].lines \in Seq(Seq(S)) /\ f[k].line \in Seq(S)
      BY <1>2, <2>1 DEF ReadsLines, N
    <3>4. f[m].lines = f[k].lines \/ f[m].lines = Append(f[k].lines, f[k].line)
      BY <1>2, <2>1 DEF ReadsLines, N
    <3>5. Len(f[m].lines) > 0 /\ f[m].lines[1] = body
      <4> DEFINE a == f[k].lines
                 b == f[m].lines
      <4>1. Len(a) > 0 /\ a[1] = body /\ a \in Seq(Seq(S)) /\ (b = a \/ b = Append(a, f[k].line))
        BY <3>2, <3>3, <3>4
      <4> HIDE DEF a, b
      <4>2. Len(b) > 0 /\ b[1] = body
        <5>1. \A x : Len(Append(a, x)) > 0 /\ Append(a, x)[1] = a[1]
          BY ONLY <4>1, AppendKeepsFirst, Zenon
        <5> QED
          <6>1. CASE b = a
            BY ONLY <4>1, <6>1, Zenon
          <6>2. CASE b = Append(a, f[k].line)
            <7>1. Len(Append(a, f[k].line)) > 0 /\ Append(a, f[k].line)[1] = a[1]
              BY ONLY <5>1, Zenon
            <7>2. a[1] = body
              BY ONLY <4>1, Zenon
            <7> QED
              BY ONLY <7>1, <7>2, <6>2, Zenon
          <6> QED
            BY ONLY <4>1, <6>1, <6>2, Zenon
      <4> QED
        BY <4>2 DEF b
    <3> QED
      BY <2>1, <3>5 DEF m
  <2> QED
    BY <1>1, <2>1, <2>2, <2>3, <2>4
<1>7. 0 .. N \subseteq T
  <2> HIDE DEF T
  <2>1. N \in Nat
    BY <1>1
  <2> QED
    BY ONLY <2>1, <1>5, <1>6, BoundedInduction
<1>8. Len(f[N].lines) > 0 /\ f[N].lines[1] = body
  <2>1. N \in 0 .. N /\ N >= p
    BY <1>1
  <2>2. N \in T
    BY ONLY <2>1, <1>7
  <2> QED
    BY <2>1, <2>2
<1>9. f[N].lines \in Seq(Seq(S)) /\ f[N].line \in Seq(S)
  BY <1>1, <1>2 DEF ReadsLines, N
<1> DEFINE a == f[N].lines
           x == f[N].line
<1>10. Len(a) > 0 /\ a[1] = body /\ a \in Seq(Seq(S)) /\ x \in Seq(S) /\ lines_of(text) = Append(a, x)
  BY <1>2, <1>8, <1>9
<1> HIDE DEF a, x
<1> QED
  BY ONLY <1>10, AppendKeepsFirst

-----------------------------------------------------------------------------
(* CSV files: fields *)

\* The run of fields_of through a line.
Chops(f, line, r, S) ==
  /\ f[0].result = <<>> /\ f[0].field = <<>> /\ f[0].is_quoted = FALSE
  /\ \A m \in 0 .. Len(line) :
       f[m].result \in Seq(Seq(S)) /\ f[m].field \in Seq(S) /\ f[m].is_quoted \in BOOLEAN
  /\ \A m \in 1 .. Len(line) :
       /\ line[m] = r.sep_ /\ f[m - 1].is_quoted = FALSE =>
            /\ f[m].result = Append(f[m - 1].result, f[m - 1].field)
            /\ f[m].field = <<>> /\ f[m].is_quoted = FALSE
       /\ line[m] = r.quotechar_ /\ r.quotechar_ # r.sep_ =>
            /\ f[m].result = f[m - 1].result /\ f[m].field = f[m - 1].field
            /\ f[m - 1].is_quoted = FALSE => f[m].is_quoted = TRUE
            /\ f[m - 1].is_quoted = TRUE => f[m].is_quoted = FALSE
       /\ (line[m] # r.sep_ \/ f[m - 1].is_quoted = TRUE) /\ line[m] # r.quotechar_ =>
            /\ f[m].result = f[m - 1].result /\ f[m].field = Append(f[m - 1].field, line[m])
            /\ f[m].is_quoted = f[m - 1].is_quoted

\* fields_of goes over a line one character after the other.
LEMMA FieldsAreChopped ==
  ASSUME NEW S, NEW line \in Seq(S), NEW r
  PROVE  \E f : /\ Chops(f, line, r, S)
                /\ fields_of(r, line) = Append(f[Len(line)].result, trim(f[Len(line)].field))
<1> DEFINE N == Len(line)
           R == [result : Seq(Seq(S)), field : Seq(S), is_quoted : BOOLEAN]
           init == [result |-> <<>>, field |-> <<>>, is_quoted |-> FALSE]
           next(st, m) == IF line[m] = r.sep_ /\ ~ st.is_quoted
                          THEN [st EXCEPT !.result = Append(@, st.field), !.field = <<>>]
                          ELSE IF line[m] = r.quotechar_ THEN [st EXCEPT !.is_quoted = ~ @]
                          ELSE [st EXCEPT !.field = Append(@, line[m])]
           step == [m \in 1 .. N |-> [st \in R |-> next(st, m)]]
           read == CHOOSE f : f = [i \in 0 .. N |-> IF i = 0 THEN init ELSE next(f[i - 1], i)]
<1>1. N \in Nat /\ init \in R /\ \A m \in 1 .. N : line[m] \in S
  OBVIOUS
<1>2. fields_of(r, line) = Append(read[N].result, trim(read[N].field))
  BY DEF fields_of
<1>3. ASSUME NEW st \in R, NEW m \in 1 .. N
      PROVE  /\ next(st, m) \in R
             /\ line[m] = r.sep_ /\ st.is_quoted = FALSE =>
                  /\ next(st, m).result = Append(st.result, st.field)
                  /\ next(st, m).field = <<>> /\ next(st, m).is_quoted = FALSE
             /\ line[m] = r.quotechar_ /\ r.quotechar_ # r.sep_ =>
                  /\ next(st, m).result = st.result /\ next(st, m).field = st.field
                  /\ st.is_quoted = FALSE => next(st, m).is_quoted = TRUE
                  /\ st.is_quoted = TRUE => next(st, m).is_quoted = FALSE
             /\ (line[m] # r.sep_ \/ st.is_quoted = TRUE) /\ line[m] # r.quotechar_ =>
                  /\ next(st, m).result = st.result
                  /\ next(st, m).field = Append(st.field, line[m])
                  /\ next(st, m).is_quoted = st.is_quoted
  <2>1. /\ st.result \in Seq(Seq(S)) /\ st.field \in Seq(S) /\ line[m] \in S
        /\ st.is_quoted \in BOOLEAN
    BY <1>1
  <2>2. Append(st.result, st.field) \in Seq(Seq(S)) /\ Append(st.field, line[m]) \in Seq(S)
    BY <2>1
  <2>3. CASE line[m] = r.sep_ /\ st.is_quoted = FALSE
    <3>1. next(st, m) = [st EXCEPT !.result = Append(@, st.field), !.field = <<>>]
      BY <2>3
    <3> DEFINE x == Append(st.result, st.field)
    <3> HIDE DEF next
    <3>2. x \in Seq(Seq(S)) /\ next(st, m) = [st EXCEPT !.result = x, !.field = <<>>]
      BY <2>2, <3>1
    <3> HIDE DEF x
    <3>3. /\ next(st, m) \in R /\ next(st, m).result = x
          /\ next(st, m).field = <<>> /\ next(st, m).is_quoted = FALSE
      <4> DEFINE mid == [st EXCEPT !.result = x]
      <4>1. mid \in R /\ mid.result = x /\ mid.is_quoted = FALSE
        BY ONLY <2>3, <3>2
      <4>2. next(st, m) = [mid EXCEPT !.field = <<>>] /\ <<>> \in Seq(S)
        BY <3>2
      <4> HIDE DEF mid
      <4> QED
        BY ONLY <4>1, <4>2
    <3> QED
      BY <2>1, <2>3, <3>3 DEF x
  <2>4. CASE ~ (line[m] = r.sep_ /\ st.is_quoted = FALSE) /\ line[m] = r.quotechar_
    <3>1. next(st, m) = [st EXCEPT !.is_quoted = ~ @]
      BY <2>1, <2>4
    <3> HIDE DEF next
    <3>2. /\ next(st, m) \in R /\ next(st, m).result = st.result
          /\ next(st, m).field = st.field
          /\ st.is_quoted = FALSE => next(st, m).is_quoted = TRUE
          /\ st.is_quoted = TRUE => next(st, m).is_quoted = FALSE
      BY <2>1, <3>1
    <3> QED
      BY <2>1, <2>4, <3>2
  <2>5. CASE ~ (line[m] = r.sep_ /\ st.is_quoted = FALSE) /\ line[m] # r.quotechar_
    <3>1. next(st, m) = [st EXCEPT !.field = Append(@, line[m])]
      BY <2>1, <2>5
    <3> DEFINE x == Append(st.field, line[m])
    <3> HIDE DEF next
    <3>2. x \in Seq(S) /\ next(st, m) = [st EXCEPT !.field = x]
      BY <2>2, <3>1
    <3> HIDE DEF x
    <3>3. /\ next(st, m) \in R /\ next(st, m).result = st.result
          /\ next(st, m).field = x /\ next(st, m).is_quoted = st.is_quoted
      BY <2>1, <3>2
    <3> QED
      BY <2>1, <2>5, <3>3 DEF x
  <2> QED
    BY <2>3, <2>4, <2>5
<1>4. read = [i \in 0 .. N |-> IF i = 0 THEN init ELSE next(read[i - 1], i)]
      /\ read \in [0 .. N -> R]
  <2> HIDE DEF next, N, R, init
  <2>1. step \in [1 .. N -> [R -> R]]
    BY <1>3
  <2>2. ASSUME NEW st \in R, NEW m \in 1 .. N PROVE step[m][st] = next(st, m)
    OBVIOUS
  <2> HIDE DEF step
  <2>3. PICK f : Repeats(f, N, R, init, step)
    BY <1>1, <2>1, RecursiveFunctionExists
  <2>4. f = [n \in 0 .. N |-> IF n = 0 THEN init ELSE next(f[n - 1], n)]
    <3>1. ASSUME NEW i \in 0 .. N PROVE f[i] = IF i = 0 THEN init ELSE next(f[i - 1], i)
      <4>1. CASE i = 0
        BY <2>3, <4>1 DEF Repeats
      <4>2. CASE i # 0
        <5>1. i \in 1 .. N /\ i - 1 \in 0 .. N
          BY <1>1, <4>2
        <5>2. f[i - 1] \in R
          BY <2>3, <5>1 DEF Repeats
        <5> QED
          BY <2>2, <2>3, <4>2, <5>1, <5>2 DEF Repeats
      <4> QED
        BY <4>1, <4>2
    <3> QED
      BY <2>3, <3>1 DEF Repeats
  <2>5. read = [i \in 0 .. N |-> IF i = 0 THEN init ELSE next(read[i - 1], i)]
    BY <2>4
  <2> HIDE DEF read
  <2> DEFINE T == {i \in 0 .. N : read[i] \in R}
  <2>6. 0 \in T
    BY <1>1, <2>5
  <2>7. ASSUME NEW i \in 0 .. N - 1, i \in T PROVE i + 1 \in T
    <3>1. i + 1 \in 1 .. N /\ i + 1 \in 0 .. N /\ i + 1 # 0 /\ (i + 1) - 1 = i /\ read[i] \in R
      BY <1>1, <2>7
    <3>2. read[i + 1] = next(read[i], i + 1)
      BY <2>5, <3>1
    <3> QED
      BY <1>3, <3>1, <3>2
  <2>8. 0 .. N \subseteq T
    <3> HIDE DEF T
    <3> QED
      BY ONLY <1>1, <2>6, <2>7, BoundedInduction
  <2> QED
    BY <2>5, <2>8
<1> HIDE DEF read
<1>5. Chops(read, line, r, S)
  <2> HIDE DEF next
  <2>1. read[0] = init
    BY <1>1, <1>4
  <2>2. \A m \in 0 .. Len(line) : read[m].result \in Seq(Seq(S)) /\ read[m].field \in Seq(S)
                                  /\ read[m].is_quoted \in BOOLEAN
    BY <1>4
  <2>3. ASSUME NEW m \in 1 .. Len(line) PROVE read[m - 1] \in R /\ read[m] = next(read[m - 1], m)
    <3> HIDE DEF N, R, init
    <3>1. m \in 1 .. N /\ m - 1 \in 0 .. N
      <4>1. m \in 1 .. N
        BY DEF N
      <4> QED
        BY <1>1, <4>1
    <3> QED
      BY <1>1, <1>4, <3>1
  <2>4. read[0].result = <<>> /\ read[0].field = <<>> /\ read[0].is_quoted = FALSE
    BY <2>1
  <2>5. ASSUME NEW m \in 1 .. Len(line)
        PROVE  /\ line[m] = r.sep_ /\ read[m - 1].is_quoted = FALSE =>
                    /\ read[m].result = Append(read[m - 1].result, read[m - 1].field)
                    /\ read[m].field = <<>> /\ read[m].is_quoted = FALSE
               /\ line[m] = r.quotechar_ /\ r.quotechar_ # r.sep_ =>
                    /\ read[m].result = read[m - 1].result /\ read[m].field = read[m - 1].field
                    /\ read[m - 1].is_quoted = FALSE => read[m].is_quoted = TRUE
                    /\ read[m - 1].is_quoted = TRUE => read[m].is_quoted = FALSE
               /\ (line[m] # r.sep_ \/ read[m - 1].is_quoted = TRUE) /\ line[m] # r.quotechar_ =>
                    /\ read[m].result = read[m - 1].result
                    /\ read[m].field = Append(read[m - 1].field, line[m])
                    /\ read[m].is_quoted = read[m - 1].is_quoted
    <3> DEFINE st == read[m - 1]
    <3>1. st \in R /\ read[m] = next(st, m) /\ m \in 1 .. N
      BY <2>3
    <3> HIDE DEF N, R, st
    <3>2. /\ line[m] = r.sep_ /\ st.is_quoted = FALSE =>
               /\ read[m].result = Append(st.result, st.field)
               /\ read[m].field = <<>> /\ read[m].is_quoted = FALSE
          /\ line[m] = r.quotechar_ /\ r.quotechar_ # r.sep_ =>
               /\ read[m].result = st.result /\ read[m].field = st.field
               /\ st.is_quoted = FALSE => read[m].is_quoted = TRUE
               /\ st.is_quoted = TRUE => read[m].is_quoted = FALSE
          /\ (line[m] # r.sep_ \/ st.is_quoted = TRUE) /\ line[m] # r.quotechar_ =>
               /\ read[m].result = st.result
               /\ read[m].field = Append(st.field, line[m])
               /\ read[m].is_quoted = st.is_quoted
      <4> DEFINE nx == next(st, m)
      <4>1. /\ line[m] = r.sep_ /\ st.is_quoted = FALSE =>
                 /\ nx.result = Append(st.result, st.field)
                 /\ nx.field = <<>> /\ nx.is_quoted = FALSE
            /\ line[m] = r.quotechar_ /\ r.quotechar_ # r.sep_ =>
                 /\ nx.result = st.result /\ nx.field = st.field
                 /\ st.is_quoted = FALSE => nx.is_quoted = TRUE
                 /\ st.is_quoted = TRUE => nx.is_quoted = FALSE
            /\ (line[m] # r.sep_ \/ st.is_quoted = TRUE) /\ line[m] # r.quotechar_ =>
                 /\ nx.result = st.result
                 /\ nx.field = Append(st.field, line[m])
                 /\ nx.is_quoted = st.is_quoted
        BY ONLY <1>3, <3>1
      <4>2. read[m] = nx
        BY <3>1
      <4> HIDE DEF nx
      <4> QED
        BY ONLY <4>1, <4>2, Zenon
    <3> QED
      BY ONLY <3>2, Zenon DEF st
  <2> QED
    BY ONLY <2>2, <2>4, <2>5, Zenon DEF Chops
<1> QED
  BY <1>2, <1>5 DEF N

\* A word that is part of a line, after p.
Lies(line, p, word) ==
  p + Len(word) <= Len(line) /\ \A j \in 1 .. Len(word) : line[p + j] = word[j]

\* A word in which nothing ends the field.
GoesOn(f, p, word, r) ==
  /\ f[p].field = <<>> /\ r.quotechar_ \notin Range(word)
  /\ r.sep_ \notin Range(word) \/ f[p].is_quoted = TRUE

\* From p on, characters that are no quotechars become part of the field, and between
\* quotechars separators do, too.
LEMMA FieldGoesOn ==
  ASSUME NEW S, NEW line \in Seq(S), NEW r, NEW f, Chops(f, line, r, S),
         NEW p \in Nat, NEW body \in Seq(S), Lies(line, p, body), GoesOn(f, p, body, r)
  PROVE  /\ f[p + Len(body)].result = f[p].result /\ f[p + Len(body)].field = body
         /\ f[p + Len(body)].is_quoted = f[p].is_quoted
<1> DEFINE N == Len(body)
           P(j) == /\ f[p + j].result = f[p].result /\ f[p + j].field = SubSeq(body, 1, j)
                   /\ f[p + j].is_quoted = f[p].is_quoted
           T == {j \in 0 .. N : P(j)}
<1>1. N \in Nat /\ Len(line) \in Nat /\ p \in 0 .. Len(line) /\ p + N <= Len(line)
  BY DEF Lies
<1>2. 0 \in T
  <2>1. SubSeq(body, 1, 0) = <<>> /\ p + 0 = p
    OBVIOUS
  <2>2. P(0)
    BY <2>1 DEF GoesOn
  <2> HIDE DEF P, N
  <2> QED
    BY <1>1, <2>2
<1>3. ASSUME NEW j \in 0 .. N - 1, j \in T PROVE j + 1 \in T
  <2> DEFINE m == p + (j + 1)
  <2>1. /\ m \in 1 .. Len(line) /\ m - 1 = p + j
        /\ j + 1 \in 1 .. N /\ j + 1 \in 0 .. N /\ j \in Nat
    <3>1. j \in 0 .. N - 1
      OBVIOUS
    <3> DEFINE L == Len(line)
    <3>2. L \in Nat /\ p + N <= L
      BY <1>1
    <3> HIDE DEF N, L
    <3>3. m \in 1 .. L /\ m - 1 = p + j /\ j + 1 \in 1 .. N /\ j + 1 \in 0 .. N /\ j \in Nat
      BY ONLY <1>1, <3>1, <3>2, p \in Nat
    <3> QED
      BY <3>3 DEF L
  <2>2. /\ line[m] = body[j + 1] /\ body[j + 1] # r.quotechar_
        /\ body[j + 1] # r.sep_ \/ f[p].is_quoted = TRUE
    BY <2>1 DEF Range, Lies, GoesOn
  <2>3. SubSeq(body, 1, j + 1) = Append(SubSeq(body, 1, j), body[j + 1])
    BY ONLY <2>1, body \in Seq(S), PrefixGrows
  <2> HIDE DEF m
  <2>4. /\ f[m - 1].result = f[p].result /\ f[m - 1].field = SubSeq(body, 1, j)
        /\ f[m - 1].is_quoted = f[p].is_quoted
    BY <1>3, <2>1
  <2>5. (line[m] # r.sep_ \/ f[m - 1].is_quoted = TRUE) /\ line[m] # r.quotechar_
    BY ONLY <2>2, <2>4, Zenon
  <2>6. /\ f[m].result = f[m - 1].result /\ f[m].field = Append(f[m - 1].field, line[m])
        /\ f[m].is_quoted = f[m - 1].is_quoted
    BY ONLY <2>1, <2>5, Chops(f, line, r, S), Zenon DEF Chops
  <2>7. P(j + 1)
    <3>1. /\ f[m].result = f[p].result /\ f[m].field = SubSeq(body, 1, j + 1)
          /\ f[m].is_quoted = f[p].is_quoted
      BY ONLY <2>2, <2>3, <2>4, <2>6, Zenon
    <3> QED
      BY <3>1 DEF m
  <2> HIDE DEF P
  <2> QED
    BY <2>1, <2>7
<1>4. 0 .. N \subseteq T
  <2> HIDE DEF N, T
  <2>1. N \in Nat
    BY <1>1
  <2> QED
    BY ONLY <2>1, <1>2, <1>3, BoundedInduction
<1>5. P(N)
  <2>1. N \in 0 .. N
    BY <1>1
  <2>2. N \in T
    BY ONLY <2>1, <1>4
  <2> QED
    BY <2>2
<1>6. SubSeq(body, 1, N) = body
  OBVIOUS
<1> QED
  BY <1>5, <1>6

\* Where a field begins.
Begins(f, p) == f[p].field = <<>> /\ f[p].is_quoted = FALSE

\* A field is written between quotechars if it has a separator.
Written(field, r) ==
  IF r.sep_ \in Range(field) THEN Enclosed(field, r.quotechar_) ELSE field

\* The parser that is at the beginning of a written field has the field at its end.
LEMMA FieldRead ==
  ASSUME NEW S, NEW line \in Seq(S), NEW r, NEW f, Chops(f, line, r, S),
         r.quotechar_ # r.sep_, r.quotechar_ \in S,
         NEW p \in Nat, NEW field \in Seq(S), Lies(line, p, Written(field, r)),
         Begins(f, p), r.quotechar_ \notin Range(field)
  PROVE  LET q == p + Len(Written(field, r))
         IN  f[q].result = f[p].result /\ f[q].field = field /\ f[q].is_quoted = FALSE
<1> DEFINE w == Written(field, r)
<1>0. f[p].field = <<>> /\ f[p].is_quoted = FALSE
  BY DEF Begins
<1>1. CASE r.sep_ \notin Range(field)
  <2>1. w = field
    BY <1>1 DEF Written
  <2>2. Lies(line, p, field) /\ GoesOn(f, p, field, r)
    BY <2>1, <1>0, <1>1 DEF GoesOn
  <2>3. /\ f[p + Len(field)].result = f[p].result /\ f[p + Len(field)].field = field
        /\ f[p + Len(field)].is_quoted = f[p].is_quoted
    BY ONLY <2>2, line \in Seq(S), field \in Seq(S), p \in Nat, Chops(f, line, r, S),
       FieldGoesOn
  <2> QED
    BY <1>0, <2>1, <2>3
<1>2. CASE r.sep_ \in Range(field)
  <2> DEFINE q == p + 1
             L == Len(field)
  <2>1. w = <<r.quotechar_>> \o field \o <<r.quotechar_>>
    BY <1>2 DEF Written, Enclosed
  <2>2. L \in Nat /\ Len(w) = L + 2 /\ w[1] = r.quotechar_ /\ w[L + 2] = r.quotechar_
    BY <2>1
  <2>3. \A j \in 1 .. L : w[1 + j] = field[j] /\ 1 + j \in 1 .. Len(w)
    BY <2>1
  <2>4. /\ p + Len(w) <= Len(line) /\ \A j \in 1 .. Len(w) : line[p + j] = w[j]
        /\ Len(line) \in Nat
    BY DEF Lies
  <2> HIDE DEF w
  <2> DEFINE M == Len(line)
  <2>5. M \in Nat /\ p + (L + 2) <= M
    BY <2>2, <2>4
  <2> HIDE DEF M
  <2>6. line[q] = r.quotechar_ /\ line[q + L + 1] = r.quotechar_
    <3>1. 1 \in 1 .. Len(w) /\ L + 2 \in 1 .. Len(w) /\ p + (L + 2) = q + L + 1
      <4> HIDE DEF L
      <4> QED
        BY <2>2
    <3>2. line[p + 1] = w[1] /\ line[p + (L + 2)] = w[L + 2]
      BY <2>4, <3>1
    <3> QED
      BY <2>2, <3>1, <3>2
  <2>7. /\ q \in 1 .. M /\ q - 1 = p /\ q + L <= M
        /\ q + L + 1 \in 1 .. M /\ (q + L + 1) - 1 = q + L /\ q \in Nat
        /\ q + L + 1 = p + Len(w)
    <3> HIDE DEF L
    <3> QED
      BY <2>2, <2>5
  <2>8. f[q].result = f[p].result /\ f[q].field = <<>> /\ f[q].is_quoted = TRUE
    <3> HIDE DEF q
    <3>1. q \in 1 .. Len(line) /\ q - 1 = p
      BY <2>7 DEF M
    <3>2. /\ f[q].result = f[q - 1].result /\ f[q].field = f[q - 1].field
          /\ f[q - 1].is_quoted = FALSE => f[q].is_quoted = TRUE
      BY ONLY <2>6, <3>1, Chops(f, line, r, S), r.quotechar_ # r.sep_, Zenon DEF Chops
    <3> QED
      BY ONLY <1>0, <3>1, <3>2, Zenon
  <2>9. \A j \in 1 .. L : line[q + j] = field[j]
    <3>1. ASSUME NEW j \in 1 .. L PROVE line[q + j] = field[j]
      <4>1. 1 + j \in 1 .. Len(w) /\ w[1 + j] = field[j]
        BY <2>3
      <4>2. q + j = p + (1 + j)
        OBVIOUS
      <4> QED
        BY <2>4, <4>1, <4>2
    <3> QED
      BY <3>1
  <2>10. /\ f[q + L].result = f[q].result /\ f[q + L].field = field
         /\ f[q + L].is_quoted = f[q].is_quoted
    <3> HIDE DEF q
    <3>1. q \in Nat /\ q + Len(field) <= Len(line)
      BY <2>7 DEF M
    <3>2. GoesOn(f, q, field, r)
      BY <2>8 DEF GoesOn
    <3>3. Lies(line, q, field)
      BY <2>9, <3>1 DEF Lies
    <3>4. /\ f[q + Len(field)].result = f[q].result /\ f[q + Len(field)].field = field
          /\ f[q + Len(field)].is_quoted = f[q].is_quoted
      BY ONLY <3>1, <3>2, <3>3, line \in Seq(S), field \in Seq(S), Chops(f, line, r, S),
         FieldGoesOn
    <3> QED
      BY <3>4
  <2>11. /\ f[q + L + 1].result = f[q + L].result /\ f[q + L + 1].field = f[q + L].field
         /\ f[q + L + 1].is_quoted = FALSE
    <3> DEFINE m == q + L + 1
    <3>1. m \in 1 .. Len(line) /\ m - 1 = q + L /\ line[m] = r.quotechar_
      BY <2>6, <2>7 DEF M
    <3> HIDE DEF m
    <3>2. /\ f[m].result = f[m - 1].result /\ f[m].field = f[m - 1].field
          /\ f[m - 1].is_quoted = TRUE => f[m].is_quoted = FALSE
      BY ONLY <3>1, Chops(f, line, r, S), r.quotechar_ # r.sep_, Zenon DEF Chops
    <3>3. f[m - 1].is_quoted = TRUE
      BY ONLY <3>1, <2>8, <2>10, Zenon
    <3>4. /\ f[m].result = f[q + L].result /\ f[m].field = f[q + L].field
          /\ f[m].is_quoted = FALSE
      BY ONLY <3>1, <3>2, <3>3, Zenon
    <3> QED
      BY <3>4 DEF m
  <2>12. /\ f[q + L + 1].result = f[p].result /\ f[q + L + 1].field = field
         /\ f[q + L + 1].is_quoted = FALSE
    <3> HIDE DEF q, L
    <3> QED
      BY ONLY <2>8, <2>10, <2>11, Zenon
  <2> HIDE DEF q, L
  <2> QED
    BY ONLY <2>7, <2>12, Zenon DEF w
<1> QED
  BY <1>1, <1>2

\* The fields of a line: where they end, and what they consist of.
FieldsLie(line, fields, r, n, e) ==
  /\ e \in [0 .. n -> Nat] /\ e[0] = 0 /\ e[n] = Len(line) + 1
  /\ \A k \in 1 .. n :
       /\ e[k] = e[k - 1] + Len(Written(fields[k], r)) + 1
       /\ Lies(line, e[k - 1], Written(fields[k], r))
       /\ r.quotechar_ \notin Range(fields[k])
       /\ k < n => e[k] \in 1 .. Len(line) /\ line[e[k]] = r.sep_

\* A written field is a sequence of characters.
LEMMA WrittenTyped ==
  ASSUME NEW S, NEW r, r.quotechar_ \in S, NEW field \in Seq(S)
  PROVE  Written(field, r) \in Seq(S) /\ Len(Written(field, r)) \in Nat
<1>1. CASE r.sep_ \in Range(field)
  <2>1. <<r.quotechar_>> \o field \o <<r.quotechar_>> \in Seq(S)
    OBVIOUS
  <2> QED
    BY <1>1, <2>1 DEF Written, Enclosed
<1>2. CASE r.sep_ \notin Range(field)
  BY <1>2 DEF Written
<1> QED
  BY <1>1, <1>2

\* CSVReader finds the fields of a line that was written of them.
LEMMA FieldsFound ==
  ASSUME NEW S, NEW line \in Seq(S), NEW r, r.quotechar_ # r.sep_, r.quotechar_ \in S,
         NEW n \in Nat, n > 0, NEW fields \in Seq(Seq(S)), Len(fields) = n,
         trim(fields[n]) = fields[n], NEW e, FieldsLie(line, fields, r, n, e)
  PROVE  fields_of(r, line) = fields
<1>1. PICK f : /\ Chops(f, line, r, S)
               /\ fields_of(r, line) = Append(f[Len(line)].result, trim(f[Len(line)].field))
  BY FieldsAreChopped
<1> DEFINE P(k) == /\ f[e[k]].result = SubSeq(fields, 1, k) /\ f[e[k]].field = <<>>
                   /\ f[e[k]].is_quoted = FALSE
           N == n - 1
           T == {k \in 0 .. N : P(k)}
<1>2. N \in Nat /\ N + 1 = n
  OBVIOUS
<1>3. 0 \in T
  <2>1. P(0)
    BY <1>1 DEF Chops, FieldsLie
  <2> HIDE DEF P
  <2> QED
    BY <2>1
<1>4. ASSUME NEW k \in 0 .. N, P(k)
      PROVE  LET i == k + 1
             IN  /\ i \in 1 .. n /\ e[i] - 1 \in Nat
                 /\ f[e[i] - 1].result = SubSeq(fields, 1, k)
                 /\ f[e[i] - 1].field = fields[i] /\ f[e[i] - 1].is_quoted = FALSE
  <2> DEFINE i == k + 1
             w == Written(fields[i], r)
             p == e[k]
             m == e[i]
  <2>1. i \in 1 .. n /\ i - 1 = k /\ k \in 0 .. n
    OBVIOUS
  <2>2. fields[i] \in Seq(S) /\ Len(w) \in Nat
    BY <2>1, WrittenTyped
  <2> HIDE DEF i
  <2>3. /\ m = p + Len(w) + 1 /\ Lies(line, p, w) /\ r.quotechar_ \notin Range(fields[i])
        /\ p \in Nat
    BY <2>1 DEF FieldsLie
  <2>4. m - 1 = p + Len(w) /\ m - 1 \in Nat
    <3> HIDE DEF p, m, w
    <3> QED
      BY <2>2, <2>3
  <2>5. f[p].result = SubSeq(fields, 1, k) /\ f[p].field = <<>> /\ f[p].is_quoted = FALSE
    BY <1>4
  <2> HIDE DEF p, m
  <2>6. /\ f[p + Len(w)].result = f[p].result /\ f[p + Len(w)].field = fields[i]
        /\ f[p + Len(w)].is_quoted = FALSE
    <3>1. Begins(f, p) /\ Chops(f, line, r, S)
      BY <1>1, <2>5 DEF Begins
    <3>2. Lies(line, p, w) /\ r.quotechar_ \notin Range(fields[i]) /\ p \in Nat
      BY <2>3
    <3> QED
      BY ONLY <3>1, <2>2, <3>2, line \in Seq(S), r.quotechar_ # r.sep_, r.quotechar_ \in S,
         FieldRead
  <2>7. /\ i \in 1 .. n /\ m - 1 \in Nat
        /\ f[m - 1].result = SubSeq(fields, 1, k)
        /\ f[m - 1].field = fields[i] /\ f[m - 1].is_quoted = FALSE
    BY ONLY <2>1, <2>4, <2>5, <2>6, Zenon
  <2> QED
    BY <2>7 DEF m, i
<1>5. ASSUME NEW k \in 0 .. N - 1, k \in T PROVE k + 1 \in T
  <2> DEFINE i == k + 1
             m == e[i]
  <2>1. i \in 0 .. N /\ i \in 1 .. n /\ i < n /\ k \in 0 .. N /\ P(k)
    <3>1. i \in 0 .. N /\ i \in 1 .. n /\ i < n /\ k \in 0 .. N
      BY <1>2
    <3> QED
      BY <1>5, <3>1
  <2>2. /\ f[m - 1].result = SubSeq(fields, 1, k)
        /\ f[m - 1].field = fields[i] /\ f[m - 1].is_quoted = FALSE
    <3> HIDE DEF P
    <3> QED
      BY <1>4, <2>1
  <2>3. SubSeq(fields, 1, i) = Append(SubSeq(fields, 1, k), fields[i])
    <3>1. k \in Nat /\ k + 1 \in 1 .. Len(fields) /\ fields \in Seq(Seq(S))
      BY <2>1
    <3> QED
      BY ONLY <3>1, PrefixGrows
  <2> HIDE DEF i
  <2>4. m \in 1 .. Len(line) /\ line[m] = r.sep_
    BY <2>1 DEF FieldsLie
  <2> HIDE DEF m
  <2>5. /\ f[m].result = Append(f[m - 1].result, f[m - 1].field)
        /\ f[m].field = <<>> /\ f[m].is_quoted = FALSE
    BY ONLY <1>1, <2>2, <2>4, Zenon DEF Chops
  <2>6. f[m].result = SubSeq(fields, 1, i) /\ f[m].field = <<>> /\ f[m].is_quoted = FALSE
    BY ONLY <2>2, <2>3, <2>5, Zenon
  <2>7. P(i)
    BY <2>6 DEF m
  <2> HIDE DEF P
  <2> QED
    BY <2>1, <2>7 DEF i
<1>6. 0 .. N \subseteq T
  <2> HIDE DEF N, T
  <2>1. N \in Nat
    BY <1>2
  <2> QED
    BY ONLY <2>1, <1>3, <1>5, BoundedInduction
<1>7. P(N)
  <2>1. N \in 0 .. N
    BY <1>2
  <2>2. N \in T
    BY ONLY <2>1, <1>6
  <2> QED
    BY <2>2
<1>8. /\ f[e[n] - 1].result = SubSeq(fields, 1, N) /\ f[e[n] - 1].field = fields[n]
  <2> HIDE DEF P, N
  <2>1. N \in 0 .. N
    BY <1>2
  <2> QED
    BY <1>2, <1>4, <1>7, <2>1
<1>9. e[n] - 1 = Len(line)
  BY DEF FieldsLie
<1>10. fields_of(r, line) = Append(SubSeq(fields, 1, N), fields[n])
  <2> HIDE DEF N
  <2> QED
    BY ONLY <1>1, <1>8, <1>9, trim(fields[n]) = fields[n], Zenon
<1>11. SubSeq(fields, 1, n) = Append(SubSeq(fields, 1, N), fields[n])
  <2> HIDE DEF N
  <2>1. N + 1 \in 1 .. Len(fields)
    BY <1>2
  <2> QED
    BY ONLY <1>2, <2>1, fields \in Seq(Seq(S)), PrefixGrows
<1>12. SubSeq(fields, 1, n) = fields
  OBVIOUS
<1> QED
  BY ONLY <1>10, <1>11, <1>12

-----------------------------------------------------------------------------
(* CSV files: what is written *)

\* parse_field removes nothing from a string without quotation marks.
LEMMA NothingRemoved ==
  ASSUME NEW S, NEW str \in Seq(S), NEW r, r.quotechar_ \notin Range(str)
  PROVE  parse_field(str, r.quotechar_, r.sep_) = Written(str, r)
<1>1. Kept(str, Range(str) \ {r.quotechar_}) = str
  <2> DEFINE K == Range(str) \ {r.quotechar_}
  <2>1. \A i \in 1 .. Len(str) : str[i] \in K
    BY DEF Range
  <2> HIDE DEF K
  <2>2. Kept(str, K) = str
    BY <2>1, KeptAll
  <2> QED
    BY <2>2 DEF K
<1> QED
  BY <1>1 DEF parse_field, remove_quotechars, Written

\* The fields of a line with what follows them.
Pieces(line, r, n) ==
  [i \in 1 .. n |-> Written(line[i], r) \o (IF i < n THEN <<r.sep_>> ELSE <<LF>>)]

HasWords(P, n, words, x) ==
  \A k \in 1 .. n :
    /\ Len(words[k]) \in Nat /\ Len(P[k]) = Len(words[k]) + 1
    /\ \A j \in 1 .. Len(words[k]) : P[k][j] = words[k][j]
    /\ P[k][Len(words[k]) + 1] = x[k]

WordsOf(line, r, n) == [k \in 1 .. n |-> Written(line[k], r)]

EndsOf(r, n) == [k \in 1 .. n |-> IF k < n THEN r.sep_ ELSE LF]

\* A line that is written is joined of its fields with a sign behind each.
LEMMA PiecesTyped ==
  ASSUME NEW S, NEW n \in Nat, NEW line \in Seq(Seq(S)), Len(line) = n, NEW r,
         r.quotechar_ \in S, r.sep_ \in S, LF \in S
  PROVE  /\ Pieces(line, r, n) \in Seq(Seq(S)) /\ Len(Pieces(line, r, n)) = n
         /\ HasWords(Pieces(line, r, n), n, WordsOf(line, r, n), EndsOf(r, n))
<1> DEFINE P == Pieces(line, r, n)
<1>1. ASSUME NEW k \in 1 .. n
      PROVE  /\ P[k] \in Seq(S) /\ Len(WordsOf(line, r, n)[k]) \in Nat
             /\ Len(P[k]) = Len(WordsOf(line, r, n)[k]) + 1
             /\ \A j \in 1 .. Len(WordsOf(line, r, n)[k]) : P[k][j] = WordsOf(line, r, n)[k][j]
             /\ P[k][Len(WordsOf(line, r, n)[k]) + 1] = EndsOf(r, n)[k]
  <2> DEFINE w == WordsOf(line, r, n)[k]
             x == EndsOf(r, n)[k]
  <2>1. line[k] \in Seq(S)
    OBVIOUS
  <2>2. w \in Seq(S) /\ Len(w) \in Nat
    <3>1. w = Written(line[k], r)
      BY DEF WordsOf
    <3> QED
      BY <2>1, <3>1, WrittenTyped
  <2>3. x \in S /\ P[k] = w \o <<x>>
    BY DEF Pieces, WordsOf, EndsOf
  <2> HIDE DEF w, x, P
  <2>4. /\ P[k] \in Seq(S) /\ Len(P[k]) = Len(w) + 1 /\ P[k][Len(w) + 1] = x
        /\ \A j \in 1 .. Len(w) : P[k][j] = w[j]
    BY ONLY <2>2, <2>3
  <2> QED
    BY <2>2, <2>4 DEF w, x
<1>2. P = [k \in 1 .. n |-> P[k]]
  BY DEF Pieces
<1> HIDE DEF P
<1>3. P \in Seq(Seq(S)) /\ Len(P) = n
  BY ONLY <1>1, <1>2, n \in Nat, SequenceOf
<1>4. HasWords(P, n, WordsOf(line, r, n), EndsOf(r, n))
  BY <1>1 DEF HasWords
<1> QED
  BY <1>3, <1>4 DEF P

\* Writing a field adds no signs but quotation marks.
LEMMA WrittenHasNone ==
  ASSUME NEW S, NEW field \in Seq(S), NEW r, NEW x, x \notin Range(field), x # r.quotechar_
  PROVE  \A j \in 1 .. Len(Written(field, r)) : Written(field, r)[j] # x
<1>1. CASE r.sep_ \in Range(field)
  <2>1. Written(field, r) = <<r.quotechar_>> \o field \o <<r.quotechar_>>
    BY <1>1 DEF Written, Enclosed
  <2>2. \A j \in 1 .. Len(field) : field[j] # x
    BY DEF Range
  <2> DEFINE q == r.quotechar_
             w == <<q>> \o field \o <<q>>
  <2>3. \A j \in 1 .. Len(w) : w[j] = q \/ \E i \in 1 .. Len(field) : w[j] = field[i]
    <3>1. ASSUME NEW j \in 1 .. Len(w) PROVE w[j] = q \/ \E i \in 1 .. Len(field) : w[j] = field[i]
      <4>1. Len(w) = Len(field) + 2 /\ w[1] = q /\ w[Len(field) + 2] = q
        OBVIOUS
      <4>2. \A i \in 1 .. Len(field) : w[1 + i] = field[i]
        OBVIOUS
      <4>3. CASE j = 1 \/ j = Len(field) + 2
        BY <4>1, <4>3
      <4>4. CASE j # 1 /\ j # Len(field) + 2
        <5>1. j - 1 \in 1 .. Len(field) /\ 1 + (j - 1) = j
          BY <4>1, <4>4
        <5> QED
          BY <4>2, <5>1
      <4> QED
        BY <4>3, <4>4
    <3> QED
      BY <3>1
  <2> QED
    BY <2>1, <2>2, <2>3
<1>2. CASE r.sep_ \notin Range(field)
  BY <1>2 DEF Written, Range
<1> QED
  BY <1>1, <1>2

\* Words that follow each other in a line, the k-th with x[k] behind it.
InOrder(body, n, words, x, b) ==
  /\ b \in [0 .. n -> Nat] /\ b[0] = 0 /\ b[n] = Len(body) + 1
  /\ \A k \in 1 .. n :
       /\ b[k] = b[k - 1] + Len(words[k]) + 1
       /\ Lies(body, b[k - 1], words[k])
       /\ k < n => b[k] \in 1 .. Len(body) /\ body[b[k]] = x[k]
  /\ \A m \in 1 .. Len(body) : \E k \in 1 .. n :
       \/ \E j \in 1 .. Len(words[k]) : body[m] = words[k][j]
       \/ k < n /\ body[m] = x[k]

WordAt(x, l, y) ==
  /\ y = x + l + 1 /\ y - 1 = x + l /\ y = x + (l + 1) /\ y > 0
  /\ \A N \in Nat : y <= N + 1 => x + l <= N /\ \A j \in 1 .. l : x + j \in 1 .. N

\* A word with a sign behind it.
LEMMA WordEnds ==
  ASSUME NEW x \in Nat, NEW l \in Nat, NEW y \in Nat, NEW w, w = l + 1, y = x + w
  PROVE  WordAt(x, l, y)
BY DEF WordAt

\* Where the words end.
WordsEndAt(n, b, L, N) ==
  /\ b[n] = N + 1
  /\ \A k \in 1 .. n :
       /\ b[k] = b[k - 1] + L[k] + 1 /\ b[k] = b[k - 1] + (L[k] + 1)
       /\ b[k - 1] \in Nat /\ b[k] \in Nat /\ L[k] \in Nat
       /\ b[k - 1] + L[k] <= N /\ b[k] - 1 = b[k - 1] + L[k]
       /\ \A j \in 1 .. L[k] : b[k - 1] + j \in 1 .. N
       /\ k < n => b[k] \in 1 .. N

\* The signs are where the words end.
LEMMA WordsEnd ==
  ASSUME NEW n \in Nat, n > 0, NEW P, NEW b, Joins(P, n, b), NEW L,
         \A k \in 1 .. n : L[k] \in Nat /\ Len(P[k]) = L[k] + 1
  PROVE  \E N \in Nat : WordsEndAt(n, b, L, N)
<1> DEFINE N == b[n] - 1
<1>1. ASSUME NEW k \in 1 .. n
      PROVE  /\ b[k] = b[k - 1] + Len(P[k]) /\ b[k - 1] \in Nat /\ b[k] \in Nat
             /\ L[k] \in Nat /\ Len(P[k]) = L[k] + 1 /\ Len(P[k]) \in Nat
  <2>1. b[k] = b[k - 1] + Len(P[k]) /\ b[k - 1] \in Nat /\ b[k] \in Nat
    BY DEF Joins
  <2>2. L[k] \in Nat /\ Len(P[k]) = L[k] + 1
    OBVIOUS
  <2>3. Len(P[k]) \in Nat
    BY ONLY <2>2
  <2> QED
    BY ONLY <2>1, <2>2, <2>3
<1>2. \A k \in 0 .. n : \A j \in 0 .. k : b[j] <= b[k]
  <2>1. \A k \in 1 .. n : Len(P[k]) \in Nat
    BY <1>1
  <2> QED
    BY ONLY <2>1, n \in Nat, Joins(P, n, b), EndsGrow
<1>3. ASSUME NEW k \in 1 .. n PROVE WordAt(b[k - 1], L[k], b[k])
  BY ONLY <1>1, <1>3, WordEnds
<1>4. N \in Nat /\ b[n] = N + 1 /\ b[n - 1] <= N /\ b[n - 1] \in Nat
  <2>1. n \in 1 .. n
    OBVIOUS
  <2>2. /\ b[n - 1] \in Nat /\ b[n] \in Nat /\ b[n] > 0 /\ L[n] \in Nat
        /\ b[n] - 1 = b[n - 1] + L[n]
    BY ONLY <1>1, <1>3, <2>1 DEF WordAt
  <2> QED
    BY ONLY <2>2
<1> HIDE DEF N
<1>5. ASSUME NEW k \in 1 .. n
      PROVE  /\ b[k - 1] + L[k] <= N /\ \A j \in 1 .. L[k] : b[k - 1] + j \in 1 .. N
             /\ k < n => b[k] \in 1 .. N
  <2>1. b[k] <= b[n] /\ (k < n => b[k] <= b[n - 1])
    BY <1>2
  <2>2. b[k] \in Nat /\ b[k] > 0
    BY <1>1, <1>3 DEF WordAt
  <2>3. b[k] <= N + 1 /\ (k < n => b[k] \in 1 .. N)
    BY ONLY <1>4, <2>1, <2>2
  <2> QED
    BY <1>3, <1>4, <2>3 DEF WordAt
<1> QED
  BY <1>1, <1>3, <1>4, <1>5 DEF WordsEndAt, WordAt

\* Words joined with their signs are the words in order, and the last sign.
LEMMA WordsFollow ==
  ASSUME NEW S, NEW n \in Nat, n > 0, NEW P \in Seq(Seq(S)), Len(P) = n,
         NEW words, NEW x, HasWords(P, n, words, x)
  PROVE  \E body \in Seq(S) : \E b : FlattenSeq(P) = Append(body, x[n]) /\ InOrder(body, n, words, x, b)
<1>1. PICK b : Joins(P, n, b)
  BY JoinsExist
<1> DEFINE whole == FlattenSeq(P)
           L == [k \in 1 .. n |-> Len(words[k])]
<1>2. /\ whole \in Seq(S) /\ Len(whole) = b[n] /\ IsJoined(whole, P, n, b)
      /\ Parted(whole, P, n, b)
  BY ONLY <1>1, P \in Seq(Seq(S)), Len(P) = n, n \in Nat, JoinedParts
<1> HIDE DEF whole
<1>3. \A k \in 1 .. n : L[k] \in Nat /\ Len(P[k]) = L[k] + 1
  BY DEF HasWords
<1>11. \A k \in 1 .. n : L[k] = Len(words[k])
  OBVIOUS
<1>4. \A k \in 1 .. n : /\ \A j \in 1 .. L[k] : P[k][j] = words[k][j]
                        /\ P[k][L[k] + 1] = x[k]
  BY DEF HasWords
<1> HIDE DEF L
<1>5. PICK N \in Nat : WordsEndAt(n, b, L, N)
  BY ONLY <1>1, <1>3, n \in Nat, n > 0, WordsEnd
<1> DEFINE body == SubSeq(whole, 1, N)
<1>6. body \in Seq(S) /\ Len(body) = N /\ \A m \in 1 .. N : body[m] = whole[m]
  <2>1. b[n] = N + 1
    BY <1>5 DEF WordsEndAt
  <2> QED
    BY <1>2, <2>1
<1> HIDE DEF body
<1>7. ASSUME NEW k \in 1 .. n
      PROVE  /\ \A j \in 1 .. L[k] : whole[b[k - 1] + j] = words[k][j]
             /\ whole[b[k]] = x[k]
  <2>1. \A i \in 1 .. Len(P[k]) : whole[b[k - 1] + i] = P[k][i]
    BY <1>2 DEF Parted
  <2>2. L[k] \in Nat /\ Len(P[k]) = L[k] + 1 /\ b[k] = b[k - 1] + (L[k] + 1)
    BY <1>3, <1>5 DEF WordsEndAt
  <2>3. L[k] + 1 \in 1 .. Len(P[k]) /\ \A j \in 1 .. L[k] : j \in 1 .. Len(P[k])
    BY <2>2
  <2> QED
    <3>1. whole[b[k - 1] + (L[k] + 1)] = x[k]
      BY ONLY <1>4, <2>1, <2>3
    <3>2. \A j \in 1 .. L[k] : whole[b[k - 1] + j] = words[k][j]
      BY ONLY <1>4, <2>1, <2>3
    <3> QED
      BY ONLY <2>2, <3>1, <3>2
<1>8. whole = Append(body, x[n])
  <2>1. whole[b[n]] = x[n]
    BY <1>7
  <2>2. Len(whole) = N + 1 /\ whole[N + 1] = x[n]
    BY <1>2, <1>5, <2>1 DEF WordsEndAt
  <2>3. whole = SubSeq(whole, 1, N + 1)
    BY <1>2, <2>2
  <2>4. SubSeq(whole, 1, N + 1) = Append(SubSeq(whole, 1, N), whole[N + 1])
    <3>1. N \in Nat /\ N + 1 \in 1 .. Len(whole)
      BY <2>2
    <3> QED
      BY ONLY <1>2, <3>1, PrefixGrows
  <2> QED
    BY ONLY <2>2, <2>3, <2>4 DEF body
<1>9. ASSUME NEW m \in 1 .. Len(body)
      PROVE  \E k \in 1 .. n : \/ \E j \in 1 .. Len(words[k]) : body[m] = words[k][j]
                               \/ k < n /\ body[m] = x[k]
  <2>1. m \in 1 .. b[n] /\ m < b[n] /\ body[m] = whole[m]
    BY <1>5, <1>6 DEF WordsEndAt
  <2>2. PICK k \in 1 .. n : \E i \in 1 .. Len(P[k]) : m = b[k - 1] + i /\ whole[m] = P[k][i]
    BY <1>2, <2>1 DEF IsJoined
  <2>3. PICK i \in 1 .. Len(P[k]) : m = b[k - 1] + i /\ whole[m] = P[k][i]
    BY <2>2
  <2>4. L[k] \in Nat /\ Len(P[k]) = L[k] + 1 /\ b[k] = b[k - 1] + (L[k] + 1)
    BY <1>3, <1>5 DEF WordsEndAt
  <2>5. CASE i = L[k] + 1
    <3>1. body[m] = x[k] /\ m = b[k]
      BY <1>4, <2>1, <2>3, <2>4, <2>5
    <3>2. k < n
      BY <2>1, <3>1
    <3> QED
      BY <3>1, <3>2
  <2>6. CASE i # L[k] + 1
    <3>1. i \in 1 .. L[k]
      BY <2>4, <2>6
    <3>2. body[m] = words[k][i] /\ i \in 1 .. Len(words[k])
      BY <1>4, <1>11, <2>1, <2>3, <3>1
    <3> QED
      BY <3>2
  <2> QED
    BY <2>5, <2>6
<1>10. InOrder(body, n, words, x, b)
  <2>1. b \in [0 .. n -> Nat] /\ b[0] = 0 /\ b[n] = Len(body) + 1
    BY <1>1, <1>5, <1>6 DEF Joins, WordsEndAt
  <2>2. ASSUME NEW k \in 1 .. n
        PROVE  /\ b[k] = b[k - 1] + Len(words[k]) + 1
               /\ Lies(body, b[k - 1], words[k])
               /\ k < n => b[k] \in 1 .. Len(body) /\ body[b[k]] = x[k]
    <3>1. b[k] = b[k - 1] + Len(words[k]) + 1 /\ b[k - 1] + Len(words[k]) <= Len(body)
      BY <1>5, <1>6, <1>11 DEF WordsEndAt
    <3>2. ASSUME NEW j \in 1 .. Len(words[k]) PROVE body[b[k - 1] + j] = words[k][j]
      <4>1. j \in 1 .. L[k]
        BY <1>11
      <4>2. b[k - 1] + j \in 1 .. N /\ whole[b[k - 1] + j] = words[k][j]
        BY <1>5, <1>7, <4>1 DEF WordsEndAt
      <4> QED
        BY <1>6, <4>2
    <3>3. ASSUME k < n PROVE b[k] \in 1 .. Len(body) /\ body[b[k]] = x[k]
      <4>1. b[k] \in 1 .. N
        BY <1>5, <3>3 DEF WordsEndAt
      <4> QED
        BY <1>6, <1>7, <4>1
    <3> QED
      BY <3>1, <3>2, <3>3 DEF Lies
  <2> QED
    BY <1>9, <2>1, <2>2 DEF InOrder
<1> QED
  BY <1>6, <1>8, <1>10 DEF whole

\* Neither quotechars nor line feeds are in the fields.
Clean(line, r, n) ==
  \A k \in 1 .. n : r.quotechar_ \notin Range(line[k]) /\ LF \notin Range(line[k])

IsReader(r, S) ==
  /\ r.quotechar_ \in S /\ r.sep_ \in S /\ LF \in S
  /\ r.quotechar_ # r.sep_ /\ LF # r.sep_ /\ LF # r.quotechar_

\* What is written of a line is one line, with its fields.
LineIs(body, line, r, n, S) ==
  /\ body \in Seq(S) /\ LF \notin Range(body)
  /\ n > 1 \/ Len(line[1]) > 0 => Len(body) > 0
  /\ \E e : FieldsLie(body, line, r, n, e)

\* make_buffer writes the fields in order and a line feed behind them.
LEMMA BufferWritten ==
  ASSUME NEW S, NEW n \in Nat, n > 0, NEW line \in Seq(Seq(S)), Len(line) = n,
         NEW r, IsReader(r, S), Clean(line, r, n)
  PROVE  \E body : /\ make_buffer(line, r.quotechar_, r.sep_) = Append(body, LF)
                   /\ LineIs(body, line, r, n, S)
<1> DEFINE P == Pieces(line, r, n)
           words == WordsOf(line, r, n)
           x == EndsOf(r, n)
<1>1. P \in Seq(Seq(S)) /\ Len(P) = n /\ HasWords(P, n, words, x)
  <2>1. r.quotechar_ \in S /\ r.sep_ \in S /\ LF \in S
    BY DEF IsReader
  <2> QED
    BY ONLY <2>1, n \in Nat, line \in Seq(Seq(S)), Len(line) = n, PiecesTyped
<1>2. make_buffer(line, r.quotechar_, r.sep_) = FlattenSeq(P)
  <2> DEFINE fields == [i \in DOMAIN line |-> parse_field(line[i], r.quotechar_, r.sep_)]
  <2>1. DOMAIN line = 1 .. n
    OBVIOUS
  <2>2. \A i \in 1 .. n : fields[i] = Written(line[i], r)
    BY <2>1, NothingRemoved DEF Clean
  <2>3. DOMAIN fields = 1 .. n /\ Len(fields) = n
    BY <2>1
  <2>4. make_buffer(line, r.quotechar_, r.sep_) =
          FlattenSeq([i \in DOMAIN fields |->
                        fields[i] \o (IF i < Len(fields) THEN <<r.sep_>> ELSE <<LF>>)])
    BY DEF make_buffer, Joined
  <2>5. [i \in DOMAIN fields |-> fields[i] \o (IF i < Len(fields) THEN <<r.sep_>> ELSE <<LF>>)] = P
    <3> HIDE DEF fields
    <3> QED
      BY <2>2, <2>3 DEF Pieces
  <2> QED
    BY <2>4, <2>5
<1>3. x[n] = LF /\ \A k \in 1 .. n : k < n => x[k] = r.sep_
  BY DEF EndsOf
<1>4. \A k \in 1 .. n : words[k] = Written(line[k], r)
  BY DEF WordsOf
<1> HIDE DEF P, words, x
<1>5. PICK body \in Seq(S) : \E b : FlattenSeq(P) = Append(body, x[n]) /\ InOrder(body, n, words, x, b)
  BY ONLY <1>1, n \in Nat, n > 0, WordsFollow
<1>6. PICK b : FlattenSeq(P) = Append(body, x[n]) /\ InOrder(body, n, words, x, b)
  BY <1>5
<1>7. LF \notin Range(body)
  <2> SUFFICES ASSUME NEW m \in 1 .. Len(body), body[m] = LF PROVE FALSE
    BY DEF Range
  <2>1. PICK k \in 1 .. n : \/ \E j \in 1 .. Len(words[k]) : body[m] = words[k][j]
                            \/ k < n /\ body[m] = x[k]
    BY <1>6 DEF InOrder
  <2>2. \A j \in 1 .. Len(Written(line[k], r)) : Written(line[k], r)[j] # LF
    <3>1. line[k] \in Seq(S) /\ LF \notin Range(line[k]) /\ LF # r.quotechar_
      BY DEF Clean, IsReader
    <3> QED
      BY <3>1, WrittenHasNone
  <2>3. LF # r.sep_
    BY DEF IsReader
  <2> QED
    BY <1>3, <1>4, <2>1, <2>2, <2>3
<1>8. FieldsLie(body, line, r, n, b)
  <2>1. ASSUME NEW k \in 1 .. n
        PROVE  /\ b[k] = b[k - 1] + Len(Written(line[k], r)) + 1
               /\ Lies(body, b[k - 1], Written(line[k], r))
               /\ r.quotechar_ \notin Range(line[k])
               /\ k < n => b[k] \in 1 .. Len(body) /\ body[b[k]] = r.sep_
    BY <1>3, <1>4, <1>6 DEF InOrder, Clean
  <2> QED
    BY <1>6, <2>1 DEF FieldsLie, InOrder
<1>9. n > 1 \/ Len(line[1]) > 0 => Len(body) > 0
  <2>1. CASE n > 1
    <3>1. b[1] \in 1 .. Len(body) /\ Len(body) \in Nat
      BY <1>8, <2>1 DEF FieldsLie
    <3> QED
      BY <3>1
  <2>2. ASSUME Len(line[1]) > 0 PROVE Len(body) > 0
    <3>2. line[1] \in Seq(S) /\ 1 \in 1 .. n
      OBVIOUS
    <3>3. Len(Written(line[1], r)) > 0 /\ Len(Written(line[1], r)) \in Nat
      <4>1. CASE r.sep_ \in Range(line[1])
        <5>1. /\ Len(<<r.quotechar_>> \o line[1] \o <<r.quotechar_>>) > 0
              /\ Len(<<r.quotechar_>> \o line[1] \o <<r.quotechar_>>) \in Nat
          BY <3>2
        <5> QED
          BY <4>1, <5>1 DEF Written, Enclosed
      <4>2. CASE r.sep_ \notin Range(line[1])
        BY <2>2, <3>2, <4>2 DEF Written
      <4> QED
        BY <4>1, <4>2
    <3>4. b[0] + Len(Written(line[1], r)) <= Len(body) /\ b[0] = 0 /\ Len(body) \in Nat
      <4>1. Lies(body, b[1 - 1], Written(line[1], r)) /\ b[0] = 0
        BY <1>8, <3>2 DEF FieldsLie
      <4> QED
        BY <4>1 DEF Lies
    <3> QED
      BY <3>3, <3>4
  <2> QED
    BY <2>1, <2>2
<1>10. LineIs(body, line, r, n, S)
  BY <1>7, <1>8, <1>9 DEF LineIs
<1> QED
  BY <1>2, <1>3, <1>6, <1>10

IsConcat(w, x, y) ==
  /\ Len(x) \in Nat /\ Len(y) \in Nat /\ Len(w) = Len(x) + Len(y)
  /\ \A n \in 1 .. Len(x) : w[n] = x[n]
  /\ \A n \in 1 .. Len(y) : w[Len(x) + n] = y[n]

\* What concatenation is, element by element.
LEMMA ConcatIs ==
  ASSUME NEW S, NEW x \in Seq(S), NEW y \in Seq(S), NEW w, w = x \o y
  PROVE  w \in Seq(S) /\ IsConcat(w, x, y)
BY DEF IsConcat

SumAt(a, b, c, n) ==
  \/ n \in 1 .. a /\ n \in 1 .. a + b
  \/ \E k \in 1 .. b : n = a + k /\ n \in 1 .. a + b /\ k \in 1 .. b + c
  \/ \E k \in 1 .. c : n = (a + b) + k /\ n = a + (b + k) /\ b + k \in 1 .. b + c

\* Places in three sequences, counted either way.
LEMMA SumsAgree ==
  ASSUME NEW a \in Nat, NEW b \in Nat, NEW c \in Nat
  PROVE  (a + b) + c = a + (b + c) /\ \A n \in 1 .. (a + b) + c : SumAt(a, b, c, n)
<1>1. ASSUME NEW n \in 1 .. (a + b) + c
      PROVE  SumAt(a, b, c, n)
  <2> USE DEF SumAt
  <2>1. CASE n <= a
    BY <2>1
  <2>2. CASE n > a /\ n <= a + b
    <3>1. n - a \in 1 .. b /\ n = a + (n - a) /\ n \in 1 .. a + b /\ n - a \in 1 .. b + c
      BY <2>2
    <3> QED
      BY <3>1
  <2>3. CASE n > a + b
    <3>1. /\ n - (a + b) \in 1 .. c /\ n = (a + b) + (n - (a + b)) /\ n = a + (b + (n - (a + b)))
          /\ b + (n - (a + b)) \in 1 .. b + c
      BY <2>3
    <3> QED
      BY <3>1
  <2> QED
    BY <2>1, <2>2, <2>3
<1> QED
  BY <1>1

JoinedAlike(x, y, z) == (x \o y) \o z = x \o (y \o z)

\* Concatenation is associative.
LEMMA ConcatAgain ==
  ASSUME NEW S, NEW x \in Seq(S), NEW y \in Seq(S), NEW z \in Seq(S)
  PROVE  JoinedAlike(x, y, z)
<1> DEFINE xy == x \o y
           yz == y \o z
           u == xy \o z
           v == x \o yz
<1>1. xy \in Seq(S) /\ IsConcat(xy, x, y) /\ yz \in Seq(S) /\ IsConcat(yz, y, z)
  <2>1. xy \in Seq(S) /\ IsConcat(xy, x, y)
    BY ConcatIs
  <2>2. yz \in Seq(S) /\ IsConcat(yz, y, z)
    BY ConcatIs
  <2> QED
    BY <2>1, <2>2
<1> HIDE DEF xy, yz
<1>2. u \in Seq(S) /\ IsConcat(u, xy, z)
  BY <1>1, ConcatIs
<1>3. v \in Seq(S) /\ IsConcat(v, x, yz)
  BY <1>1, ConcatIs
<1> HIDE DEF u, v
<1>4. PICK a \in Nat, b \in Nat, c \in Nat : a = Len(x) /\ b = Len(y) /\ c = Len(z)
  OBVIOUS
<1>5. /\ Len(xy) = a + b /\ Len(yz) = b + c /\ Len(u) = (a + b) + c /\ Len(v) = a + (b + c)
      /\ \A n \in 1 .. a : xy[n] = x[n] /\ v[n] = x[n]
      /\ \A n \in 1 .. b : xy[a + n] = y[n] /\ yz[n] = y[n]
      /\ \A n \in 1 .. c : yz[b + n] = z[n] /\ u[(a + b) + n] = z[n]
      /\ \A n \in 1 .. a + b : u[n] = xy[n]
      /\ \A n \in 1 .. b + c : v[a + n] = yz[n]
  BY ONLY <1>1, <1>2, <1>3, <1>4 DEF IsConcat
<1>6. \A n \in 1 .. (a + b) + c : u[n] = v[n]
  <2>1. ASSUME NEW n \in 1 .. (a + b) + c PROVE u[n] = v[n]
    <3>1. CASE n \in 1 .. a /\ n \in 1 .. a + b
      BY ONLY <1>5, <3>1
    <3>2. ASSUME NEW k \in 1 .. b, n = a + k, n \in 1 .. a + b, k \in 1 .. b + c PROVE u[n] = v[n]
      BY ONLY <1>5, <3>2
    <3>3. ASSUME NEW k \in 1 .. c, n = (a + b) + k, n = a + (b + k), b + k \in 1 .. b + c
          PROVE  u[n] = v[n]
      <4>1. u[n] = z[k]
        BY ONLY <1>5, <3>3
      <4>2. v[n] = yz[b + k] /\ yz[b + k] = z[k]
        BY ONLY <1>5, <3>3
      <4> QED
        BY ONLY <4>1, <4>2
    <3> QED
      <4>1. SumAt(a, b, c, n)
        BY ONLY a \in Nat, b \in Nat, c \in Nat, <2>1, SumsAgree
      <4> QED
        BY ONLY <4>1, <3>1, <3>2, <3>3 DEF SumAt
  <2> QED
    BY <2>1
<1>7. Len(u) = Len(v) /\ Len(u) = (a + b) + c
  BY <1>5, SumsAgree
<1>8. \A n \in 1 .. Len(u) : u[n] = v[n]
  BY ONLY <1>6, <1>7
<1>9. u = v
  BY ONLY <1>2, <1>3, <1>7, <1>8, SeqEqual
<1> QED
  BY <1>9 DEF u, v, xy, yz, JoinedAlike

FirstAndOthers(P, others) == FlattenSeq(P) = P[1] \o FlattenSeq(others)

\* The first part stands before what the others are joined to.
LEMMA FlattenFirst ==
  ASSUME NEW S, NEW m \in Nat, NEW P \in Seq(Seq(S)), Len(P) = m + 1,
         NEW others, others = [k \in 1 .. m |-> P[k + 1]]
  PROVE  FirstAndOthers(P, others)
<1>1. \A k \in 1 .. m : others[k] = P[k + 1] /\ P[k + 1] \in Seq(S) /\ k + 1 \in 1 .. m + 1
  OBVIOUS
<1>2. others \in Seq(Seq(S)) /\ Len(others) = m
  <2>1. others = [k \in 1 .. m |-> others[k]] /\ \A k \in 1 .. m : others[k] \in Seq(S)
    BY <1>1
  <2> QED
    BY ONLY <2>1, m \in Nat, SequenceOf
<1>3. PICK F \in [0 .. m + 1 -> Seq(S)] :
        /\ F[0] = <<>> /\ FlattenSeq(P) = F[m + 1]
        /\ \A i \in 1 .. m + 1 : F[i] = F[i - 1] \o P[i]
  <2>1. \E F \in [0 .. Len(P) -> Seq(S)] :
          /\ F[0] = <<>> /\ FlattenSeq(P) = F[Len(P)]
          /\ \A i \in 1 .. Len(P) : F[i] = F[i - 1] \o P[i]
    BY ONLY P \in Seq(Seq(S)), Flattens
  <2> HIDE DEF FlattenSeq
  <2> QED
    BY ONLY <2>1, Len(P) = m + 1
<1>4. PICK G \in [0 .. m -> Seq(S)] :
        /\ G[0] = <<>> /\ FlattenSeq(others) = G[m]
        /\ \A i \in 1 .. m : G[i] = G[i - 1] \o others[i]
  <2>1. \E G \in [0 .. Len(others) -> Seq(S)] :
          /\ G[0] = <<>> /\ FlattenSeq(others) = G[Len(others)]
          /\ \A i \in 1 .. Len(others) : G[i] = G[i - 1] \o others[i]
    BY ONLY <1>2, Flattens
  <2> QED
    BY ONLY <2>1, <1>2
<1> DEFINE T == {i \in 0 .. m : F[i + 1] = P[1] \o G[i]}
<1>5. P[1] \in Seq(S)
  OBVIOUS
<1>6. 0 \in T
  <2>1. F[1] = F[0] \o P[1]
    <3>1. 1 \in 1 .. m + 1 /\ 1 - 1 = 0
      OBVIOUS
    <3> QED
      BY ONLY <1>3, <3>1
  <2>2. F[1] = P[1] \o G[0]
    BY <1>3, <1>4, <1>5, <2>1
  <2> QED
    BY <2>2
<1>7. ASSUME NEW i \in 0 .. m - 1, i \in T PROVE i + 1 \in T
  <2> DEFINE j == i + 1
  <2>1. j \in 1 .. m /\ j + 1 \in 1 .. m + 1 /\ (j + 1) - 1 = j /\ j - 1 = i /\ j \in 0 .. m /\ i \in 0 .. m
    OBVIOUS
  <2>2. F[j] = P[1] \o G[i]
    BY <1>7
  <2> HIDE DEF j
  <2>3. F[j + 1] = F[j] \o P[j + 1]
    BY <1>3, <2>1
  <2>4. G[j] = G[i] \o P[j + 1]
    BY <1>1, <1>4, <2>1
  <2>5. G[i] \in Seq(S) /\ P[j + 1] \in Seq(S)
    BY <1>1, <2>1
  <2>6. F[j + 1] = P[1] \o (G[i] \o P[j + 1])
    <3>1. (P[1] \o G[i]) \o P[j + 1] = P[1] \o (G[i] \o P[j + 1])
      <4>1. G[i] \in Seq(S)
        BY ONLY <2>5
      <4>2. P[j + 1] \in Seq(S)
        BY ONLY <2>5
      <4> DEFINE x == P[1]
                 y == G[i]
                 z == P[j + 1]
      <4>3. x \in Seq(S) /\ y \in Seq(S) /\ z \in Seq(S)
        BY ONLY <1>5, <4>1, <4>2
      <4> HIDE DEF x, y, z
      <4>4. JoinedAlike(x, y, z)
        BY ONLY <4>3, ConcatAgain
      <4> QED
        BY ONLY <4>4 DEF x, y, z, JoinedAlike
    <3> QED
      BY ONLY <2>2, <2>3, <3>1
  <2>7. F[j + 1] = P[1] \o G[j]
    BY <2>4, <2>6
  <2> QED
    BY <2>1, <2>7 DEF j
<1>8. 0 .. m \subseteq T
  <2> HIDE DEF T
  <2> QED
    BY ONLY m \in Nat, <1>6, <1>7, BoundedInduction
<1>9. m \in T
  BY <1>8
<1> QED
  BY <1>3, <1>4, <1>9 DEF FirstAndOthers

\* A line that can be written and read: n fields without line feeds and quotechars, one
\* that is not empty if it is the only one, and no blanks around the last one.
IsLine(line, r, n, S) ==
  /\ line \in Seq(Seq(S)) /\ Len(line) = n
  /\ Clean(line, r, n) /\ trim(line[n]) = line[n] /\ (n > 1 \/ Len(line[1]) > 0)

\* A line of a file, read again, has the fields it was written of.
LEMMA LineWritten ==
  ASSUME NEW S, NEW n \in Nat, n > 0, NEW r, IsReader(r, S), NEW line, IsLine(line, r, n, S)
  PROVE  \E body \in Seq(S) :
           /\ make_buffer(line, r.quotechar_, r.sep_) = Append(body, LF)
           /\ LF \notin Range(body) /\ Len(body) > 0 /\ fields_of(r, body) = line
<1>1. /\ line \in Seq(Seq(S)) /\ Len(line) = n
      /\ Clean(line, r, n) /\ trim(line[n]) = line[n] /\ (n > 1 \/ Len(line[1]) > 0)
  BY DEF IsLine
<1>2. PICK body : /\ make_buffer(line, r.quotechar_, r.sep_) = Append(body, LF)
                  /\ LineIs(body, line, r, n, S)
  BY ONLY <1>1, n \in Nat, n > 0, IsReader(r, S), BufferWritten
<1>3. body \in Seq(S) /\ LF \notin Range(body) /\ Len(body) > 0
  BY <1>1, <1>2 DEF LineIs
<1>4. PICK e : FieldsLie(body, line, r, n, e)
  BY <1>2 DEF LineIs
<1>5. r.quotechar_ # r.sep_ /\ r.quotechar_ \in S
  BY DEF IsReader
<1>6. fields_of(r, body) = line
  BY ONLY <1>1, <1>3, <1>4, <1>5, n \in Nat, n > 0, FieldsFound
<1> QED
  BY <1>2, <1>3, <1>6

\* The lines of a text with a header and a line for every row.
HasLines(text, names, rows, r, S) ==
  \E bodies \in Seq(Seq(S)) :
    /\ Len(bodies) = Len(rows) + 1 /\ lines_of(text) = Append(bodies, <<>>)
    /\ Len(bodies[1]) > 0 /\ fields_of(r, bodies[1]) = names
    /\ \A k \in 1 .. Len(rows) : Len(bodies[k + 1]) > 0 /\ fields_of(r, bodies[k + 1]) = rows[k]

\* A file that is written has a line for the header and one for every row.
LEMMA TextWritten ==
  ASSUME NEW S, NEW n \in Nat, n > 0, NEW r, IsReader(r, S), NEW names, IsLine(names, r, n, S),
         NEW R \in Nat, NEW rows \in Seq(Seq(Seq(S))), Len(rows) = R,
         \A k \in 1 .. R : IsLine(rows[k], r, n, S)
  PROVE  HasLines(write(rows, names, r.quotechar_, r.sep_), names, rows, r, S)
<1> DEFINE N == R + 1
           line == [k \in 1 .. N |-> IF k = 1 THEN names ELSE rows[k - 1]]
           Ok(body, l) == /\ body \in Seq(S)
                          /\ make_buffer(l, r.quotechar_, r.sep_) = Append(body, LF)
                          /\ LF \notin Range(body) /\ Len(body) > 0 /\ fields_of(r, body) = l
           bodies == [k \in 1 .. N |-> CHOOSE body : Ok(body, line[k])]
           P == [k \in 1 .. N |-> Append(bodies[k], LF)]
           x == [k \in 1 .. N |-> LF]
           others == [k \in 1 .. R |-> P[k + 1]]
           text == write(rows, names, r.quotechar_, r.sep_)
<1>1. N \in Nat /\ N > 0 /\ 1 \in 1 .. N /\ \A k \in 1 .. R : k + 1 \in 1 .. N
  OBVIOUS
<1>2. line[1] = names /\ \A k \in 1 .. R : line[k + 1] = rows[k]
  OBVIOUS
<1>3. \A k \in 1 .. N : IsLine(line[k], r, n, S)
  <2>1. ASSUME NEW k \in 1 .. N PROVE IsLine(line[k], r, n, S)
    <3>1. CASE k = 1
      BY <1>2, <3>1
    <3>2. CASE k # 1
      <4>1. k - 1 \in 1 .. R /\ line[k] = rows[k - 1]
        BY <3>2
      <4> QED
        BY <4>1
    <3> QED
      BY <3>1, <3>2
  <2> QED
    BY <2>1
<1> HIDE DEF N, line
<1>4. \A k \in 1 .. N : Ok(bodies[k], line[k])
  <2>1. ASSUME NEW k \in 1 .. N PROVE \E body : Ok(body, line[k])
    <3>1. IsLine(line[k], r, n, S)
      BY <1>3
    <3> QED
      BY ONLY <3>1, n \in Nat, n > 0, IsReader(r, S), LineWritten
  <2> HIDE DEF Ok
  <2> QED
    BY <2>1
<1>5. bodies = [k \in 1 .. N |-> bodies[k]]
  <2> DEFINE chosen(k) == CHOOSE body : Ok(body, line[k])
  <2>1. bodies = [k \in 1 .. N |-> chosen(k)]
    OBVIOUS
  <2> HIDE DEF chosen, bodies
  <2> QED
    BY ONLY <2>1
<1> HIDE DEF bodies
<1>6. bodies \in Seq(Seq(S)) /\ Len(bodies) = N
  <2>1. \A k \in 1 .. N : bodies[k] \in Seq(S)
    BY <1>4
  <2>2. N \in Nat
    BY <1>1
  <2> QED
    BY ONLY <1>5, <2>1, <2>2, SequenceOf
<1>7. /\ P \in Seq(Seq(S)) /\ Len(P) = N /\ HasWords(P, N, bodies, x)
  <2>1. ASSUME NEW k \in 1 .. N
        PROVE  /\ P[k] \in Seq(S) /\ Len(bodies[k]) \in Nat /\ Len(P[k]) = Len(bodies[k]) + 1
               /\ \A j \in 1 .. Len(bodies[k]) : P[k][j] = bodies[k][j]
               /\ P[k][Len(bodies[k]) + 1] = x[k]
    <3>1. bodies[k] \in Seq(S) /\ LF \in S /\ P[k] = Append(bodies[k], LF) /\ x[k] = LF
      BY <1>4 DEF IsReader
    <3> HIDE DEF P, x
    <3> QED
      BY <3>1
  <2>2. P = [k \in 1 .. N |-> P[k]] /\ \A k \in 1 .. N : P[k] \in Seq(S)
    BY <2>1
  <2> HIDE DEF P, x
  <2>3. P \in Seq(Seq(S)) /\ Len(P) = N
    BY ONLY <1>1, <2>2, SequenceOf
  <2> QED
    BY <2>1, <2>3 DEF HasWords
<1>8. text = FlattenSeq(P)
  <2>1. /\ make_buffer(names, r.quotechar_, r.sep_) = P[1]
        /\ \A k \in 1 .. R : make_buffer(rows[k], r.quotechar_, r.sep_) = P[k + 1]
    BY <1>1, <1>2, <1>4
  <2>2. /\ DOMAIN rows = 1 .. R /\ Len(names) = n /\ \A k \in 1 .. R : Len(rows[k]) = n
    BY DEF IsLine
  <2>3. [i \in DOMAIN rows |-> IF Len(rows[i]) # Len(names) THEN <<>>
                               ELSE make_buffer(rows[i], r.quotechar_, r.sep_)] = others
    <3> HIDE DEF P
    <3> QED
      BY <2>1, <2>2
  <2>4. text = P[1] \o FlattenSeq(others)
    <3> HIDE DEF others, P
    <3> QED
      BY <2>1, <2>3 DEF write
  <2>5. FlattenSeq(P) = P[1] \o FlattenSeq(others)
    <3>1. Len(P) = R + 1 /\ P \in Seq(Seq(S))
      BY <1>7 DEF N
    <3>2. others = [k \in 1 .. R |-> P[k + 1]]
      OBVIOUS
    <3> HIDE DEF P, others
    <3> QED
      <4>1. P \in Seq(Seq(S))
        BY ONLY <3>1
      <4>2. Len(P) = R + 1
        BY ONLY <3>1
      <4> QED
        <5>1. FirstAndOthers(P, others)
          BY ONLY <4>1, <4>2, <3>2, R \in Nat, FlattenFirst
        <5> QED
          BY ONLY <5>1 DEF FirstAndOthers
  <2> QED
    BY <2>4, <2>5
<1> HIDE DEF text, P
<1>9. PICK body \in Seq(S) : \E b : FlattenSeq(P) = Append(body, x[N]) /\ InOrder(body, N, bodies, x, b)
  <2> HIDE DEF x
  <2> QED
    BY ONLY <1>1, <1>7, WordsFollow
<1>10. PICK b : FlattenSeq(P) = Append(body, x[N]) /\ InOrder(body, N, bodies, x, b)
  BY <1>9
<1>11. \A k \in 1 .. N : x[k] = LF
  OBVIOUS
<1> HIDE DEF x
<1>12. text = Append(body, LF)
  BY <1>1, <1>8, <1>10, <1>11
<1>13. /\ text \in Seq(S) /\ Len(text) = Len(body) + 1 /\ text[Len(body) + 1] = LF
       /\ \A m \in 1 .. Len(body) : text[m] = body[m]
  <2>1. LF \in S
    BY DEF IsReader
  <2> QED
    BY <1>12, <2>1
<1>14. LinesLie(text, bodies, N, b)
  <2>1. b \in [0 .. N -> Nat] /\ b[0] = 0 /\ b[N] = Len(text)
    BY <1>10, <1>13 DEF InOrder
  <2>2. ASSUME NEW k \in 1 .. N
        PROVE  /\ b[k] = b[k - 1] + Len(bodies[k]) + 1
               /\ b[k] <= Len(text) /\ text[b[k]] = LF
               /\ LF \notin Range(bodies[k])
               /\ \A j \in 1 .. Len(bodies[k]) : text[b[k - 1] + j] = bodies[k][j]
    <3>1. /\ b[k] = b[k - 1] + Len(bodies[k]) + 1 /\ Lies(body, b[k - 1], bodies[k])
          /\ k < N => b[k] \in 1 .. Len(body) /\ body[b[k]] = x[k]
      BY <1>10 DEF InOrder
    <3>2. LF \notin Range(bodies[k]) /\ bodies[k] \in Seq(S)
      BY <1>4
    <3>3. b[k] <= Len(text) /\ text[b[k]] = LF
      <4>1. CASE k < N
        <5>1. b[k] \in 1 .. Len(body) /\ body[b[k]] = LF
          BY <1>11, <3>1, <4>1
        <5> QED
          BY <1>13, <5>1
      <4>2. CASE k = N
        <5>1. b[k] = Len(body) + 1
          BY <1>13, <2>1, <4>2
        <5> QED
          BY <1>13, <5>1
      <4> QED
        BY <1>1, <4>1, <4>2
    <3>4. \A j \in 1 .. Len(bodies[k]) : text[b[k - 1] + j] = bodies[k][j]
      <4>1. ASSUME NEW j \in 1 .. Len(bodies[k]) PROVE text[b[k - 1] + j] = bodies[k][j]
        <5> DEFINE p == b[k - 1]
                   l == Len(bodies[k])
        <5>0. p \in Nat
          <6>1. k - 1 \in 0 .. N
            BY <1>1
          <6> QED
            BY <2>1, <6>1
        <5>1. p \in Nat /\ l \in Nat /\ p + l <= Len(body) /\ j \in 1 .. l /\ Len(body) \in Nat
          <6>1. l \in Nat /\ Len(body) \in Nat
            BY <3>2
          <6>2. p + l <= Len(body)
            BY ONLY <3>1 DEF Lies
          <6> QED
            BY ONLY <5>0, <6>1, <6>2, j \in 1 .. Len(bodies[k])
        <5>2. body[p + j] = bodies[k][j]
          BY <3>1 DEF Lies
        <5> HIDE DEF p, l
        <5>3. p + j \in 1 .. Len(body)
          BY ONLY <5>1
        <5>4. text[p + j] = bodies[k][j]
          BY ONLY <1>13, <5>2, <5>3
        <5> QED
          BY <5>4 DEF p
      <4> QED
        BY <4>1
    <3> QED
      BY <3>1, <3>2, <3>3, <3>4
  <2> QED
    BY <2>1, <2>2 DEF LinesLie
<1>15. lines_of(text) = Append(bodies, <<>>)
  <2>1. text \in Seq(S)
    BY <1>13
  <2> QED
    BY ONLY <1>1, <1>6, <1>14, <2>1, LinesFound
<1>16. /\ Len(bodies) = Len(rows) + 1
       /\ Len(bodies[1]) > 0 /\ fields_of(r, bodies[1]) = names
       /\ \A k \in 1 .. Len(rows) : Len(bodies[k + 1]) > 0 /\ fields_of(r, bodies[k + 1]) = rows[k]
  BY <1>1, <1>2, <1>4, <1>6 DEF N
<1>17. HasLines(text, names, rows, r, S)
  BY <1>6, <1>15, <1>16 DEF HasLines
<1> QED
  BY <1>17 DEF text

-----------------------------------------------------------------------------
(* CSV files: the header *)

\* Kept keeps the elements that are wanted.
LEMMA KeptTyped ==
  ASSUME NEW T, NEW seq \in Seq(T), NEW S
  PROVE  Kept(seq, S) \in Seq(T) /\ Range(Kept(seq, S)) = Range(seq) \cap S
<1> DEFINE P == [i \in DOMAIN seq |-> IF seq[i] \in S THEN <<seq[i]>> ELSE <<>>]
<1>1. PICK n \in Nat : n = Len(seq) /\ DOMAIN seq = 1 .. n
  OBVIOUS
<1>2. \A k \in 1 .. n : seq[k] \in T /\ P[k] = IF seq[k] \in S THEN <<seq[k]>> ELSE <<>>
  BY <1>1
<1>3. P = [k \in 1 .. n |-> P[k]]
  <2>1. DOMAIN seq = 1 .. n
    BY <1>1
  <2>2. P = [k \in DOMAIN seq |-> P[k]]
    OBVIOUS
  <2> HIDE DEF P
  <2> QED
    BY ONLY <2>1, <2>2
<1> HIDE DEF P
<1>4. \A k \in 1 .. n : P[k] \in Seq(T) /\ Range(P[k]) = {seq[k]} \cap S
  <2>1. ASSUME NEW k \in 1 .. n PROVE P[k] \in Seq(T) /\ Range(P[k]) = {seq[k]} \cap S
    <3>1. CASE seq[k] \in S
      <4>1. P[k] = <<seq[k]>> /\ seq[k] \in T
        BY <1>2, <3>1
      <4> QED
        BY <3>1, <4>1 DEF Range
    <3>2. CASE seq[k] \notin S
      <4>1. P[k] = <<>>
        BY <1>2, <3>2
      <4> QED
        BY <3>2, <4>1 DEF Range
    <3> QED
      BY <3>1, <3>2
  <2> QED
    BY <2>1
<1>5. P \in Seq(Seq(T)) /\ Len(P) = n
  <2>1. \A k \in 1 .. n : P[k] \in Seq(T)
    BY <1>4
  <2> QED
    BY ONLY <1>3, <2>1, n \in Nat, SequenceOf
<1>6. Kept(seq, S) = FlattenSeq(P)
  BY DEF P, Kept
<1>7. FlattenSeq(P) \in Seq(T) /\ Range(FlattenSeq(P)) = UNION {Range(P[k]) : k \in 1 .. n}
  BY ONLY <1>5, n \in Nat, JoinedHasAll
<1>8. UNION {Range(P[k]) : k \in 1 .. n} = Range(seq) \cap S
  <2>1. Range(seq) = {seq[k] : k \in 1 .. n}
    BY <1>1 DEF Range
  <2> QED
    BY <1>4, <2>1
<1> QED
  BY <1>6, <1>7, <1>8

\* parse_field makes a sequence of characters,
LEMMA FieldTyped ==
  ASSUME NEW S, NEW str \in Seq(S), NEW quotechar \in S, NEW sep
  PROVE  parse_field(str, quotechar, sep) \in Seq(S)
<1> DEFINE field == remove_quotechars(str, quotechar)
<1>1. field \in Seq(S)
  BY KeptTyped DEF remove_quotechars
<1> HIDE DEF field
<1>2. <<quotechar>> \o field \o <<quotechar>> \in Seq(S)
  BY <1>1
<1>3. parse_field(str, quotechar, sep)
        = IF sep \in Range(field) THEN <<quotechar>> \o field \o <<quotechar>> ELSE field
  BY DEF field, parse_field, Enclosed
<1> QED
  BY <1>1, <1>2, <1>3

\* and so does make_buffer.
LEMMA BufferTyped ==
  ASSUME NEW S, NEW line \in Seq(Seq(S)), NEW quotechar \in S, NEW sep \in S, LF \in S
  PROVE  make_buffer(line, quotechar, sep) \in Seq(S)
<1>1. PICK n \in Nat : n = Len(line) /\ DOMAIN line = 1 .. n
  OBVIOUS
<1> DEFINE fields == [i \in DOMAIN line |-> parse_field(line[i], quotechar, sep)]
<1>2. fields = [i \in 1 .. n |-> fields[i]] /\ \A i \in 1 .. n : fields[i] \in Seq(S)
  <2>1. \A i \in 1 .. n : line[i] \in Seq(S)
    BY <1>1
  <2>2. \A i \in 1 .. n : parse_field(line[i], quotechar, sep) \in Seq(S)
    BY <2>1, FieldTyped
  <2> QED
    BY <1>1, <2>2
<1>3. make_buffer(line, quotechar, sep) = Joined(fields, sep)
  BY DEF make_buffer
<1> HIDE DEF fields
<1>4. fields \in Seq(Seq(S)) /\ Len(fields) = n /\ DOMAIN fields = 1 .. n
  BY ONLY <1>2, n \in Nat, SequenceOf
<1> DEFINE P == [i \in DOMAIN fields |->
                   fields[i] \o (IF i < Len(fields) THEN <<sep>> ELSE <<LF>>)]
<1>5. P = [i \in 1 .. n |-> P[i]] /\ \A i \in 1 .. n : P[i] \in Seq(S)
  <2>1. \A i \in 1 .. n : P[i] \in Seq(S)
    BY <1>2, <1>4
  <2>2. P = [i \in DOMAIN fields |-> P[i]]
    OBVIOUS
  <2> HIDE DEF P
  <2> QED
    BY <1>4, <2>1, <2>2
<1>6. Joined(fields, sep) = FlattenSeq(P)
  BY DEF Joined
<1> HIDE DEF P
<1>7. P \in Seq(Seq(S)) /\ Len(P) = n
  BY ONLY <1>5, n \in Nat, SequenceOf
<1>8. FlattenSeq(P) \in Seq(S)
  BY ONLY <1>7, n \in Nat, JoinedHasAll
<1> QED
  BY <1>3, <1>6, <1>8

\* The lines of a text whose first line is its header.
HasHeader(text, names, r, S) ==
  /\ lines_of(text) \in Seq(Seq(S)) /\ Len(lines_of(text)) > 1
  /\ Len(lines_of(text)[1]) > 0 /\ fields_of(r, lines_of(text)[1]) = names

\* The first line of a file is the header, whatever the rows.
LEMMA HeaderWritten ==
  ASSUME NEW S, NEW n \in Nat, n > 0, NEW r, IsReader(r, S), NEW names, IsLine(names, r, n, S),
         NEW rows \in Seq(Seq(Seq(S)))
  PROVE  HasHeader(write(rows, names, r.quotechar_, r.sep_), names, r, S)
<1> DEFINE text == write(rows, names, r.quotechar_, r.sep_)
<1>1. PICK body \in Seq(S) :
        /\ make_buffer(names, r.quotechar_, r.sep_) = Append(body, LF)
        /\ LF \notin Range(body) /\ Len(body) > 0 /\ fields_of(r, body) = names
  BY ONLY n \in Nat, n > 0, IsReader(r, S), IsLine(names, r, n, S), LineWritten
<1>2. PICK R \in Nat : R = Len(rows) /\ DOMAIN rows = 1 .. R
  OBVIOUS
<1> DEFINE P == [i \in DOMAIN rows |->
                   IF Len(rows[i]) # Len(names) THEN <<>>
                   ELSE make_buffer(rows[i], r.quotechar_, r.sep_)]
           tail == FlattenSeq(P)
<1>3. r.quotechar_ \in S /\ r.sep_ \in S /\ LF \in S
  BY DEF IsReader
<1>4. \A i \in 1 .. R : P[i] \in Seq(S)
  <2>1. ASSUME NEW i \in 1 .. R PROVE P[i] \in Seq(S)
    <3>1. rows[i] \in Seq(Seq(S))
      BY <1>2
    <3>2. make_buffer(rows[i], r.quotechar_, r.sep_) \in Seq(S)
      BY ONLY <1>3, <3>1, BufferTyped
    <3>3. P[i] = <<>> \/ P[i] = make_buffer(rows[i], r.quotechar_, r.sep_)
      BY <1>2
    <3>4. <<>> \in Seq(S)
      OBVIOUS
    <3> HIDE DEF P
    <3> QED
      BY ONLY <3>2, <3>3, <3>4
  <2> QED
    BY <2>1
<1>5. P = [i \in 1 .. R |-> P[i]]
  <2>1. P = [i \in DOMAIN rows |-> P[i]]
    OBVIOUS
  <2> HIDE DEF P
  <2> QED
    BY ONLY <1>2, <2>1
<1>6. text = make_buffer(names, r.quotechar_, r.sep_) \o tail
  BY DEF write
<1> HIDE DEF P
<1>7. P \in Seq(Seq(S)) /\ Len(P) = R
  BY ONLY <1>4, <1>5, R \in Nat, SequenceOf
<1>8. tail \in Seq(S)
  BY ONLY <1>7, R \in Nat, JoinedHasAll
<1> HIDE DEF tail, text
<1>9. text = Append(body, LF) \o tail
  BY <1>1, <1>6
<1>10. body \in Seq(S) /\ LF \notin Range(body)
  BY <1>1
<1>11. /\ lines_of(text) \in Seq(Seq(S)) /\ Len(lines_of(text)) > 1
       /\ lines_of(text)[1] = body
  BY ONLY <1>3, <1>8, <1>9, <1>10, FirstLine
<1> QED
  BY <1>1, <1>11 DEF HasHeader, text

\* The smallest and the largest of some positions.
LEMMA EndsLie ==
  ASSUME NEW n \in Nat, NEW T, T \subseteq 1 .. n, T # {}
  PROVE  Min(T) \in 1 .. n /\ Max(T) \in 1 .. n
<1>1. \E x \in T : \A y \in T : x <= y
  <2>1. T \subseteq Nat
    OBVIOUS
  <2> QED
    BY ONLY <2>1, T # {}, LeastNumber
<1>2. \E x \in T : \A y \in T : x >= y
  <2> DEFINE U == {n - x : x \in T}
  <2>1. U \subseteq Nat /\ U # {}
    <3>1. \A x \in T : n - x \in Nat
      OBVIOUS
    <3>2. PICK x : x \in T
      OBVIOUS
    <3>3. n - x \in U
      BY <3>2
    <3> QED
      BY <3>1, <3>3
  <2>2. PICK u \in U : \A v \in U : u <= v
    <3> HIDE DEF U
    <3> QED
      BY ONLY <2>1, LeastNumber
  <2>3. PICK x \in T : u = n - x
    OBVIOUS
  <2>4. ASSUME NEW y \in T PROVE x >= y
    <3>1. n - y \in U /\ y \in 1 .. n /\ x \in 1 .. n
      OBVIOUS
    <3>2. n - x <= n - y
      BY <2>2, <2>3, <3>1
    <3> QED
      BY <3>1, <3>2
  <2> QED
    BY <2>4
<1>3. Min(T) \in T
  BY <1>1 DEF Min
<1>4. Max(T) \in T
  BY <1>2 DEF Max
<1> QED
  BY <1>3, <1>4

\* trim makes a sequence of characters,
LEMMA TrimTyped ==
  ASSUME NEW S, NEW str \in Seq(S)
  PROVE  trim(str) \in Seq(S)
<1> DEFINE kept == {i \in DOMAIN str : str[i] \notin WHITESPACE}
<1>1. CASE kept = {}
  BY <1>1 DEF trim
<1>2. CASE kept # {}
  <2>1. trim(str) = SubSeq(str, Min(kept), Max(kept))
    BY <1>2 DEF trim
  <2>2. PICK n \in Nat : n = Len(str) /\ DOMAIN str = 1 .. n
    OBVIOUS
  <2>3. Min(kept) \in 1 .. n /\ Max(kept) \in 1 .. n
    <3>1. kept \subseteq 1 .. n /\ kept # {}
      BY <1>2, <2>2
    <3> HIDE DEF kept
    <3> QED
      BY ONLY <3>1, n \in Nat, EndsLie
  <2> HIDE DEF kept
  <2> QED
    BY <2>1, <2>2, <2>3
<1> QED
  BY <1>1, <1>2

\* and fields_of a sequence of them.
LEMMA FieldsTyped ==
  ASSUME NEW S, NEW line \in Seq(S), NEW r
  PROVE  fields_of(r, line) \in Seq(Seq(S))
<1>1. PICK f : /\ Chops(f, line, r, S)
               /\ fields_of(r, line) = Append(f[Len(line)].result, trim(f[Len(line)].field))
  BY FieldsAreChopped
<1>2. Len(line) \in 0 .. Len(line)
  OBVIOUS
<1>3. f[Len(line)].result \in Seq(Seq(S)) /\ f[Len(line)].field \in Seq(S)
  BY <1>1, <1>2 DEF Chops
<1>4. trim(f[Len(line)].field) \in Seq(S)
  BY <1>3, TrimTyped
<1> QED
  BY <1>1, <1>3, <1>4

-----------------------------------------------------------------------------
(* CSV files: the reader *)

\* A reader of lines that has read m of them.
ReaderAt(names, lines, limit, m) ==
  [colnames_ |-> names, lines |-> lines, limit_ |-> limit,
   quotechar_ |-> QUOTE, sep_ |-> SEP, num_lines_read_ |-> m]

\* There is another line.
GoesFurther(lines, limit, m) == m < Len(lines) /\ (limit > 0 => m < limit)

FieldsAt(names, lines, limit, m) ==
  IF lines[m + 1] = <<>> THEN <<>> ELSE fields_of(ReaderAt(names, lines, limit, m), lines[m + 1])

\* The fields of a reader.
LEMMA ReaderFields ==
  \A names, lines, limit, m :
    LET r == ReaderAt(names, lines, limit, m)
    IN  /\ r.colnames_ = names /\ r.lines = lines /\ r.limit_ = limit /\ r.num_lines_read_ = m
        /\ r.quotechar_ = QUOTE /\ r.sep_ = SEP
        /\ \A k : [r EXCEPT !.num_lines_read_ = k] = ReaderAt(names, lines, limit, k)
<1> TAKE names, lines, limit, m
<1> DEFINE r == ReaderAt(names, lines, limit, m)
<1>1. /\ r.colnames_ = names /\ r.lines = lines /\ r.limit_ = limit /\ r.num_lines_read_ = m
      /\ r.quotechar_ = QUOTE /\ r.sep_ = SEP
  <2> HIDE DEF QUOTE, SEP
  <2> QED
    BY DEF ReaderAt
<1>2. ASSUME NEW k PROVE [r EXCEPT !.num_lines_read_ = k] = ReaderAt(names, lines, limit, k)
  <2> HIDE DEF QUOTE, SEP
  <2> QED
    BY DEF ReaderAt
<1> QED
  BY <1>1, <1>2

\* next_line goes on by one line.
LEMMA NextLine ==
  ASSUME NEW names, NEW lines, NEW limit \in Nat, NEW m \in Nat, Len(lines) \in Nat,
         GoesFurther(lines, limit, m)
  PROVE  /\ next_line(ReaderAt(names, lines, limit, m)).line = FieldsAt(names, lines, limit, m)
         /\ next_line(ReaderAt(names, lines, limit, m)).reader = ReaderAt(names, lines, limit, m + 1)
<1> DEFINE r == ReaderAt(names, lines, limit, m)
<1>1. /\ r.lines = lines /\ r.limit_ = limit /\ r.num_lines_read_ = m
      /\ [r EXCEPT !.num_lines_read_ = m + 1] = ReaderAt(names, lines, limit, m + 1)
  BY ReaderFields
<1>2. FieldsAt(names, lines, limit, m) = IF lines[m + 1] = <<>> THEN <<>> ELSE fields_of(r, lines[m + 1])
  BY DEF FieldsAt
<1> HIDE DEF r
<1>3. ~ eof(r)
  BY <1>1 DEF eof, GoesFurther
<1>4. next_line(r) = [line |-> IF lines[m + 1] = <<>> THEN <<>> ELSE fields_of(r, lines[m + 1]),
                      reader |-> [r EXCEPT !.num_lines_read_ = m + 1]]
  BY <1>1, <1>3 DEF next_line
<1>5. next_line(r).line = FieldsAt(names, lines, limit, m)
  BY <1>2, <1>4
<1>6. next_line(r).reader = ReaderAt(names, lines, limit, m + 1)
  BY <1>1, <1>4
<1> QED
  BY <1>5, <1>6 DEF r

\* Lines are skipped one after the other.
LEMMA LinesSkipped ==
  ASSUME NEW names, NEW lines, NEW limit \in Nat, NEW m \in Nat, Len(lines) \in Nat, NEW n \in Nat,
         \A i \in 0 .. n - 1 : GoesFurther(lines, limit, m + i)
  PROVE  skip_lines(ReaderAt(names, lines, limit, m), n) = ReaderAt(names, lines, limit, m + n)
<1> DEFINE at(i) == ReaderAt(names, lines, limit, m + i)
           r == at(0)
           skipped == CHOOSE f : f = [i \in 0 .. n |-> IF i = 0 THEN r ELSE next_line(f[i - 1]).reader]
           g == [i \in 0 .. n |-> at(i)]
<1>1. ReaderAt(names, lines, limit, m) = r
  <2>1. m + 0 = m
    OBVIOUS
  <2> QED
    BY <2>1
<1>2. skip_lines(r, n) = skipped[n]
  BY DEF skip_lines
<1>3. \A i \in 1 .. n : next_line(at(i - 1)).reader = at(i)
  <2>1. ASSUME NEW i \in 1 .. n PROVE next_line(at(i - 1)).reader = at(i)
    <3>1. m + (i - 1) \in Nat /\ (m + (i - 1)) + 1 = m + i /\ i - 1 \in 0 .. n - 1
      OBVIOUS
    <3>2. GoesFurther(lines, limit, m + (i - 1))
      BY <3>1
    <3>3. next_line(ReaderAt(names, lines, limit, m + (i - 1))).reader
            = ReaderAt(names, lines, limit, (m + (i - 1)) + 1)
      BY ONLY <3>1, <3>2, Len(lines) \in Nat, limit \in Nat, NextLine
    <3> QED
      BY <3>1, <3>3
  <2> QED
    BY <2>1
<1> HIDE DEF at
<1>4. g = [i \in 0 .. n |-> IF i = 0 THEN r ELSE next_line(g[i - 1]).reader]
  <2>1. ASSUME NEW i \in 0 .. n PROVE g[i] = IF i = 0 THEN r ELSE next_line(g[i - 1]).reader
    <3>1. CASE i = 0
      BY <3>1
    <3>2. CASE i # 0
      <4>1. i \in 1 .. n /\ i - 1 \in 0 .. n
        BY <3>2
      <4>2. g[i] = at(i) /\ g[i - 1] = at(i - 1)
        BY <4>1
      <4> HIDE DEF g
      <4> QED
        BY <1>3, <3>2, <4>1, <4>2
    <3> QED
      BY <3>1, <3>2
  <2>2. g = [i \in 0 .. n |-> g[i]]
    OBVIOUS
  <2> HIDE DEF g
  <2> QED
    BY <2>1, <2>2
<1>5. skipped = [i \in 0 .. n |-> IF i = 0 THEN r ELSE next_line(skipped[i - 1]).reader]
  <2> HIDE DEF g, r
  <2> QED
    BY ONLY <1>4
<1> HIDE DEF skipped
<1> DEFINE T == {i \in 0 .. n : skipped[i] = at(i)}
<1>6. 0 \in T
  <2>1. 0 \in 0 .. n
    OBVIOUS
  <2> QED
    BY <1>5, <2>1
<1>7. ASSUME NEW i \in 0 .. n - 1, i \in T PROVE i + 1 \in T
  <2>1. i + 1 \in 1 .. n /\ i + 1 \in 0 .. n /\ i + 1 # 0 /\ (i + 1) - 1 = i /\ skipped[i] = at(i)
    BY <1>7
  <2>2. skipped[i + 1] = next_line(skipped[i]).reader
    <3> HIDE DEF r
    <3> QED
      BY <1>5, <2>1
  <2>3. next_line(at(i)).reader = at(i + 1)
    BY <1>3, <2>1
  <2> QED
    BY <2>1, <2>2, <2>3
<1>8. 0 .. n \subseteq T
  <2> HIDE DEF T
  <2> QED
    BY ONLY n \in Nat, <1>6, <1>7, BoundedInduction
<1>9. skipped[n] = at(n)
  BY <1>8
<1> QED
  BY <1>1, <1>2, <1>9 DEF at

\* How many lines a reader can read.
LastLine(lines, limit) == IF limit > 0 /\ limit < Len(lines) THEN limit ELSE Len(lines)

\* The lines that are left.
LinesLeft(left, names, lines, limit, m) ==
  LET n == IF LastLine(lines, limit) > m THEN LastLine(lines, limit) - m ELSE 0
  IN  /\ left = [i \in 1 .. n |-> left[i]]
      /\ \A i \in 1 .. n : left[i] = FieldsAt(names, lines, limit, m + i - 1)

\* rest has the fields of all lines that are left.
LEMMA RestRead ==
  ASSUME NEW names, NEW lines, NEW limit \in Nat, NEW m \in Nat, Len(lines) \in Nat
  PROVE  LinesLeft(rest(ReaderAt(names, lines, limit, m)), names, lines, limit, m)
<1> DEFINE r == ReaderAt(names, lines, limit, m)
           last == LastLine(lines, limit)
           n == IF last > m THEN last - m ELSE 0
           at(i) == [r EXCEPT !.num_lines_read_ = i - 1]
           left == [i \in 1 .. n |-> next_line(at(m + i)).line]
<1>1. r.lines = lines /\ r.limit_ = limit /\ r.num_lines_read_ = m
  BY ReaderFields
<1>2. \A i : at(i) = ReaderAt(names, lines, limit, i - 1)
  BY ReaderFields
<1>3. rest(r) = left
  <2> HIDE DEF r
  <2>1. last = IF r.limit_ > 0 /\ r.limit_ < Len(r.lines) THEN r.limit_ ELSE Len(r.lines)
    BY <1>1 DEF LastLine
  <2> HIDE DEF last
  <2> QED
    BY <1>1, <2>1 DEF rest
<1>4. last \in Nat /\ last <= Len(lines) /\ (limit > 0 => last <= limit)
  BY DEF LastLine
<1> HIDE DEF last
<1>5. ASSUME NEW i \in 1 .. n
      PROVE  next_line(at(m + i)).line = FieldsAt(names, lines, limit, m + i - 1)
  <2>1. m + i - 1 \in Nat /\ m + i - 1 < last
    BY <1>4
  <2>2. GoesFurther(lines, limit, m + i - 1)
    BY <1>4, <2>1 DEF GoesFurther
  <2>3. next_line(ReaderAt(names, lines, limit, m + i - 1)).line = FieldsAt(names, lines, limit, m + i - 1)
    BY ONLY <2>1, <2>2, Len(lines) \in Nat, limit \in Nat, NextLine
  <2> HIDE DEF at
  <2>4. at(m + i) = ReaderAt(names, lines, limit, m + i - 1)
    BY ONLY <1>2
  <2> QED
    BY ONLY <2>3, <2>4
<1> HIDE DEF at, n
<1>6. left = [i \in 1 .. n |-> left[i]] /\ \A i \in 1 .. n : left[i] = FieldsAt(names, lines, limit, m + i - 1)
  BY <1>5
<1> HIDE DEF left
<1> QED
  BY <1>3, <1>6 DEF LinesLeft, n, last

-----------------------------------------------------------------------------
(* CSV files: the lines of a data frame *)

WordKinds == {"number", "date", "second", "fraction", "nan", "NULL", "null"}

Tokens == (STRING \X Nat) \cup {QUOTE, SEP, LF} \cup (WordKinds \X Nat)

\* A string is a sequence of characters.
LEMMA StringsAreTokens == Strings \subseteq Seq(Tokens)
<1>1. STRING \X Nat \subseteq Tokens
  BY Zenon DEF Tokens
<1> DEFINE T == STRING \X Nat
<1>2. T \subseteq Tokens
  BY <1>1
<1> HIDE DEF T
<1>3. Seq(T) \subseteq Seq(Tokens)
  BY ONLY <1>2
<1> QED
  BY <1>3 DEF T, Strings

\* Quotation mark, separator and line feed are three characters.
LEMMA SignsAreApart ==
  /\ QUOTE \in Tokens /\ SEP \in Tokens /\ LF \in Tokens
  /\ QUOTE # SEP /\ LF # SEP /\ LF # QUOTE
<1>1. QUOTE \in Tokens /\ SEP \in Tokens /\ LF \in Tokens
  BY Zenon DEF Tokens
<1>2. QUOTE # SEP
  <2>1. "'" # ","
    BY Zenon
  <2> QED
    BY <2>1, Zenon DEF QUOTE, SEP
<1>3. LF # SEP
  <2>1. "n" # ","
    BY Zenon
  <2> QED
    BY <2>1, Zenon DEF LF, SEP
<1>4. LF # QUOTE
  <2>1. "n" # "'"
    BY Zenon
  <2> QED
    BY <2>1, Zenon DEF LF, QUOTE
<1> QED
  BY <1>1, <1>2, <1>3, <1>4

\* The reader of a file has its signs.
LEMMA ReaderIsOne ==
  \A names, lines, limit, m :
    /\ IsReader(ReaderAt(names, lines, limit, m), Tokens)
    /\ ReaderAt(names, lines, limit, m).quotechar_ = QUOTE
    /\ ReaderAt(names, lines, limit, m).sep_ = SEP
<1> TAKE names, lines, limit, m
<1> DEFINE r == ReaderAt(names, lines, limit, m)
<1>1. r.quotechar_ = QUOTE /\ r.sep_ = SEP
  BY ReaderFields
<1> HIDE DEF r
<1>2. IsReader(r, Tokens)
  BY ONLY <1>1, SignsAreApart, Zenon DEF IsReader
<1> QED
  BY <1>1, <1>2 DEF r

\* Words that are no signs.
LEMMA WordsAreNoSigns ==
  ASSUME NEW kind \in {"number", "date", "second", "fraction", "nan", "NULL", "null"}, NEW v
  PROVE  <<kind, v>> # QUOTE /\ <<kind, v>> # LF
<1>1. kind # "'"
  BY Zenon
<1>2. kind # "n"
  BY Zenon
<1>3. <<kind, v>> # <<"'", 0>> /\ <<kind, v>> # <<"n", 10>>
  BY <1>1, <1>2, Zenon
<1> QED
  BY <1>3, Zenon DEF QUOTE, LF

\* A cell is written without signs and blanks, unless it is a string: that is written
\* as it is, but for a null.
LEMMA CellWritten ==
  ASSUME NEW c, IsColumn(c), NEW n \in DOMAIN c.col.data
  PROVE  /\ WrittenCell(c, n) \in Seq(Tokens)
         /\ c.role \notin StringRoles \/ c.col.data[n] = NULL =>
              /\ QUOTE \notin Range(WrittenCell(c, n)) /\ LF \notin Range(WrittenCell(c, n))
              /\ trim(WrittenCell(c, n)) = WrittenCell(c, n) /\ Len(WrittenCell(c, n)) > 0
<1> DEFINE v == c.col.data[n]
<1>1. CASE c.role \in StringRoles /\ v # NULL
  <2>1. WrittenCell(c, n) = v
    BY <1>1 DEF WrittenCell, str_of
  <2>2. v \in Strings
    BY <1>1 DEF IsColumn
  <2> QED
    BY <1>1, <2>1, <2>2, StringsAreTokens
<1>2. CASE c.role \notin StringRoles \/ v = NULL
  <2>1. PICK kind \in {"number", "date", "second", "fraction", "nan", "NULL", "null"}, x \in Nat :
          WrittenCell(c, n) = <<<<kind, x>>>>
    <3>1. CASE c.role \in StringRoles
      <4>1. WrittenCell(c, n) = <<<<"NULL", 0>>>>
        BY <1>2, <3>1 DEF WrittenCell, str_of, NULLTEXT, Word
      <4> QED
        BY <4>1
    <3>2. CASE c.role \notin StringRoles
      <4>1. v \in Rounded
        BY <3>2 DEF IsColumn
      <4>2. WrittenCell(c, n) = ts_to_string(v) \/ WrittenCell(c, n) = to_precise_string(v)
        BY <3>2 DEF WrittenCell
      <4> HIDE DEF v
      <4>3. CASE v = NAN
        BY <4>2, <4>3, Zenon DEF ts_to_string, to_precise_string, NULLTEXT, Word
      <4>4. CASE v # NAN
        <5> DEFINE w == Digits(16, v)
                   u == IF v % ONE = 0 THEN v ELSE Micros(v)
        <5>1. v \in Nat /\ w \in Nat /\ u \in Nat
          BY <4>1, <4>4 DEF Rounded, Rounds
        <5>2. to_precise_string(v) = <<<<"number", w>>>>
          BY <4>4 DEF to_precise_string, Number
        <5>3. PICK kind \in {"date", "second", "fraction"} : ts_to_string(v) = <<<<kind, u>>>>
          BY <5>1, StampWritten
        <5> HIDE DEF w, u
        <5> QED
          BY <4>2, <5>1, <5>2, <5>3
      <4> QED
        BY <4>3, <4>4
    <3> QED
      BY <3>1, <3>2
  <2> DEFINE word == <<kind, x>>
  <2>3. word \in Tokens /\ word # QUOTE /\ word # LF /\ word \notin WHITESPACE
    <3>1. word # QUOTE /\ word # LF
      BY WordsAreNoSigns
    <3>2. word \notin WHITESPACE
      BY WordsAreNoBlanks
    <3>3. word \in WordKinds \X Nat
      BY DEF WordKinds
    <3> QED
      BY <3>1, <3>2, <3>3, Zenon DEF Tokens
  <2>4. WrittenCell(c, n) = <<word>>
    BY <2>1
  <2> HIDE DEF word
  <2>5. trim(<<word>>) = <<word>> /\ Len(<<word>>) = 1
    BY <2>3, TrimWord
  <2>6. <<word>> \in Seq(Tokens) /\ Range(<<word>>) = {word}
    BY <2>3 DEF Range
  <2> QED
    BY <1>2, <2>3, <2>4, <2>5, <2>6
<1> QED
  BY <1>1, <1>2

ColumnNames(d) == [i \in DOMAIN Columns(d) |-> Columns(d)[i].col.name]

FrameLine(d, row) == [i \in DOMAIN Columns(d) |-> WrittenCell(Columns(d)[i], row)]

\* How many columns there are.
LEMMA CountColumns ==
  ASSUME NEW d, IsDataFrame(d)
  PROVE  \E n \in Nat : n = Len(Columns(d)) /\ DOMAIN Columns(d) = 1 .. n
<1>1. PICK S : Columns(d) \in Seq([role : Range(AllRoles), col : S])
  BY FrameColumns
<1> DEFINE cols == Columns(d)
           T == [role : Range(AllRoles), col : S]
<1>2. cols \in Seq(T)
  BY <1>1
<1> HIDE DEF cols, T
<1>3. \E n \in Nat : n = Len(cols) /\ DOMAIN cols = 1 .. n
  BY <1>2
<1> QED
  BY ONLY <1>3 DEF cols

\* The names of the columns are a line.
LEMMA NamesAreLine ==
  ASSUME NEW d, IsDataFrame(d), FitsText(d), NEW n \in Nat, n > 0, DOMAIN Columns(d) = 1 .. n,
         NEW r, r.quotechar_ = QUOTE
  PROVE  IsLine(ColumnNames(d), r, n, Tokens)
<1> DEFINE names == ColumnNames(d)
           cols == Columns(d)
<1>1. names = [i \in 1 .. n |-> names[i]] /\ \A i \in 1 .. n : names[i] = cols[i].col.name
  BY DEF ColumnNames
<1>2. ASSUME NEW i \in 1 .. n
      PROVE  /\ names[i] \in Strings /\ names[i] # <<>> /\ trim(names[i]) = names[i]
             /\ {QUOTE, BELL, LF} \cap Range(names[i]) = {}
  <2> DEFINE c == cols[i]
  <2>1. c \in Range(cols)
    BY DEF Range
  <2>2. c.col.name \in Strings /\ c.role \in Range(AllRoles) /\ \E k \in DOMAIN d[c.role] : c.col = d[c.role][k]
    BY <2>1, FrameColumns
  <2>3. PICK k \in DOMAIN d[c.role] : c.col = d[c.role][k]
    BY <2>2
  <2>4. LET name == d[c.role][k].name
        IN  name # <<>> /\ trim(name) = name /\ {QUOTE, BELL, LF} \cap Range(name) = {}
    BY <2>2, FitsText(d) DEF FitsText
  <2>5. names[i] = d[c.role][k].name /\ names[i] = c.col.name
    BY <1>1, <2>3
  <2> HIDE DEF names, c
  <2> QED
    BY <2>2, <2>4, <2>5
<1> HIDE DEF names
<1>3. \A i \in 1 .. n : names[i] \in Seq(Tokens)
  BY <1>2, StringsAreTokens
<1>4. names \in Seq(Seq(Tokens)) /\ Len(names) = n
  BY ONLY <1>1, <1>3, n \in Nat, SequenceOf
<1>5. Clean(names, r, n)
  BY <1>2 DEF Clean
<1>6. Len(names[1]) > 0
  <2>1. names[1] \in Seq(Tokens) /\ names[1] # <<>>
    BY <1>2, <1>3
  <2> QED
    BY <2>1
<1>7. trim(names[n]) = names[n]
  BY <1>2
<1> QED
  BY <1>4, <1>5, <1>6, <1>7 DEF IsLine, names

\* A row has a cell of every column.
LEMMA RowIsTyped ==
  ASSUME NEW d, IsDataFrame(d), NEW n \in Nat, DOMAIN Columns(d) = 1 .. n, NEW row \in 1 .. row_count(d)
  PROVE  /\ FrameLine(d, row) \in Seq(Seq(Tokens)) /\ Len(FrameLine(d, row)) = n
         /\ \A i \in 1 .. n :
              LET c == Columns(d)[i]
              IN  /\ FrameLine(d, row)[i] = WrittenCell(c, row)
                  /\ IsColumn(c) /\ row \in DOMAIN c.col.data /\ c \in Range(Columns(d))
<1> DEFINE line == FrameLine(d, row)
           cols == Columns(d)
<1>1. line = [i \in 1 .. n |-> line[i]] /\ \A i \in 1 .. n : line[i] = WrittenCell(cols[i], row)
  BY DEF FrameLine
<1>2. ASSUME NEW i \in 1 .. n
      PROVE  /\ line[i] \in Seq(Tokens)
             /\ IsColumn(cols[i]) /\ row \in DOMAIN cols[i].col.data /\ cols[i] \in Range(cols)
  <2> DEFINE c == cols[i]
  <2>1. c \in Range(cols)
    BY DEF Range
  <2>2. IsColumn(c)
    BY <2>1, FrameColumns
  <2>3. row \in DOMAIN c.col.data
    BY <2>1, RowCount
  <2> HIDE DEF c, line
  <2>4. WrittenCell(c, row) \in Seq(Tokens)
    BY ONLY <2>2, <2>3, CellWritten
  <2> QED
    BY <1>1, <2>1, <2>2, <2>3, <2>4 DEF c
<1> HIDE DEF line
<1>3. \A i \in 1 .. n : line[i] \in Seq(Tokens)
  BY <1>2
<1>4. line \in Seq(Seq(Tokens)) /\ Len(line) = n
  BY ONLY <1>1, <1>3, n \in Nat, SequenceOf
<1> QED
  BY <1>1, <1>2, <1>4 DEF line

\* Every row of a data frame that fits into CSV files is a line.
LEMMA RowIsLine ==
  ASSUME NEW d, IsDataFrame(d), FitsCSV(d), NEW n \in Nat, n > 0, DOMAIN Columns(d) = 1 .. n,
         NEW row \in 1 .. row_count(d), NEW r, r.quotechar_ = QUOTE
  PROVE  IsLine(FrameLine(d, row), r, n, Tokens)
<1> DEFINE line == FrameLine(d, row)
           cols == Columns(d)
<1>1. /\ line \in Seq(Seq(Tokens)) /\ Len(line) = n
      /\ \A i \in 1 .. n : /\ line[i] = WrittenCell(cols[i], row)
                           /\ IsColumn(cols[i]) /\ row \in DOMAIN cols[i].col.data
  BY RowIsTyped
<1>2. n = Len(cols)
  <2>1. PICK k \in Nat : k = Len(cols) /\ DOMAIN cols = 1 .. k
    BY CountColumns
  <2>2. DOMAIN cols = 1 .. n
    OBVIOUS
  <2> HIDE DEF cols
  <2> QED
    BY ONLY <2>1, <2>2, n \in Nat
<1>3. ASSUME NEW i \in 1 .. n
      PROVE  /\ QUOTE \notin Range(line[i]) /\ LF \notin Range(line[i])
             /\ i = n => trim(line[i]) = line[i]
             /\ n = 1 => Len(line[i]) > 0
  <2> DEFINE c == cols[i]
  <2>1. line[i] = WrittenCell(c, row) /\ IsColumn(c) /\ row \in DOMAIN c.col.data
    BY <1>1
  <2>2. CASE c.role \in StringRoles /\ c.col.data[row] # NULL
    <3> DEFINE str == c.col.data[row]
    <3>1. WrittenCell(c, row) = str
      BY <2>2 DEF WrittenCell, str_of
    <3>2. str \in Range(c.col.data)
      BY <2>1 DEF Range
    <3>3. /\ {QUOTE, LF} \cap Range(str) = {}
          /\ i = Len(cols) => trim(str) = str
          /\ Len(cols) = 1 => str # <<>>
      BY <2>2, <3>2, FitsCSV(d) DEF FitsCSV
    <3>5. line[i] = str /\ line[i] \in Seq(Tokens)
      BY ONLY <1>1, <2>1, <3>1
    <3> HIDE DEF line, c, cols, str
    <3>4. QUOTE \notin Range(str) /\ LF \notin Range(str)
      BY ONLY <3>3
    <3>6. str # <<>> => Len(line[i]) > 0
      BY ONLY <3>5
    <3> QED
      BY ONLY <1>2, <3>3, <3>4, <3>5, <3>6
  <2>3. CASE c.role \notin StringRoles \/ c.col.data[row] = NULL
    <3> HIDE DEF line, c
    <3>1. /\ QUOTE \notin Range(WrittenCell(c, row)) /\ LF \notin Range(WrittenCell(c, row))
          /\ trim(WrittenCell(c, row)) = WrittenCell(c, row) /\ Len(WrittenCell(c, row)) > 0
      BY ONLY <2>1, <2>3, CellWritten
    <3> QED
      BY <2>1, <3>1
  <2> QED
    BY <2>2, <2>3
<1> HIDE DEF line
<1>4. Clean(line, r, n)
  BY <1>3 DEF Clean
<1> QED
  BY <1>1, <1>3, <1>4 DEF IsLine, line

-----------------------------------------------------------------------------
(* CSV files: the lines that are read *)

\* What a reader finds in the lines of a text: the header, every row, and nothing
\* behind the last line feed.
FindsRows(lines, given, limit, names, rows, R) ==
  /\ Len(lines) = R + 2
  /\ FieldsAt(given, lines, limit, 0) = names
  /\ \A m \in 1 .. R : FieldsAt(given, lines, limit, m) = rows[m]
  /\ FieldsAt(given, lines, limit, R + 1) = <<>>

\* What Append does to the elements.
LEMMA AppendAt ==
  ASSUME NEW S, NEW s \in Seq(S), NEW x, NEW R \in Nat, Len(s) = R + 1
  PROVE  /\ Len(Append(s, x)) = R + 2 /\ Append(s, x)[R + 2] = x
         /\ \A k \in 1 .. R + 1 : Append(s, x)[k] = s[k]
OBVIOUS

\* The reader finds the header and the rows of a file that was written.
LEMMA RowsFound ==
  ASSUME NEW names, NEW n \in Nat, n > 0, NEW R \in Nat, NEW rows \in Seq(Seq(Seq(Tokens))),
         Len(rows) = R,
         \A r : r.quotechar_ = QUOTE =>
                  /\ IsLine(names, r, n, Tokens)
                  /\ \A k \in 1 .. R : IsLine(rows[k], r, n, Tokens),
         NEW given, NEW limit
  PROVE  FindsRows(lines_of(write(rows, names, QUOTE, SEP)), given, limit, names, rows, R)
<1> DEFINE text == write(rows, names, QUOTE, SEP)
           L == lines_of(text)
<1>1. ASSUME NEW m
      PROVE  /\ Len(L) = R + 2
             /\ m = 0 => FieldsAt(given, L, limit, m) = names
             /\ m \in 1 .. R => FieldsAt(given, L, limit, m) = rows[m]
             /\ m = R + 1 => FieldsAt(given, L, limit, m) = <<>>
  <2> DEFINE r == ReaderAt(given, L, limit, m)
  <2>1. IsReader(r, Tokens) /\ r.quotechar_ = QUOTE /\ r.sep_ = SEP
    BY ReaderIsOne
  <2>2. FieldsAt(given, L, limit, m) = IF L[m + 1] = <<>> THEN <<>> ELSE fields_of(r, L[m + 1])
    BY DEF FieldsAt
  <2> HIDE DEF r
  <2>3. IsLine(names, r, n, Tokens) /\ \A k \in 1 .. R : IsLine(rows[k], r, n, Tokens)
    BY <2>1
  <2>4. HasLines(write(rows, names, r.quotechar_, r.sep_), names, rows, r, Tokens)
    <3>1. IsReader(r, Tokens)
      BY <2>1
    <3>2. IsLine(names, r, n, Tokens)
      BY <2>3
    <3>3. \A k \in 1 .. R : IsLine(rows[k], r, n, Tokens)
      BY <2>3
    <3> QED
      BY ONLY <3>1, <3>2, <3>3, n \in Nat, n > 0, R \in Nat, rows \in Seq(Seq(Seq(Tokens))), Len(rows) = R,
              TextWritten
  <2>5. write(rows, names, r.quotechar_, r.sep_) = text
    BY <2>1
  <2>6. HasLines(text, names, rows, r, Tokens)
    BY <2>4, <2>5
  <2> HIDE DEF text
  <2>7. PICK bodies \in Seq(Seq(Tokens)) :
          /\ Len(bodies) = Len(rows) + 1 /\ L = Append(bodies, <<>>)
          /\ Len(bodies[1]) > 0 /\ fields_of(r, bodies[1]) = names
          /\ \A k \in 1 .. Len(rows) : Len(bodies[k + 1]) > 0 /\ fields_of(r, bodies[k + 1]) = rows[k]
    BY <2>6 DEF HasLines
  <2> HIDE DEF L
  <2>8. /\ Len(L) = R + 2 /\ L[R + 2] = <<>>
        /\ \A k \in 1 .. R + 1 : L[k] = bodies[k]
    <3>1. Len(bodies) = R + 1
      BY <2>7
    <3>2. /\ Len(Append(bodies, <<>>)) = R + 2 /\ Append(bodies, <<>>)[R + 2] = <<>>
          /\ \A k \in 1 .. R + 1 : Append(bodies, <<>>)[k] = bodies[k]
      BY ONLY <3>1, bodies \in Seq(Seq(Tokens)), R \in Nat, AppendAt
    <3> QED
      BY ONLY <2>7, <3>2
  <2>9. \A k \in 1 .. R + 1 : Len(bodies[k]) > 0 => bodies[k] # <<>>
    <3>1. Len(<<>>) = 0
      OBVIOUS
    <3> QED
      BY ONLY <3>1
  <2>10. CASE m = 0
    <3>1. m + 1 = 1 /\ 1 \in 1 .. R + 1 /\ m \notin 1 .. R /\ m # R + 1
      BY <2>10
    <3>2. L[1] = bodies[1] /\ bodies[1] # <<>> /\ fields_of(r, bodies[1]) = names
      BY <2>7, <2>8, <2>9, <3>1
    <3> QED
      BY <2>2, <2>8, <3>1, <3>2
  <2>11. CASE m \in 1 .. R
    <3>1. m + 1 \in 1 .. R + 1 /\ m # 0 /\ m # R + 1 /\ m \in 1 .. Len(rows)
      BY <2>11
    <3>2. L[m + 1] = bodies[m + 1] /\ bodies[m + 1] # <<>> /\ fields_of(r, bodies[m + 1]) = rows[m]
      BY <2>7, <2>8, <2>9, <3>1
    <3> QED
      BY <2>2, <2>8, <3>1, <3>2
  <2>12. CASE m = R + 1
    <3>1. m + 1 = R + 2 /\ m # 0 /\ m \notin 1 .. R
      BY <2>12
    <3> QED
      BY <2>2, <2>8, <3>1
  <2>13. CASE m # 0 /\ m \notin 1 .. R /\ m # R + 1
    BY <2>8, <2>13
  <2> QED
    BY <2>10, <2>11, <2>12, <2>13
<1> HIDE DEF L
<1>2. FindsRows(L, given, limit, names, rows, R)
  BY <1>1 DEF FindsRows
<1> QED
  BY <1>2 DEF L

\* The client leaves the names to the header, or names the columns and skips the header.
OpenedAs(given, skip, names, s) ==
  \/ given = <<>> /\ skip = s
  \/ given = names /\ names # <<>> /\ skip = s + 1

\* With the names of the columns given and the header skipped, or with neither, the
\* reader stands behind the header and the lines to be skipped.
LEMMA ReaderOpens ==
  ASSUME NEW given, NEW skip, NEW names, NEW s \in 0 .. 1, OpenedAs(given, skip, names, s),
         NEW lines, Len(lines) \in Nat, Len(lines) > s + 1, NEW limit \in Nat, limit > 0 => limit > s + 1,
         FieldsAt(given, lines, limit, 0) = names
  PROVE  LET opened == colnames(ReaderAt(given, lines, limit, 0))
         IN  /\ opened.line = names
             /\ skip_lines(opened.reader, skip) = ReaderAt(given, lines, limit, s + 1)
<1> DEFINE at(m) == ReaderAt(given, lines, limit, m)
           opened == colnames(at(0))
<1>1. at(0).colnames_ = given
  BY ReaderFields
<1>2. \A i \in 0 .. s : GoesFurther(lines, limit, i)
  BY DEF GoesFurther
<1>3. CASE given = <<>> /\ skip = s
  <2>1. opened = next_line(at(0))
    <3> HIDE DEF at
    <3> QED
      BY <1>1, <1>3 DEF colnames
  <2>2. GoesFurther(lines, limit, 0)
    BY <1>2
  <2>3. next_line(at(0)).line = FieldsAt(given, lines, limit, 0) /\ next_line(at(0)).reader = at(0 + 1)
    BY ONLY <2>2, limit \in Nat, 0 \in Nat, Len(lines) \in Nat, NextLine
  <2>4. skip_lines(at(1), s) = at(1 + s)
    <3>1. \A i \in 0 .. s - 1 : GoesFurther(lines, limit, 1 + i)
      BY <1>2
    <3>2. s \in Nat /\ 1 \in Nat
      OBVIOUS
    <3> QED
      BY ONLY <3>1, <3>2, limit \in Nat, Len(lines) \in Nat, LinesSkipped
  <2>5. 0 + 1 = 1 /\ 1 + s = s + 1
    OBVIOUS
  <2> HIDE DEF at
  <2> QED
    BY <1>3, <2>1, <2>3, <2>4, <2>5 DEF at
<1>4. CASE given = names /\ names # <<>> /\ skip = s + 1
  <2>1. opened = [line |-> given, reader |-> at(0)]
    <3> HIDE DEF at
    <3> QED
      BY <1>1, <1>4 DEF colnames
  <2>2. skip_lines(at(0), s + 1) = at(0 + (s + 1))
    <3>1. \A i \in 0 .. (s + 1) - 1 : GoesFurther(lines, limit, 0 + i)
      BY <1>2
    <3>2. s + 1 \in Nat /\ 0 \in Nat
      OBVIOUS
    <3> QED
      BY ONLY <3>1, <3>2, limit \in Nat, Len(lines) \in Nat, LinesSkipped
  <2>3. 0 + (s + 1) = s + 1
    OBVIOUS
  <2>4. opened.line = given /\ opened.reader = at(0)
    <3> HIDE DEF at, opened
    <3> QED
      BY <2>1
  <2> HIDE DEF at, opened
  <2>5. opened.line = names /\ skip_lines(opened.reader, skip) = at(s + 1)
    BY <1>4, <2>2, <2>3, <2>4
  <2> QED
    BY <2>5 DEF at, opened
<1> QED
  BY <1>3, <1>4 DEF OpenedAs

\* The last row that is read of R rows.
UpTo(s, l, R) == IF l = 0 THEN R ELSE Min({s + l, R})

LimitFor(s, l) == IF l = 0 THEN 0 ELSE l + s + 1

\* Of the lines that are left, the ones with n fields are m rows, from the one after s.
UsesRows(left, n, rows, s, m, R) ==
  LET used == Kept(left, {line \in Range(left) : line # <<>> /\ Len(line) = n})
  IN  /\ DOMAIN used = 1 .. m
      /\ \A i \in 1 .. m : used[i] = rows[s + i] /\ s + i \in 1 .. R

\* The rows that are used are those from the line after the skipped ones to the
\* limit.
LEMMA LinesAreUsed ==
  ASSUME NEW names, NEW n \in Nat, n > 0, NEW R \in Nat, R > 0, NEW rows \in Seq(Seq(Seq(Tokens))),
         Len(rows) = R, \A k \in 1 .. R : Len(rows[k]) = n,
         NEW s \in 0 .. 1, NEW l \in 0 .. 1, NEW given, NEW lines,
         FindsRows(lines, given, LimitFor(s, l), names, rows, R)
  PROVE  UsesRows(rest(ReaderAt(given, lines, LimitFor(s, l), s + 1)), n, rows, s, UpTo(s, l, R) - s, R)
<1> DEFINE limit == LimitFor(s, l)
           left == rest(ReaderAt(given, lines, limit, s + 1))
           wanted == {line \in Range(left) : line # <<>> /\ Len(line) = n}
           used == Kept(left, wanted)
           last == LastLine(lines, limit)
           N == IF last > s + 1 THEN last - (s + 1) ELSE 0
           m == UpTo(s, l, R) - s
<1>1. limit \in Nat /\ s + 1 \in Nat /\ Len(lines) = R + 2
  BY DEF LimitFor, FindsRows
<1>2. last = IF l = 0 THEN R + 2 ELSE IF s + l + 1 < R + 2 THEN s + l + 1 ELSE R + 2
  BY <1>1 DEF LastLine, LimitFor
<1>3. m = IF l = 0 THEN R - s ELSE IF s + l <= R THEN l ELSE R - s
  <2>1. Min({s + l, R}) = IF s + l <= R THEN s + l ELSE R
    BY TheSmaller
  <2> QED
    BY <2>1 DEF UpTo
<1>4. /\ N \in Nat /\ m \in 0 .. N
      /\ \A i \in 1 .. N : i <= m <=> s + i <= R
      /\ \A i \in 1 .. N : /\ (s + 1) + i - 1 = s + i
                           /\ i <= m => s + i \in 1 .. R
                           /\ ~ (i <= m) => s + i = R + 1
  <2> HIDE DEF last, m
  <2>1. s = 0 \/ s = 1
    OBVIOUS
  <2>2. l = 0 \/ l = 1
    OBVIOUS
  <2> QED
    BY <1>2, <1>3, <2>1, <2>2
<1>5. LinesLeft(left, given, lines, limit, s + 1)
  BY ONLY <1>1, R \in Nat, RestRead
<1> HIDE DEF last, m
<1>6. left = [i \in 1 .. N |-> left[i]] /\ \A i \in 1 .. N : left[i] = FieldsAt(given, lines, limit, (s + 1) + i - 1)
  BY <1>5 DEF LinesLeft, last
<1> HIDE DEF N, left
<1>7. ASSUME NEW i \in 1 .. N
      PROVE  /\ i <= m => left[i] = rows[s + i] /\ s + i \in 1 .. R /\ left[i] \in Seq(Seq(Tokens)) /\ Len(left[i]) = n
             /\ ~ (i <= m) => left[i] = <<>>
  <2>1. left[i] = FieldsAt(given, lines, limit, s + i)
    BY <1>4, <1>6
  <2>2. CASE i <= m
    <3>1. s + i \in 1 .. R
      BY <1>4, <2>2
    <3>2. left[i] = rows[s + i]
      BY <2>1, <3>1 DEF FindsRows
    <3> QED
      BY <2>2, <3>1, <3>2
  <2>3. CASE ~ (i <= m)
    <3>1. s + i = R + 1
      BY <1>4, <2>3
    <3> QED
      BY <2>1, <2>3, <3>1 DEF FindsRows
  <2> QED
    BY <2>2, <2>3
<1>8. \A i \in 1 .. N : left[i] \in Seq(Seq(Tokens))
  <2>1. ASSUME NEW i \in 1 .. N PROVE left[i] \in Seq(Seq(Tokens))
    <3>1. <<>> \in Seq(Seq(Tokens))
      OBVIOUS
    <3> QED
      BY <1>7, <3>1
  <2> QED
    BY <2>1
<1>9. left \in Seq(Seq(Seq(Tokens))) /\ Len(left) = N /\ DOMAIN left = 1 .. N
  <2>1. N \in Nat /\ left = [i \in 1 .. N |-> left[i]]
    BY <1>4, <1>6
  <2> QED
    BY ONLY <1>8, <2>1, SequenceOf
<1>10. \A i \in 1 .. Len(left) : left[i] \in wanted <=> i <= m
  <2>1. ASSUME NEW i \in 1 .. N PROVE left[i] \in wanted <=> i <= m
    <3>1. left[i] \in Range(left)
      BY <1>9 DEF Range
    <3>2. CASE i <= m
      <4>1. Len(left[i]) = n /\ left[i] # <<>>
        BY <1>7, <3>2
      <4> QED
        BY <3>1, <3>2, <4>1
    <3>3. CASE ~ (i <= m)
      BY <1>7, <3>3
    <3> QED
      BY <3>2, <3>3
  <2> QED
    BY <1>9, <2>1
<1> HIDE DEF wanted
<1>11. used = SubSeq(left, 1, m)
  <2>1. m \in 0 .. Len(left)
    BY <1>4, <1>9
  <2> QED
    BY ONLY <1>9, <1>10, <2>1, KeptFirst
<1>12. /\ DOMAIN SubSeq(left, 1, m) = 1 .. m
       /\ \A i \in 1 .. m : SubSeq(left, 1, m)[i] = left[i] /\ i \in 1 .. N
  BY <1>4, <1>9
<1> HIDE DEF used
<1>13. DOMAIN used = 1 .. m /\ \A i \in 1 .. m : used[i] = rows[s + i] /\ s + i \in 1 .. R
  <2>1. DOMAIN used = 1 .. m
    BY ONLY <1>11, <1>12
  <2>2. ASSUME NEW i \in 1 .. m PROVE used[i] = rows[s + i] /\ s + i \in 1 .. R
    <3>1. i \in 1 .. N /\ i <= m /\ used[i] = left[i]
      <4>1. i <= m
        BY ONLY i \in 1 .. m, <1>4
      <4>2. i \in 1 .. N /\ SubSeq(left, 1, m)[i] = left[i]
        BY ONLY i \in 1 .. m, <1>12
      <4> QED
        BY ONLY <1>11, <4>1, <4>2
    <3> QED
      BY ONLY <1>7, <3>1
  <2> QED
    BY ONLY <2>1, <2>2
<1> QED
  BY <1>13 DEF used, wanted, left, limit, m, UsesRows

-----------------------------------------------------------------------------
(* CSV files: the batches *)

BatchCount(L, batch_size) ==
  IF batch_size = 0 THEN 1 ELSE (L + batch_size - 1) \div batch_size

BatchStart(batch_size, b) == IF batch_size = 0 THEN 0 ELSE (b - 1) * batch_size

BatchRows(L, batch_size, b) ==
  IF batch_size = 0 THEN L
  ELSE IF b * batch_size <= L THEN batch_size ELSE L - (b - 1) * batch_size

BatchFits(L, batch_size, b) ==
  /\ BatchStart(batch_size, b) \in Nat /\ BatchRows(L, batch_size, b) \in Nat
  /\ BatchRows(L, batch_size, b) > 0
  /\ BatchStart(batch_size, b) + BatchRows(L, batch_size, b) <= L

\* The batches follow one another and have all rows.
LEMMA BatchesFit ==
  ASSUME NEW L \in Nat, L > 0, NEW batch_size \in Nat
  PROVE  /\ BatchCount(L, batch_size) \in Nat /\ BatchCount(L, batch_size) > 0
         /\ \A b \in 1 .. BatchCount(L, batch_size) : BatchFits(L, batch_size, b)
<1>1. CASE batch_size = 0
  BY <1>1 DEF BatchCount, BatchStart, BatchRows, BatchFits
<1>2. CASE batch_size # 0
  <2> DEFINE M == batch_size
             n == (L + M - 1) \div M
  <2>1. M \in Nat /\ M > 0
    BY <1>2
  <2> HIDE DEF M
  <2>2. n \in Nat /\ n * M >= L /\ (n - 1) * M < L
    <3>1. n \in Int /\ n * M <= L + M - 1 /\ L + M - 1 < (n + 1) * M
      BY <2>1
    <3> HIDE DEF n
    <3>2. (n + 1) * M = n * M + M /\ (n - 1) * M = n * M - M
      BY <2>1, <3>1
    <3>3. n * M >= L /\ (n - 1) * M < L
      BY <2>1, <3>1, <3>2
    <3>4. n >= 0
      <4> SUFFICES ASSUME n < 0 PROVE FALSE
        BY <3>1
      <4> DEFINE p == n * M
      <4>1. p <= 0
        BY <2>1, <3>1
      <4>2. p >= L /\ p \in Int
        BY <2>1, <3>1, <3>3
      <4> HIDE DEF p
      <4> QED
        BY <2>1, <4>1, <4>2
    <3> QED
      BY <3>1, <3>3, <3>4
  <2> HIDE DEF n
  <2>3. n > 0
    <3> SUFFICES ASSUME n = 0 PROVE FALSE
      BY <2>2
    <3>1. 0 * M = 0
      BY <2>1
    <3> QED
      BY <2>2, <3>1
  <2>4. ASSUME NEW k \in 1 .. n PROVE (k - 1) * M < L /\ k * M = (k - 1) * M + M /\ (k - 1) * M \in Nat
    <3>1. (k - 1) * M <= (n - 1) * M
      BY <2>1, <2>2
    <3>2. (k - 1) * M \in Nat /\ (n - 1) * M \in Int /\ k * M = (k - 1) * M + M
      BY <2>1, <2>2
    <3> QED
      BY <2>1, <2>2, <3>1, <3>2
  <2>5. ASSUME NEW k \in 1 .. n PROVE BatchFits(L, batch_size, k)
    <3> DEFINE p == (k - 1) * M
               q == k * M
               size == IF q <= L THEN M ELSE L - p
    <3>1. p < L /\ q = p + M /\ p \in Nat
      BY <2>4
    <3>2. BatchStart(batch_size, k) = p /\ BatchRows(L, batch_size, k) = size
      BY <1>2 DEF BatchStart, BatchRows, M
    <3> HIDE DEF p, q
    <3>3. p \in Nat /\ size \in Nat /\ size > 0 /\ p + size <= L
      BY <2>1, <3>1
    <3> HIDE DEF size
    <3> QED
      BY <3>2, <3>3 DEF BatchFits
  <2>6. BatchCount(L, batch_size) = n
    BY <1>2 DEF BatchCount, n, M
  <2> QED
    BY <2>2, <2>3, <2>5, <2>6
<1> QED
  BY <1>1, <1>2

\* A batch has its part of the data.
IsBatch(batch, data, start, rows) ==
  /\ batch = [k \in 1 .. rows |-> batch[k]]
  /\ \A k \in 1 .. rows : batch[k] = data[start + k] /\ start + k \in DOMAIN data

\* df_to_csv cuts a column into its batches.
LEMMA BatchesAreCut ==
  ASSUME NEW S, NEW data \in Seq(S), NEW L, L = Len(data), L > 0, NEW batch_size \in Nat
  PROVE  /\ DOMAIN Batches(data, batch_size) = 1 .. BatchCount(L, batch_size)
         /\ \A b \in 1 .. BatchCount(L, batch_size) :
              /\ IsBatch(Batches(data, batch_size)[b], data,
                         BatchStart(batch_size, b), BatchRows(L, batch_size, b))
              /\ Batches(data, batch_size)[b] \in Seq(S)
              /\ Len(Batches(data, batch_size)[b]) = BatchRows(L, batch_size, b)
<1>1. L \in Nat /\ DOMAIN data = 1 .. L /\ data = [k \in 1 .. L |-> data[k]]
  OBVIOUS
<1>2. CASE batch_size = 0
  <2>1. data # <<>>
    OBVIOUS
  <2>2. Batches(data, batch_size) = <<data>>
    BY <1>2, <2>1 DEF Batches
  <2>3. IsBatch(data, data, 0, L)
    BY <1>1 DEF IsBatch
  <2>4. BatchCount(L, batch_size) = 1 /\ \A b : BatchStart(batch_size, b) = 0 /\ BatchRows(L, batch_size, b) = L
    BY <1>2 DEF BatchCount, BatchStart, BatchRows
  <2>5. DOMAIN <<data>> = 1 .. 1 /\ <<data>>[1] = data /\ \A b \in 1 .. 1 : b = 1
    OBVIOUS
  <2> QED
    BY <2>2, <2>3, <2>4, <2>5
<1>3. CASE batch_size # 0
  <2> DEFINE M == batch_size
             n == BatchCount(L, M)
             cut(b) == SubSeq(data, (b - 1) * M + 1, Min({b * M, L}))
  <2>1. M \in Nat /\ M > 0
    BY <1>3
  <2>2. n = (L + M - 1) \div M
    BY <1>3 DEF BatchCount
  <2>3. Batches(data, M) = [b \in 1 .. n |-> cut(b)]
    BY <1>3, <2>2 DEF Batches
  <2>4. n \in Nat /\ \A b \in 1 .. n : BatchFits(L, M, b)
    BY <1>1, <2>1, BatchesFit
  <2> HIDE DEF n, M
  <2>5. ASSUME NEW b \in 1 .. n
        PROVE  /\ IsBatch(cut(b), data, BatchStart(M, b), BatchRows(L, M, b))
               /\ cut(b) \in Seq(S) /\ Len(cut(b)) = BatchRows(L, M, b)
    <3> DEFINE p == (b - 1) * M
               q == b * M
               rows == BatchRows(L, M, b)
    <3>0. b \in Nat /\ b > 0
      BY <2>4
    <3>1. q = p + M /\ p \in Nat /\ q \in Nat
      BY <2>1, <3>0
    <3>2. Min({q, L}) = IF q <= L THEN q ELSE L
      BY <1>1, <3>1, TheSmaller
    <3>3. BatchStart(M, b) = p /\ rows = IF q <= L THEN M ELSE L - p
      BY <2>1 DEF BatchStart, BatchRows
    <3>4. p \in Nat /\ rows \in Nat /\ rows > 0 /\ p + rows <= L
      <4>1. BatchFits(L, M, b)
        BY <2>4
      <4> HIDE DEF p, rows
      <4> QED
        BY <3>3, <4>1 DEF BatchFits, rows
    <3>5. cut(b) = SubSeq(data, p + 1, Min({q, L}))
      OBVIOUS
    <3> HIDE DEF p, q, rows, cut
    <3>6. Min({q, L}) = p + rows
      <4>1. rows = IF q <= L THEN M ELSE L - p
        BY <3>3
      <4>2. CASE q <= L
        BY ONLY <3>1, <3>2, <4>1, <4>2
      <4>3. CASE ~ (q <= L)
        <5>1. Min({q, L}) = L /\ rows = L - p
          BY ONLY <3>2, <4>1, <4>3
        <5>2. p + (L - p) = L
          BY ONLY <1>1, <3>1
        <5> QED
          BY ONLY <5>1, <5>2
      <4> QED
        BY ONLY <4>2, <4>3
    <3>7. cut(b) = SubSeq(data, p + 1, p + rows)
      BY <3>5, <3>6
    <3>8. /\ cut(b) \in Seq(S) /\ Len(cut(b)) = rows
          /\ \A k \in 1 .. rows : cut(b)[k] = data[p + k] /\ p + k \in 1 .. L
      <4>1. p + rows <= Len(data) /\ p \in Nat /\ rows \in Nat
        BY <3>4
      <4> QED
        BY ONLY <3>7, <4>1, L = Len(data), data \in Seq(S), PartOfSequence
    <3>9. cut(b) = [k \in 1 .. rows |-> cut(b)[k]]
      BY ONLY <3>4, <3>8
    <3>10. IsBatch(cut(b), data, p, rows)
      BY <1>1, <3>8, <3>9 DEF IsBatch
    <3> QED
      BY <3>3, <3>8, <3>10 DEF rows
  <2> HIDE DEF cut
  <2>6. DOMAIN Batches(data, M) = 1 .. n /\ \A b \in 1 .. n : Batches(data, M)[b] = cut(b)
    BY <2>3
  <2> QED
    BY <2>5, <2>6 DEF n, M
<1> QED
  BY <1>2, <1>3

\* What the texts of some of the cells of a column say.
CellsFrom(c, start, m) == [k \in 1 .. m |-> InText(c)[start + k]]

\* A data frame that has been read from some of the rows of d.
ReadsRows(f, d, start, m) ==
  /\ \A role \in Range(AllRoles) :
       f[role] = [i \in DOMAIN SchemaOf(d)[role] |-> NamedColumn(SchemaOf(d)[role][i], f[role][i].data)]
  /\ \A c \in Range(Columns(d)) : \A i \in DOMAIN SchemaOf(d)[ReadingRole(c)] :
       SchemaOf(d)[ReadingRole(c)][i] = c.col.name =>
         f[ReadingRole(c)][i].data = CellsFrom(c, start, m)

\* Names do not change the data.
LEMMA NamesKeepData ==
  ASSUME NEW names, NEW data, NEW cols, cols = [i \in DOMAIN names |-> NamedColumn(names[i], data[i])]
  PROVE  /\ cols = [i \in DOMAIN names |-> NamedColumn(names[i], cols[i].data)]
         /\ \A i \in DOMAIN names : cols[i].data = data[i]
<1>1. \A i \in DOMAIN names : cols[i] = NamedColumn(names[i], data[i])
  BY Zenon
<1>2. \A i \in DOMAIN names : cols[i].data = data[i]
  BY <1>1, ColumnIsNamed, Zenon
<1>3. \A i \in DOMAIN names : NamedColumn(names[i], data[i]) = NamedColumn(names[i], cols[i].data)
  BY <1>2, Zenon
<1>4. cols = [i \in DOMAIN names |-> NamedColumn(names[i], cols[i].data)]
  BY <1>3, Zenon
<1> QED
  BY <1>2, <1>4

\* What is found of the rows of a data frame.
FindsCells(used, d, start, m) ==
  /\ DOMAIN used = 1 .. m
  /\ \A k \in 1 .. m : used[k] = FrameLine(d, start + k) /\ start + k \in 1 .. row_count(d)

\* A data frame that is read from a file has the cells of the rows in it.
LEMMA RowsRead ==
  ASSUME NEW d, IsDataFrame(d), FitsText(d), NEW time_formats, ReadsTimes(time_formats),
         NEW reader, NEW skip, NEW start \in Nat, NEW m \in Nat,
         colnames(reader).line = ColumnNames(d),
         LET left == rest(skip_lines(colnames(reader).reader, skip))
         IN  FindsCells(Kept(left, {line \in Range(left) : line # <<>> /\ Len(line) = Len(ColumnNames(d))}),
                        d, start, m),
         from_reader(reader, skip, time_formats, SchemaOf(d)) # Failure
  PROVE  ReadsRows(from_reader(reader, skip, time_formats, SchemaOf(d)), d, start, m)
<1> DEFINE schema == SchemaOf(d)
           names == ColumnNames(d)
           f == from_reader(reader, skip, time_formats, schema)
           opened == colnames(reader)
           left == rest(skip_lines(opened.reader, skip))
           lines == Kept(left, {line \in Range(left) : line # <<>> /\ Len(line) = Len(opened.line)})
           all == concat_colnames(schema)
           roles == roles_of(schema)
           at(k) == IndexOf(opened.line, all[k])
           place(role, i) == Before(schema, role) + i
           colname_indices == [k \in DOMAIN all |-> at(k)]
           OfLine(k, line) == cell(roles[k], line[colname_indices[k]], time_formats)
           data == [role \in Range(AllRoles) |-> [i \in DOMAIN schema[role] |->
                      [n \in DOMAIN lines |-> OfLine(place(role, i), lines[n])]]]
<1>1. opened.line = names
  OBVIOUS
<1>2. FindsCells(lines, d, start, m)
  BY <1>1
<1>3. ASSUME NEW role \in Range(AllRoles)
      PROVE  f[role] = [i \in DOMAIN schema[role] |-> NamedColumn(schema[role][i], data[role][i])]
  <2>1. f[role] = [i \in DOMAIN schema[role] |->
                     NamedColumn(schema[role][i], [n \in DOMAIN lines |-> OfLine(place(role, i), lines[n])])]
    <3>1. from_reader(reader, skip, time_formats, schema) # Failure
      OBVIOUS
    <3> HIDE DEF schema
    <3> QED
      BY ONLY <3>1 DEF from_reader, Vectors, Before
  <2> HIDE DEF schema, lines, OfLine, f
  <2> QED
    BY <2>1
<1> HIDE DEF lines
<1>4. ASSUME NEW c \in Range(Columns(d)),
             NEW i \in DOMAIN schema[ReadingRole(c)], schema[ReadingRole(c)][i] = c.col.name
      PROVE  data[ReadingRole(c)][i] = CellsFrom(c, start, m)
  <2> DEFINE role == ReadingRole(c)
             k == place(role, i)
             L == row_count(d)
  <2>1. k \in DOMAIN all /\ all[k] = c.col.name /\ roles[k] = role
    BY <1>4, PlaceRead
  <2>2. at(k) \in DOMAIN Columns(d) /\ Columns(d)[at(k)] = c
    <3>1. IndexOf(names, c.col.name) \in DOMAIN Columns(d) /\ Columns(d)[IndexOf(names, c.col.name)] = c
      <4>1. names = [j \in DOMAIN Columns(d) |-> Columns(d)[j].col.name]
        BY DEF ColumnNames
      <4> HIDE DEF names
      <4> QED
        BY ONLY <4>1, IsDataFrame(d), c \in Range(Columns(d)), ColumnAt
    <3>2. at(k) = IndexOf(names, c.col.name)
      BY <1>1, <2>1
    <3> HIDE DEF at, names
    <3> QED
      BY ONLY <3>1, <3>2
  <2>3. \A n \in 1 .. m : lines[n][at(k)] = WrittenCell(c, start + n) /\ start + n \in 1 .. L
    BY <1>2, <2>2 DEF FindsCells, FrameLine
  <2>4. colname_indices[k] = at(k)
    BY <2>1
  <2>5. role \in Range(AllRoles) /\ i \in DOMAIN schema[role]
    BY RolesRead
  <2>6. DOMAIN c.col.data = 1 .. L /\ IsColumn(c)
        /\ \A n \in 1 .. L : InText(c)[n] = AsText(c, c.col.data[n])
    BY RowCount, FrameColumns DEF InText
  <2>7. ASSUME NEW n \in 1 .. m
        PROVE  cell(role, WrittenCell(c, start + n), time_formats) = InText(c)[start + n]
    <3>1. start + n \in DOMAIN c.col.data
      BY <2>3, <2>6
    <3>2. IsColumn(c)
      BY <2>6
    <3>3. InText(c)[start + n] = AsText(c, c.col.data[start + n])
      BY <2>3, <2>6
    <3> QED
      BY ONLY <3>1, <3>2, <3>3, ReadsTimes(time_formats), WrittenCellRead
  <2>8. data[role][i] = [n \in 1 .. m |-> OfLine(k, lines[n])]
    BY <1>2, <2>5 DEF FindsCells
  <2> HIDE DEF k, role, data, L, colname_indices, at
  <2>9. \A n \in 1 .. m : OfLine(k, lines[n]) = InText(c)[start + n]
    BY <2>1, <2>3, <2>4, <2>7
  <2> HIDE DEF OfLine
  <2>10. data[role][i] = CellsFrom(c, start, m)
    BY <2>8, <2>9 DEF CellsFrom
  <2> QED
    BY <2>10 DEF role
<1> HIDE DEF data, f
<1>5. \A role \in Range(AllRoles) :
        /\ f[role] = [i \in DOMAIN schema[role] |-> NamedColumn(schema[role][i], f[role][i].data)]
        /\ \A i \in DOMAIN schema[role] : f[role][i].data = data[role][i]
  <2>1. ASSUME NEW role \in Range(AllRoles)
        PROVE  /\ f[role] = [i \in DOMAIN schema[role] |-> NamedColumn(schema[role][i], f[role][i].data)]
               /\ \A i \in DOMAIN schema[role] : f[role][i].data = data[role][i]
    <3> DEFINE xs == schema[role]
               ys == data[role]
               cols == f[role]
    <3>1. cols = [i \in DOMAIN xs |-> NamedColumn(xs[i], ys[i])]
      BY <1>3
    <3> HIDE DEF xs, ys, cols
    <3>2. /\ cols = [i \in DOMAIN xs |-> NamedColumn(xs[i], cols[i].data)]
          /\ \A i \in DOMAIN xs : cols[i].data = ys[i]
      BY ONLY <3>1, NamesKeepData
    <3> QED
      BY ONLY <3>2 DEF xs, ys, cols
  <2> QED
    BY <2>1
<1>6. ASSUME NEW c \in Range(Columns(d)),
             NEW i \in DOMAIN schema[ReadingRole(c)], schema[ReadingRole(c)][i] = c.col.name
      PROVE  f[ReadingRole(c)][i].data = CellsFrom(c, start, m)
  <2>1. ReadingRole(c) \in Range(AllRoles)
    BY RolesRead
  <2> QED
    BY <1>4, <1>5, <1>6, <2>1
<1>7. ReadsRows(f, d, start, m)
  BY ONLY <1>5, <1>6, Zenon DEF ReadsRows, schema
<1> QED
  BY ONLY <1>7 DEF f, schema

-----------------------------------------------------------------------------
(* CSV files: data frames *)

\* The rows that are skipped and those up to the limit, as numbers.
LEMMA PartsOfRows ==
  ASSUME NEW s \in 0 .. 1, NEW l \in 0 .. 1, NEW R \in Nat, R > 0
  PROVE  /\ UpTo(s, l, R) - s \in Nat /\ UpTo(s, l, R) \in Nat
         /\ UpTo(s, l, R) <= R
         /\ LimitFor(s, l) \in Nat /\ (LimitFor(s, l) > 0 => LimitFor(s, l) > s + 1)
         /\ R + 2 > s + 1
<1>1. CASE l = 0
  BY <1>1 DEF UpTo, LimitFor
<1>2. CASE l = 1
  <2>1. CASE s + l <= R
    <3>1. Min({s + l, R}) = s + l
      BY <2>1 DEF Min
    <3> QED
      BY <1>2, <2>1, <3>1 DEF UpTo, LimitFor
  <2>2. CASE ~ (s + l <= R)
    <3>1. Min({s + l, R}) = R
      BY <2>2 DEF Min
    <3> QED
      BY <1>2, <2>2, <3>1 DEF UpTo, LimitFor
  <2> QED
    BY <2>1, <2>2
<1> QED
  BY <1>1, <1>2

\* The file of a batch is read as its rows, less the ones that are skipped and those
\* beyond the limit,
LEMMA BatchRead ==
  ASSUME NEW d, IsDataFrame(d), FitsText(d), FitsCSV(d), NEW time_formats, ReadsTimes(time_formats),
         NEW given, NEW skip, NEW s \in 0 .. 1, NEW l \in 0 .. 1,
         OpenedAs(given, skip, ColumnNames(d), s),
         NEW start \in Nat, NEW R \in Nat, R > 0, start + R <= row_count(d),
         NEW batch \in Seq(Seq(Seq(Tokens))), Len(batch) = R,
         \A k \in 1 .. R : batch[k] = FrameLine(d, start + k),
         NEW reader,
         reader = CSVReader(given, write(batch, ColumnNames(d), QUOTE, SEP), LimitFor(s, l), QUOTE, SEP),
         from_reader(reader, skip, time_formats, SchemaOf(d)) # Failure
  PROVE  ReadsRows(from_reader(reader, skip, time_formats, SchemaOf(d)), d,
                   start + s, UpTo(s, l, R) - s)
<1> DEFINE names == ColumnNames(d)
           lines == lines_of(write(batch, names, QUOTE, SEP))
           limit == LimitFor(s, l)
           m == UpTo(s, l, R) - s
           left == rest(ReaderAt(given, lines, limit, s + 1))
<1>1. PICK n \in Nat : n = Len(Columns(d)) /\ DOMAIN Columns(d) = 1 .. n
  BY CountColumns
<1>2. n > 0 /\ row_count(d) \in Nat
  <2>1. row_count(d) > 0
    BY DEF FitsCSV
  <2>2. Columns(d) # <<>> /\ row_count(d) \in Nat
    BY ONLY <2>1, IsDataFrame(d), RowCount
  <2>3. n = 0 => Columns(d) = <<>>
    <3>1. ASSUME n = 0 PROVE DOMAIN Columns(d) = {}
      BY <1>1, <3>1
    <3>2. \E T : Columns(d) \in Seq(T)
      BY FrameColumns
    <3> HIDE DEF Columns
    <3> QED
      BY <3>1, <3>2
  <2> QED
    BY <2>2, <2>3
<1>3. \A k \in 1 .. R : start + k \in 1 .. row_count(d)
  BY <1>2
<1>4. \A r : r.quotechar_ = QUOTE =>
               /\ IsLine(names, r, n, Tokens)
               /\ \A k \in 1 .. R : IsLine(batch[k], r, n, Tokens)
  BY <1>1, <1>2, <1>3, NamesAreLine, RowIsLine
<1>5. FindsRows(lines, given, limit, names, batch, R)
  <2> HIDE DEF names, limit
  <2> QED
    BY <1>2, <1>4, RowsFound
<1>6. reader = ReaderAt(given, lines, limit, 0)
  BY DEF CSVReader, ReaderAt
<1>7. /\ m \in Nat /\ limit \in Nat /\ (limit > 0 => limit > s + 1) /\ R + 2 > s + 1
  BY PartsOfRows
<1>8. Len(lines) \in Nat /\ Len(lines) > s + 1 /\ FieldsAt(given, lines, limit, 0) = names
  BY <1>5, <1>7 DEF FindsRows
<1>9. /\ colnames(reader).line = names
      /\ skip_lines(colnames(reader).reader, skip) = ReaderAt(given, lines, limit, s + 1)
  <2>1. OpenedAs(given, skip, names, s)
    OBVIOUS
  <2>2. limit \in Nat /\ (limit > 0 => limit > s + 1)
    BY <1>7
  <2> HIDE DEF names, limit, lines
  <2>3. /\ colnames(ReaderAt(given, lines, limit, 0)).line = names
        /\ skip_lines(colnames(ReaderAt(given, lines, limit, 0)).reader, skip)
           = ReaderAt(given, lines, limit, s + 1)
    BY ONLY <1>8, <2>1, <2>2, s \in 0 .. 1, ReaderOpens
  <2> QED
    BY ONLY <1>6, <2>3
<1>10. \A k \in 1 .. R : Len(batch[k]) = n
  BY <1>2, <1>3, <1>1, RowIsTyped
<1>11. UsesRows(left, n, batch, s, m, R)
  <2>1. n \in Nat /\ n > 0 /\ R \in Nat /\ R > 0 /\ Len(batch) = R
    BY <1>2
  <2>2. s \in 0 .. 1 /\ l \in 0 .. 1 /\ batch \in Seq(Seq(Seq(Tokens)))
    OBVIOUS
  <2> HIDE DEF names, lines
  <2> QED
    BY ONLY <2>1, <2>2, <1>5, <1>10, LinesAreUsed, Zenon
<1>12. Len(names) = n
  BY <1>1 DEF ColumnNames
<1>13. LET used == Kept(left, {line \in Range(left) : line # <<>> /\ Len(line) = Len(names)})
       IN  FindsCells(used, d, start + s, m)
  <2> DEFINE used == Kept(left, {line \in Range(left) : line # <<>> /\ Len(line) = n})
  <2>1. /\ DOMAIN used = 1 .. m
        /\ \A i \in 1 .. m : used[i] = batch[s + i] /\ s + i \in 1 .. R
    BY <1>11 DEF UsesRows
  <2> HIDE DEF used, m, left, names
  <2>2. ASSUME NEW i \in 1 .. m
        PROVE  used[i] = FrameLine(d, (start + s) + i) /\ (start + s) + i \in 1 .. row_count(d)
    <3>1. (start + s) + i = start + (s + i)
      BY <1>7
    <3>2. used[i] = batch[s + i] /\ s + i \in 1 .. R
      BY <2>1
    <3> QED
      BY <1>3, <3>1, <3>2
  <2>3. FindsCells(used, d, start + s, m)
    BY <2>1, <2>2 DEF FindsCells
  <2> QED
    BY <1>12, <2>3 DEF used
<1> QED
  <2>1. start + s \in Nat
    OBVIOUS
  <2>2. LET rows == rest(skip_lines(colnames(reader).reader, skip))
        IN  FindsCells(Kept(rows, {line \in Range(rows) : line # <<>> /\ Len(line) = Len(ColumnNames(d))}),
                       d, start + s, m)
    BY <1>9, <1>13
  <2>3. colnames(reader).line = ColumnNames(d)
    BY <1>9
  <2> HIDE DEF m
  <2>4. ReadsRows(from_reader(reader, skip, time_formats, SchemaOf(d)), d, start + s, m)
    BY <1>7, <2>1, <2>2, <2>3, RowsRead
  <2> QED
    BY <2>4 DEF m

IsPart(part, data, start, m) == part = [k \in 1 .. m |-> data[start + k]]

\* which are a part of the column.
LEMMA PartOfBatch ==
  ASSUME NEW S, NEW batch \in Seq(S), NEW R \in Nat, R > 0, Len(batch) = R,
         NEW data, NEW start \in Nat, IsBatch(batch, data, start, R),
         NEW s \in 0 .. 1, NEW l \in 0 .. 1
  PROVE  IsPart(SubSeq(batch, s + 1, UpTo(s, l, R)), data, start + s, UpTo(s, l, R) - s)
<1> DEFINE up == UpTo(s, l, R)
           m == up - s
           part == SubSeq(batch, s + 1, s + m)
<1>1. m \in Nat /\ up \in Nat /\ s + m <= R /\ s + m = up /\ s \in Nat
  <2>1. up \in Nat /\ up - s \in Nat /\ up <= R
    BY PartsOfRows
  <2> HIDE DEF up
  <2> QED
    BY <2>1
<1> HIDE DEF up
<1>2. /\ part \in Seq(S) /\ Len(part) = m
      /\ \A k \in 1 .. m : part[k] = batch[s + k] /\ s + k \in 1 .. R
  <2> HIDE DEF m
  <2> QED
    BY <1>1, PartOfSequence
<1> HIDE DEF part, m
<1>3. ASSUME NEW k \in 1 .. m
      PROVE  part[k] = data[(start + s) + k]
  <2>1. batch[s + k] = data[start + (s + k)]
    BY <1>2 DEF IsBatch
  <2>2. start + (s + k) = (start + s) + k
    BY <1>1
  <2> QED
    BY <1>2, <2>1, <2>2
<1>4. part = [k \in 1 .. m |-> data[(start + s) + k]]
  BY <1>2, <1>3
<1> QED
  BY <1>1, <1>4 DEF part, m, up, IsPart

\* What should be left of a column is joined of such parts.
LEMMA CellsKept ==
  ASSUME NEW d, IsDataFrame(d), row_count(d) > 0, NEW c \in Range(Columns(d)),
         NEW batch_size \in Nat, NEW s \in 0 .. 1, NEW l \in 0 .. 1
  PROVE  LinesKept(InText(c), batch_size, s, l) =
           FlattenSeq([b \in 1 .. BatchCount(row_count(d), batch_size) |->
                         CellsFrom(c, BatchStart(batch_size, b) + s,
                                   UpTo(s, l, BatchRows(row_count(d), batch_size, b)) - s)])
<1> DEFINE L == row_count(d)
           data == InText(c)
           batches == Batches(data, batch_size)
           B == BatchCount(L, batch_size)
           start(b) == BatchStart(batch_size, b)
           R(b) == BatchRows(L, batch_size, b)
           part(b) == SubSeq(batches[b], s + 1,
                             IF l = 0 THEN Len(batches[b]) ELSE Min({s + l, Len(batches[b])}))
           cells(b) == CellsFrom(c, start(b) + s, UpTo(s, l, R(b)) - s)
<1>0. L \in Nat /\ L = Len(data) /\ L > 0 /\ data = [n \in 1 .. L |-> data[n]]
  <2>1. L \in Nat /\ DOMAIN c.col.data = 1 .. L
    BY RowCount
  <2>2. data = [n \in 1 .. L |-> AsText(c, c.col.data[n])]
    BY <2>1 DEF InText
  <2> HIDE DEF data, L
  <2> QED
    BY <2>1, <2>2 DEF L
<1>1. L \in Nat /\ L = Len(data) /\ L > 0
  <2> HIDE DEF data, L
  <2> QED
    BY <1>0
<1>2. \E S : data \in Seq(S)
  <2> DEFINE S == {data[n] : n \in 1 .. L}
  <2>1. \A n \in 1 .. L : data[n] \in S
    OBVIOUS
  <2> HIDE DEF data, L, S
  <2>2. data \in Seq(S)
    BY ONLY <1>0, <2>1, SequenceOf
  <2> QED
    BY <2>2
<1>3. PICK S : data \in Seq(S)
  BY <1>2
<1>4. /\ DOMAIN batches = 1 .. B
      /\ \A b \in 1 .. B : /\ IsBatch(batches[b], data, start(b), R(b))
                           /\ batches[b] \in Seq(S) /\ Len(batches[b]) = R(b)
  <2> HIDE DEF data, L
  <2> QED
    BY <1>1, <1>3, BatchesAreCut
<1>5. \A b \in 1 .. B : BatchFits(L, batch_size, b)
  BY <1>1, BatchesFit
<1> HIDE DEF L, data, batches, B
<1>6. ASSUME NEW b \in 1 .. B
      PROVE  part(b) = cells(b)
  <2>1. start(b) \in Nat /\ R(b) \in Nat /\ R(b) > 0
    BY <1>5 DEF BatchFits
  <2>2. /\ IsBatch(batches[b], data, start(b), R(b))
        /\ batches[b] \in Seq(S) /\ Len(batches[b]) = R(b)
    BY <1>4
  <2>3. part(b) = SubSeq(batches[b], s + 1, UpTo(s, l, R(b)))
    BY <2>2 DEF UpTo
  <2> HIDE DEF part, start, R
  <2>4. IsPart(SubSeq(batches[b], s + 1, UpTo(s, l, R(b))), data, start(b) + s, UpTo(s, l, R(b)) - s)
    BY ONLY <2>1, <2>2, s \in 0 .. 1, l \in 0 .. 1, PartOfBatch
  <2>5. cells(b) = [k \in 1 .. UpTo(s, l, R(b)) - s |-> data[(start(b) + s) + k]]
    BY DEF CellsFrom, data
  <2> QED
    BY ONLY <2>3, <2>4, <2>5 DEF IsPart
<1>7. LinesKept(data, batch_size, s, l) = FlattenSeq([b \in DOMAIN batches |-> part(b)])
  BY DEF LinesKept, batches
<1> HIDE DEF part, cells
<1>8. [b \in DOMAIN batches |-> part(b)] = [b \in 1 .. B |-> cells(b)]
  BY <1>4, <1>6
<1>9. LinesKept(data, batch_size, s, l) = FlattenSeq([b \in 1 .. B |-> cells(b)])
  BY ONLY <1>7, <1>8
<1> QED
  BY ONLY <1>9 DEF data, B, L, cells, start, R

\* A record with another data,
LEMMA FieldReplaced ==
  \A name, unit, x, y :
    [[name |-> name, unit |-> unit, data |-> x] EXCEPT !.data = y] =
      [name |-> name, unit |-> unit, data |-> y]
OBVIOUS

\* and a column.
LEMMA DataReplaced == \A name, x, y : [NamedColumn(name, x) EXCEPT !.data = y] = NamedColumn(name, y)
BY FieldReplaced, Zenon DEF NamedColumn

\* All that has been read of a column, from one file after the other.
AppendedCells(c, B, start, m) == FlattenSeq([b \in 1 .. B |-> CellsFrom(c, start[b], m[b])])

\* Data frames of files are appended column by column.
LEMMA FramesAppended ==
  ASSUME NEW d, IsDataFrame(d), NEW B \in Nat, B > 0, NEW dfs, DOMAIN dfs = 1 .. B,
         NEW start, NEW m, \A b \in 1 .. B : ReadsRows(dfs[b], d, start[b], m[b])
  PROVE  HoldsColumns(Appended(dfs), d,
                      [c \in Range(Columns(d)) |-> AppendedCells(c, B, start, m)])
<1> DEFINE schema == SchemaOf(d)
           f == Appended(dfs)
           joined(role, i) == FlattenSeq([n \in DOMAIN dfs |-> dfs[n][role][i].data])
           data == [role \in Range(AllRoles) |-> [i \in DOMAIN schema[role] |-> joined(role, i)]]
           want == [c \in Range(Columns(d)) |-> AppendedCells(c, B, start, m)]
<1>1. ASSUME NEW role \in Range(AllRoles)
      PROVE  f[role] = [i \in DOMAIN schema[role] |-> NamedColumn(schema[role][i], data[role][i])]
  <2> DEFINE first == dfs[1][role]
             names == schema[role]
             old == [i \in DOMAIN names |-> first[i].data]
  <2>1. first = [i \in DOMAIN names |-> NamedColumn(names[i], first[i].data)]
    BY 1 \in 1 .. B DEF ReadsRows
  <2>2. f[role] = [i \in DOMAIN first |-> [first[i] EXCEPT !.data = joined(role, i)]]
    <3> HIDE DEF joined
    <3> QED
      BY DEF Appended, joined
  <2>3. data[role] = [i \in DOMAIN names |-> joined(role, i)]
    <3> HIDE DEF joined, names
    <3> QED
      BY DEF names
  <2> HIDE DEF first, names, joined, f, data
  <2>4. DOMAIN first = DOMAIN names /\ \A i \in DOMAIN names : first[i] = NamedColumn(names[i], old[i])
    BY <2>1, Zenon
  <2> HIDE DEF old
  <2>5. \A i \in DOMAIN names :
          [first[i] EXCEPT !.data = joined(role, i)] = NamedColumn(names[i], joined(role, i))
    <3> TAKE i \in DOMAIN names
    <3>1. first[i] = NamedColumn(names[i], old[i])
      BY <2>4
    <3> QED
      BY ONLY <3>1, DataReplaced
  <2>6. f[role] = [i \in DOMAIN names |-> NamedColumn(names[i], data[role][i])]
    <3> DEFINE left == [i \in DOMAIN names |-> [first[i] EXCEPT !.data = joined(role, i)]]
    <3>1. f[role] = left
      BY ONLY <2>2, <2>4, Zenon
    <3>2. \A i \in DOMAIN names : left[i] = NamedColumn(names[i], data[role][i])
      BY ONLY <2>3, <2>5, Zenon
    <3> QED
      BY ONLY <3>1, <3>2, Zenon
  <2> QED
    BY ONLY <2>6 DEF names
<1>2. ASSUME NEW c \in Range(Columns(d)),
             NEW i \in DOMAIN schema[ReadingRole(c)], schema[ReadingRole(c)][i] = c.col.name
      PROVE  data[ReadingRole(c)][i] = want[c]
  <2> DEFINE role == ReadingRole(c)
  <2>1. role \in Range(AllRoles)
    BY RolesRead
  <2>2. data[role][i] = FlattenSeq([b \in 1 .. B |-> dfs[b][role][i].data])
    BY <2>1
  <2>3. \A b \in 1 .. B : dfs[b][role][i].data = CellsFrom(c, start[b], m[b])
    BY <1>2 DEF ReadsRows
  <2> HIDE DEF role, data
  <2>4. [b \in 1 .. B |-> dfs[b][role][i].data] = [b \in 1 .. B |-> CellsFrom(c, start[b], m[b])]
    BY ONLY <2>3
  <2>5. data[role][i] = AppendedCells(c, B, start, m)
    BY ONLY <2>2, <2>4 DEF AppendedCells
  <2>6. want[c] = AppendedCells(c, B, start, m)
    OBVIOUS
  <2> HIDE DEF want
  <2> QED
    BY ONLY <2>5, <2>6 DEF role
<1> HIDE DEF data, f, want
<1>3. \A role \in Range(AllRoles) :
        f[role] = [i \in DOMAIN SchemaOf(d)[role] |-> NamedColumn(SchemaOf(d)[role][i], data[role][i])]
  BY <1>1
<1>4. \A c \in Range(Columns(d)) : \A i \in DOMAIN SchemaOf(d)[ReadingRole(c)] :
        SchemaOf(d)[ReadingRole(c)][i] = c.col.name => data[ReadingRole(c)][i] = want[c]
  BY <1>2
<1>5. HoldsColumns(f, d, want)
  BY ONLY IsDataFrame(d), <1>3, <1>4, FrameHolds
<1> QED
  BY ONLY <1>5 DEF f, want

-----------------------------------------------------------------------------
(* CSV files: all files of a data frame *)

\* A text with a header and R rows of a data frame.
TextHas(text, d, start, R) ==
  \E batch \in Seq(Seq(Seq(Tokens))) :
    /\ Len(batch) = R /\ \A k \in 1 .. R : batch[k] = FrameLine(d, start + k)
    /\ text = write(batch, ColumnNames(d), QUOTE, SEP)

\* df_to_csv writes a file for every batch.
LEMMA TextsWritten ==
  ASSUME NEW d, IsDataFrame(d), FitsText(d), row_count(d) > 0, NEW batch_size \in Nat
  PROVE  /\ DOMAIN df_to_csv(d, batch_size, QUOTE, SEP) = 1 .. BatchCount(row_count(d), batch_size)
         /\ \A b \in 1 .. BatchCount(row_count(d), batch_size) :
              TextHas(df_to_csv(d, batch_size, QUOTE, SEP)[b], d,
                      BatchStart(batch_size, b), BatchRows(row_count(d), batch_size, b))
<1> DEFINE L == row_count(d)
           B == BatchCount(L, batch_size)
           reader == DataFrameReader(d, BELL)
           lines == reader.lines
           names == ColumnNames(d)
           batches == Batches(lines, batch_size)
           texts == df_to_csv(d, batch_size, QUOTE, SEP)
<1>1. reader.colnames = names
  BY RowsWritten DEF ColumnNames
<1>2. lines = [n \in 1 .. L |-> FrameLine(d, n)]
  <2>1. lines = [n \in 1 .. L |-> [i \in DOMAIN Columns(d) |-> WrittenCell(Columns(d)[i], n)]]
    BY RowsWritten
  <2> HIDE DEF lines
  <2> QED
    BY <2>1 DEF FrameLine
<1>3. lines \in Seq(Seq(Seq(Tokens))) /\ Len(lines) = L
  <2>1. PICK n \in Nat : DOMAIN Columns(d) = 1 .. n
    BY CountColumns
  <2>2. \A row \in 1 .. L : FrameLine(d, row) \in Seq(Seq(Tokens))
    BY <2>1, RowIsTyped
  <2>3. L \in Nat
    BY RowCount
  <2> HIDE DEF lines, L
  <2> QED
    BY <1>2, <2>2, <2>3
<1>4. /\ DOMAIN batches = 1 .. B
      /\ \A b \in 1 .. B : /\ IsBatch(batches[b], lines, BatchStart(batch_size, b), BatchRows(L, batch_size, b))
                           /\ batches[b] \in Seq(Seq(Seq(Tokens)))
                           /\ Len(batches[b]) = BatchRows(L, batch_size, b)
  <2> HIDE DEF lines, L
  <2> QED
    BY <1>3, BatchesAreCut DEF L
<1>5. texts = [b \in 1 .. B |-> write(batches[b], names, QUOTE, SEP)]
  <2>1. texts = [b \in DOMAIN batches |-> write(batches[b], reader.colnames, QUOTE, SEP)]
    BY DEF df_to_csv
  <2> HIDE DEF batches, texts, reader, names
  <2> QED
    BY ONLY <1>1, <1>4, <2>1
<1> HIDE DEF batches, texts, lines, L, B
<1>6. ASSUME NEW b \in 1 .. B
      PROVE  TextHas(texts[b], d, BatchStart(batch_size, b), BatchRows(L, batch_size, b))
  <2> DEFINE start == BatchStart(batch_size, b)
             R == BatchRows(L, batch_size, b)
             batch == batches[b]
  <2>1. batch \in Seq(Seq(Seq(Tokens))) /\ Len(batch) = R
    BY <1>4
  <2>2. ASSUME NEW k \in 1 .. R
        PROVE  batch[k] = FrameLine(d, start + k)
    <3>1. batch[k] = lines[start + k] /\ start + k \in DOMAIN lines
      BY <1>4 DEF IsBatch
    <3> HIDE DEF batch
    <3> QED
      BY <1>2, <3>1
  <2>3. texts[b] = write(batch, names, QUOTE, SEP)
    BY <1>5
  <2> HIDE DEF start, R, batch
  <2>4. TextHas(texts[b], d, start, R)
    BY <2>1, <2>2, <2>3 DEF TextHas
  <2> QED
    BY <2>4 DEF start, R
<1> QED
  BY ONLY <1>5, <1>6 DEF texts, L, B

\* A sign given as a string of one character.
LEMMA OneSign == \A x : Len(<<x>>) = 1 /\ <<x>>[1] = x
OBVIOUS

\* A data frame for every text, and no failure.
ReadsAll(dfs, given, texts, limit, skip, time_formats, schema) ==
  /\ dfs = [i \in DOMAIN texts |->
             from_reader(CSVReader(given, texts[i], limit, QUOTE, SEP), skip, time_formats, schema)]
  /\ \A i \in DOMAIN texts : dfs[i] # Failure

FromFiles(f, given, texts, l, skip, time_formats, schema) ==
  f = from_csv(given, texts, <<QUOTE>>, <<SEP>>, l, skip, time_formats, schema)

\* f consists of what is read of the texts.
IsAppended(f, given, texts, limit, skip, time_formats, schema) ==
  \E dfs : ReadsAll(dfs, given, texts, limit, skip, time_formats, schema) /\ f = Appended(dfs)

\* from_csv reads every text and appends what has been read.
LEMMA FilesAppended ==
  ASSUME NEW given, NEW texts, NEW skip, NEW names, NEW s \in 0 .. 1, NEW l \in 0 .. 1,
         OpenedAs(given, skip, names, s), NEW time_formats, NEW schema, texts # <<>>,
         NEW f, FromFiles(f, given, texts, l, skip, time_formats, schema), f # Failure
  PROVE  IsAppended(f, given, texts, LimitFor(s, l), skip, time_formats, schema)
<1> DEFINE wanted == IF l > 0 THEN l + skip ELSE l
           limit == IF given = <<>> /\ wanted > 0 THEN wanted + 1 ELSE wanted
           local_df(i) == from_reader(CSVReader(given, texts[i], limit, <<QUOTE>>[1], <<SEP>>[1]),
                                      skip, time_formats, schema)
           local_dfs == [i \in DOMAIN texts |-> local_df(i)]
           fails == Len(<<QUOTE>>) # 1 \/ Len(<<SEP>>) # 1 \/ Failure \in Range(local_dfs)
           none == [r \in Range(AllRoles) |-> <<>>]
<1>1. limit = LimitFor(s, l)
  BY DEF OpenedAs, LimitFor
<1>2. <<QUOTE>>[1] = QUOTE /\ <<SEP>>[1] = SEP
  BY OneSign
<1>3. f = IF fails THEN Failure ELSE IF texts = <<>> THEN none ELSE Appended(local_dfs)
  <2>1. f = from_csv(given, texts, <<QUOTE>>, <<SEP>>, l, skip, time_formats, schema)
    BY DEF FromFiles
  <2> QED
    BY ONLY <2>1, Zenon DEF from_csv
<1> HIDE DEF none
<1>4. ~ (Failure \in Range(local_dfs)) /\ f = Appended(local_dfs)
  <2> HIDE DEF local_dfs
  <2> DEFINE g == Appended(local_dfs)
  <2>1. f = IF fails THEN Failure ELSE IF texts = <<>> THEN none ELSE g
    BY ONLY <1>3
  <2>2. f # Failure
    OBVIOUS
  <2> HIDE DEF g
  <2>3. ~ fails /\ f = g
    BY ONLY <2>1, <2>2, texts # <<>>
  <2> QED
    BY ONLY <2>3 DEF g
<1>5. \A i \in DOMAIN texts : local_dfs[i] # Failure
  <2>1. DOMAIN local_dfs = DOMAIN texts
    OBVIOUS
  <2> HIDE DEF local_dfs
  <2> QED
    BY ONLY <1>4, <2>1 DEF Range
<1>6. local_dfs = [i \in DOMAIN texts |->
                     from_reader(CSVReader(given, texts[i], LimitFor(s, l), QUOTE, SEP),
                                 skip, time_formats, schema)]
  <2> HIDE DEF limit
  <2> QED
    BY ONLY <1>1, <1>2, Zenon
<1> HIDE DEF local_dfs
<1>7. ReadsAll(local_dfs, given, texts, LimitFor(s, l), skip, time_formats, schema)
  BY ONLY <1>5, <1>6 DEF ReadsAll
<1> QED
  BY ONLY <1>4, <1>7 DEF IsAppended

\* What is kept of a data frame in CSV files.
KeptOf(d, batch_size, s, l) ==
  {<<c.col.name, LinesKept(InText(c), batch_size, s, l)>> : c \in Range(Columns(d))}

\* from_csv reads the cells that should be kept from the files that df_to_csv has
\* written.
LEMMA FilesRead ==
  ASSUME NEW d, IsDataFrame(d), FitsText(d), FitsCSV(d), NEW batch_size \in Nat,
         NEW given, NEW skip, NEW s \in 0 .. 1, NEW l \in 0 .. 1,
         OpenedAs(given, skip, ColumnNames(d), s),
         NEW time_formats, ReadsTimes(time_formats),
         NEW f, f = from_csv(given, df_to_csv(d, batch_size, QUOTE, SEP), <<QUOTE>>, <<SEP>>, l, skip,
                             time_formats, SchemaOf(d)),
         f # Failure
  PROVE  CellsOf(f) = KeptOf(d, batch_size, s, l)
<1> DEFINE L == row_count(d)
           B == BatchCount(L, batch_size)
           texts == df_to_csv(d, batch_size, QUOTE, SEP)
           start == [b \in 1 .. B |-> BatchStart(batch_size, b) + s]
           m == [b \in 1 .. B |-> UpTo(s, l, BatchRows(L, batch_size, b)) - s]
           want == [c \in Range(Columns(d)) |-> AppendedCells(c, B, start, m)]
           schema == SchemaOf(d)
<1>1. L \in Nat /\ L > 0
  BY RowCount DEF FitsCSV
<1>2. B \in Nat /\ B > 0 /\ \A b \in 1 .. B : BatchFits(L, batch_size, b)
  BY <1>1, BatchesFit
<1>3. /\ DOMAIN texts = 1 .. B
      /\ \A b \in 1 .. B : TextHas(texts[b], d, BatchStart(batch_size, b), BatchRows(L, batch_size, b))
  BY <1>1, TextsWritten
<1> HIDE DEF L, B, texts, schema
<1>4. texts # <<>>
  BY <1>2, <1>3
<1>5. PICK dfs : /\ ReadsAll(dfs, given, texts, LimitFor(s, l), skip, time_formats, schema)
                 /\ f = Appended(dfs)
  <2>1. FromFiles(f, given, texts, l, skip, time_formats, schema)
    BY DEF texts, schema, FromFiles
  <2>2. IsAppended(f, given, texts, LimitFor(s, l), skip, time_formats, schema)
    BY ONLY <1>4, <2>1, f # Failure, OpenedAs(given, skip, ColumnNames(d), s),
            s \in 0 .. 1, l \in 0 .. 1, FilesAppended
  <2> QED
    BY ONLY <2>2 DEF IsAppended
<1>6. ASSUME NEW b \in 1 .. B
      PROVE  ReadsRows(dfs[b], d, start[b], m[b])
  <2> DEFINE R == BatchRows(L, batch_size, b)
             first == BatchStart(batch_size, b)
  <2>1. PICK batch \in Seq(Seq(Seq(Tokens))) :
          /\ Len(batch) = R /\ \A k \in 1 .. R : batch[k] = FrameLine(d, first + k)
          /\ texts[b] = write(batch, ColumnNames(d), QUOTE, SEP)
    BY <1>3 DEF TextHas
  <2>2. first \in Nat /\ R \in Nat /\ R > 0 /\ first + R <= row_count(d)
    BY <1>2 DEF BatchFits, L
  <2> DEFINE reader == CSVReader(given, texts[b], LimitFor(s, l), QUOTE, SEP)
  <2>3. dfs[b] = from_reader(reader, skip, time_formats, schema) /\ dfs[b] # Failure
    BY <1>3, <1>5 DEF ReadsAll
  <2>4. start[b] = first + s /\ m[b] = UpTo(s, l, R) - s
    OBVIOUS
  <2>5. reader = CSVReader(given, write(batch, ColumnNames(d), QUOTE, SEP), LimitFor(s, l), QUOTE, SEP)
    BY <2>1
  <2> HIDE DEF R, first, reader, start, m
  <2>6. from_reader(reader, skip, time_formats, SchemaOf(d)) # Failure
    BY <2>3 DEF schema
  <2>7. ReadsRows(from_reader(reader, skip, time_formats, SchemaOf(d)), d, first + s, UpTo(s, l, R) - s)
    BY <2>1, <2>2, <2>5, <2>6, BatchRead
  <2> QED
    BY <2>3, <2>4, <2>7 DEF schema
<1>7. HoldsColumns(f, d, want)
  <2>1. DOMAIN dfs = 1 .. B
    BY ONLY <1>3, <1>5 DEF ReadsAll
  <2> HIDE DEF start, m
  <2>2. HoldsColumns(Appended(dfs), d, want)
    BY ONLY <1>2, <1>6, <2>1, IsDataFrame(d), FramesAppended
  <2> QED
    BY ONLY <1>5, <2>2
<1>8. ASSUME NEW c \in Range(Columns(d))
      PROVE  want[c] = LinesKept(InText(c), batch_size, s, l)
  <2>1. want[c] = AppendedCells(c, B, start, m)
    OBVIOUS
  <2> HIDE DEF want
  <2>2. [b \in 1 .. B |-> CellsFrom(c, start[b], m[b])] =
        [b \in 1 .. B |-> CellsFrom(c, BatchStart(batch_size, b) + s,
                                     UpTo(s, l, BatchRows(L, batch_size, b)) - s)]
    OBVIOUS
  <2> HIDE DEF start, m
  <2>3. want[c] = FlattenSeq([b \in 1 .. B |-> CellsFrom(c, BatchStart(batch_size, b) + s,
                                     UpTo(s, l, BatchRows(L, batch_size, b)) - s)])
    BY ONLY <2>1, <2>2 DEF AppendedCells
  <2>4. row_count(d) > 0
    BY <1>1 DEF L
  <2> QED
    BY <2>3, <2>4, CellsKept DEF B, L
<1>9. CellsOf(f) = {<<c.col.name, want[c]>> : c \in Range(Columns(d))}
  <2> HIDE DEF want
  <2> QED
    BY ONLY <1>7, IsDataFrame(d), CellsFound
<1>10. CellsOf(f) = {<<c.col.name, LinesKept(InText(c), batch_size, s, l)>> : c \in Range(Columns(d))}
  <2> HIDE DEF want
  <2> QED
    BY ONLY <1>8, <1>9
<1> QED
  BY ONLY <1>10 DEF KeptOf

\* The names of the columns in the order of the roles.
LEMMA NamesInOrder ==
  ASSUME NEW d, IsDataFrame(d)
  PROVE  concat_colnames([r \in Range(AllRoles) |-> [i \in DOMAIN d[r] |-> d[r][i].name]]) = ColumnNames(d)
<1> DEFINE P == [k \in 1 .. 8 |->
                   [i \in DOMAIN d[AllRoles[k]] |-> [role |-> AllRoles[k], col |-> d[AllRoles[k]][i]]]]
           Q == [k \in 1 .. 8 |-> [i \in DOMAIN d[AllRoles[k]] |-> d[AllRoles[k]][i].name]]
<1>1. PICK S : \A role \in Range(AllRoles) : d[role] \in Seq(S)
  BY FrameColumns
<1> DEFINE C == [role : Range(AllRoles), col : S]
           N == {x.name : x \in S}
           g == [c \in C |-> c.col.name]
<1>2. \A k \in 1 .. 8 : AllRoles[k] \in Range(AllRoles) /\ d[AllRoles[k]] \in Seq(S)
  BY <1>1, RolesAre
<1>4. ASSUME NEW k \in 1 .. 8
      PROVE  P[k] \in Seq(C) /\ Q[k] \in Seq(N) /\ Q[k] = Along(P[k], g)
  <2> DEFINE role == AllRoles[k]
             cols == d[role]
             p == [i \in DOMAIN cols |-> [role |-> role, col |-> cols[i]]]
             q == [i \in DOMAIN cols |-> cols[i].name]
  <2>1. role \in Range(AllRoles) /\ cols \in Seq(S)
    BY <1>2
  <2>2. P[k] = p /\ Q[k] = q
    OBVIOUS
  <2> HIDE DEF role, cols, P, Q
  <2>3. \A i \in DOMAIN cols : p[i] \in C /\ q[i] \in N /\ g[p[i]] = q[i]
    BY <2>1
  <2> HIDE DEF g, C, N
  <2>4. p \in Seq(C) /\ q \in Seq(N)
    BY <2>1, <2>3
  <2>5. q = Along(p, g)
    BY <2>3 DEF Along
  <2> QED
    BY ONLY <2>2, <2>4, <2>5
<1>41. P = [k \in 1 .. 8 |-> P[k]] /\ Q = [k \in 1 .. 8 |-> Q[k]]
  OBVIOUS
<1> HIDE DEF C, N, g, P, Q
<1>5. P \in Seq(Seq(C)) /\ Len(P) = 8 /\ Q \in Seq(Seq(N)) /\ Len(Q) = 8
  <2>2. \A k \in 1 .. 8 : P[k] \in Seq(C) /\ Q[k] \in Seq(N)
    BY <1>4
  <2> QED
    BY ONLY <1>41, <2>2, SequenceOf
<1>6. \A k \in 1 .. 8 : Q[k] = Along(P[k], g)
  BY <1>4
<1>7. FlattenSeq(Q) = Along(FlattenSeq(P), g)
  <2>1. Corresponds(P, Q, 8, g, C, N)
    BY <1>5, <1>6 DEF Corresponds
  <2> QED
    BY ONLY <2>1, JoinedAlong
<1>8. Columns(d) = FlattenSeq(P)
  BY RolesAre DEF Columns, P
<1>9. concat_colnames([r \in Range(AllRoles) |-> [i \in DOMAIN d[r] |-> d[r][i].name]]) = FlattenSeq(Q)
  <2> DEFINE schema == [r \in Range(AllRoles) |-> [i \in DOMAIN d[r] |-> d[r][i].name]]
  <2>1. \A k \in 1 .. 8 : schema[AllRoles[k]] = [i \in DOMAIN d[AllRoles[k]] |-> d[AllRoles[k]][i].name]
    BY <1>2
  <2> HIDE DEF schema
  <2>2. [k \in DOMAIN AllRoles |-> schema[AllRoles[k]]] = Q
    BY <2>1, RolesAre DEF Q
  <2> QED
    BY <2>2 DEF concat_colnames, schema
<1>10. \A i \in DOMAIN Columns(d) : g[Columns(d)[i]] = Columns(d)[i].col.name
  <2>1. Columns(d) \in Seq(C)
    BY <1>1, ColumnsAre DEF Listed, C
  <2>2. \A i \in DOMAIN Columns(d) : Columns(d)[i] \in C
    <3> HIDE DEF Columns
    <3> QED
      BY <2>1
  <2> QED
    BY <2>2 DEF g
<1>11. Along(FlattenSeq(P), g) = ColumnNames(d)
  BY <1>8, <1>10 DEF Along, ColumnNames
<1> QED
  BY ONLY <1>7, <1>9, <1>11

-----------------------------------------------------------------------------
(* The sniffer *)

\* The code of a character is a number,
LEMMA SecondIsNatural == \A x : <<x, 0>>[2] \in Nat /\ <<x, 10>>[2] \in Nat
OBVIOUS

\* also of those in strings.
LEMMA TokensHaveNumbers == \A x \in Tokens : x[2] \in Nat
<1>1. QUOTE[2] \in Nat /\ SEP[2] \in Nat /\ LF[2] \in Nat
  BY SecondIsNatural, Zenon DEF QUOTE, SEP, LF
<1>2. \A x \in (STRING \X Nat) \cup (WordKinds \X Nat) : x[2] \in Nat
  OBVIOUS
<1> QED
  BY <1>1, <1>2 DEF Tokens

\* What is taken for a number is read as one.
LEMMA DoublesAreRead ==
  ASSUME NEW str \in Seq(Tokens), is_double(str)
  PROVE  get_double(str) # NAN
<1>1. trim(str) \in Seq(Tokens)
  BY TrimTyped
<1> DEFINE word == trim(str)
<1>2. \A v : Parsed(v).success = TRUE /\ Parsed(v).val = v
  BY DEF Parsed
<1>3. Failed.success = FALSE
  BY DEF Failed
<1> HIDE DEF word
<1>4. \E v \in Nat : to_double(str) = Parsed(v)
  <2>1. to_double(str) # Failed
    BY <1>3 DEF is_double
  <2>2. to_double(str) =
          IF Len(word) # 1 THEN Failed
          ELSE CASE word[1][1] = "number" -> Parsed(word[1][2])
                 [] word[1][1] = "true"   -> Parsed(ONE)
                 [] word[1][1] = "false"  -> Parsed(0)
                 [] word[1][1] = "date"   -> Parsed(YEAR)
                 [] OTHER                 -> Failed
    BY DEF to_double, word
  <2>3. Len(word) = 1
    BY <2>1, <2>2
  <2>4. word[1] \in Tokens
    <3>1. word \in Seq(Tokens)
      BY <1>1 DEF word
    <3> QED
      BY ONLY <2>3, <3>1, 1 \in 1 .. 1, ElementOfSeq
  <2>5. word[1][2] \in Nat
    BY <2>4, TokensHaveNumbers
  <2>6. YEAR \in Nat /\ ONE \in Nat /\ 0 \in Nat
    BY DEF YEAR, ONE
  <2> DEFINE kind == word[1][1]
             v == word[1][2]
  <2>7. to_double(str) = CASE kind = "number" -> Parsed(v)
                           [] kind = "true"   -> Parsed(ONE)
                           [] kind = "false"  -> Parsed(0)
                           [] kind = "date"   -> Parsed(YEAR)
                           [] OTHER           -> Failed
    BY <2>2, <2>3
  <2> HIDE DEF kind, v
  <2>8. to_double(str) \in {Parsed(v), Parsed(ONE), Parsed(0), Parsed(YEAR), Failed}
    BY ONLY <2>7
  <2>9. v \in Nat
    BY <2>5 DEF v
  <2> QED
    BY ONLY <2>1, <2>6, <2>8, <2>9
<1>5. PICK v \in Nat : to_double(str) = Parsed(v)
  BY <1>4
<1>6. get_double(str) = v
  <2>1. get_double(str) = IF to_double(str).success THEN to_double(str).val ELSE NAN
    BY DEF get_double
  <2> QED
    BY <1>2, <1>5, <2>1
<1> QED
  BY <1>6 DEF NAN

\* The types of the sniffer.
Types == {"unknown", "integer", "double", "string"}

\* What is read as an integer is read as a double.
LEMMA IntegersAreDoubles == \A str : is_int(str) => is_double(str)
<1> TAKE str
<1> DEFINE word == trim(str)
<1>1. \A v : Parsed(v).success = TRUE
  BY DEF Parsed
<1>2. Failed.success = FALSE
  BY DEF Failed
<1> HIDE DEF word
<1>3. to_int(str) = IF Len(word) = 1 /\ word[1][1] = "number" /\ word[1][2] % ONE = 0
                    THEN Parsed(word[1][2]) ELSE Failed
  BY DEF to_int, word
<1>4. is_int(str) => Len(word) = 1 /\ word[1][1] = "number"
  BY <1>2, <1>3 DEF is_int
<1>5. Len(word) = 1 /\ word[1][1] = "number" => to_double(str) = Parsed(word[1][2])
  BY DEF to_double, word
<1> QED
  BY <1>1, <1>4, <1>5 DEF is_double

\* infer_datatype never goes back from string, and otherwise the field is a number.
LEMMA TypesInferred ==
  ASSUME NEW type \in Types, NEW str
  PROVE  /\ infer_datatype(type, str) \in Types
         /\ infer_datatype(type, str) # "string" => type # "string" /\ is_double(str)
BY IntegersAreDoubles DEF Types, infer_datatype

\* Of the lines with n fields, those in a column that is not one of strings are numbers.
SniffsTypes(ts, types, lines, n) ==
  /\ ts \in [1 .. n -> Types]
  /\ \A i \in 1 .. n : ts[i] # "string" =>
       /\ types[i] # "string"
       /\ \A line \in Range(lines) : line # <<>> /\ Len(line) = n => is_double(line[i])

\* A column of a file that is not of strings has numbers in all its fields.
LEMMA FileSniffed ==
  ASSUME NEW n \in Nat, NEW types \in [1 .. n -> Types], NEW S, NEW lines \in Seq(Seq(S))
  PROVE  SniffsTypes(sniff_file(types, lines, 0), types, lines, n)
<1> DEFINE counted == Kept(lines, Range(lines) \ {<<>>})
           used == Kept(SubSeq(counted, 0 + 1, Len(counted)),
                        {line \in Range(lines) : Len(line) = Len(types)})
           N == Len(used)
           R == [1 .. n -> Types]
           next(ts, k) == [i \in DOMAIN ts |-> infer_datatype(ts[i], used[k][i])]
           step == [k \in 1 .. N |-> [ts \in R |-> next(ts, k)]]
           inferred == CHOOSE f : f = [k \in 0 .. N |-> IF k = 0 THEN types ELSE next(f[k - 1], k)]
<1>1. sniff_file(types, lines, 0) = inferred[N]
  BY Zenon DEF sniff_file
<1>2. /\ counted \in Seq(Seq(S)) /\ Range(counted) = Range(lines) \ {<<>>}
  <2>1. counted \in Seq(Seq(S)) /\ Range(counted) = Range(lines) \cap (Range(lines) \ {<<>>})
    BY KeptTyped
  <2> HIDE DEF counted
  <2> QED
    BY <2>1
<1>3. Len(types) = n
  OBVIOUS
<1>4. used \in Seq(Seq(S)) /\ Range(used) = {line \in Range(lines) : line # <<>> /\ Len(line) = n}
  <2> HIDE DEF counted
  <2>1. SubSeq(counted, 0 + 1, Len(counted)) = counted
    BY <1>2
  <2>2. /\ used \in Seq(Seq(S))
        /\ Range(used) = Range(counted) \cap {line \in Range(lines) : Len(line) = Len(types)}
    BY ONLY <1>2, <2>1, KeptTyped
  <2> HIDE DEF used
  <2> QED
    BY <1>2, <1>3, <2>2
<1> HIDE DEF used
<1>5. N \in Nat /\ \A k \in 1 .. N : used[k] \in Range(used)
  BY <1>4 DEF Range
<1>6. types \in R
  OBVIOUS
<1>7. ASSUME NEW ts \in R, NEW k \in 1 .. N PROVE next(ts, k) \in R
  BY TypesInferred
<1> HIDE DEF R, N, next
<1>8. inferred = [k \in 0 .. N |-> IF k = 0 THEN types ELSE next(inferred[k - 1], k)]
  <2>1. step \in [1 .. N -> [R -> R]]
    BY <1>7
  <2>2. ASSUME NEW ts \in R, NEW k \in 1 .. N PROVE step[k][ts] = next(ts, k)
    OBVIOUS
  <2> HIDE DEF step
  <2>3. PICK f : Repeats(f, N, R, types, step)
    BY <1>5, <1>6, <2>1, RecursiveFunctionExists
  <2>4. f = [k \in 0 .. N |-> IF k = 0 THEN types ELSE next(f[k - 1], k)]
    <3>1. ASSUME NEW k \in 0 .. N PROVE f[k] = IF k = 0 THEN types ELSE next(f[k - 1], k)
      <4>1. CASE k = 0
        BY <2>3, <4>1 DEF Repeats
      <4>2. CASE k # 0
        <5>1. k \in 1 .. N /\ k - 1 \in 0 .. N
          BY <1>5, <4>2
        <5>2. f[k - 1] \in R
          BY <2>3, <5>1 DEF Repeats
        <5> QED
          BY <2>2, <2>3, <4>2, <5>1, <5>2 DEF Repeats
      <4> QED
        BY <4>1, <4>2
    <3> QED
      BY <2>3, <3>1 DEF Repeats
  <2> QED
    BY <2>4
<1> HIDE DEF inferred
<1> DEFINE Good(k) == /\ inferred[k] \in R
                      /\ \A i \in 1 .. n : inferred[k][i] # "string" =>
                           types[i] # "string" /\ \A m \in 1 .. k : is_double(used[m][i])
           T == {k \in 0 .. N : Good(k)}
<1>9. 0 \in T
  <2>1. inferred[0] = types /\ 0 \in 0 .. N
    BY <1>5, <1>8
  <2> QED
    BY <1>6, <2>1
<1>10. ASSUME NEW k \in 0 .. N - 1, k \in T PROVE k + 1 \in T
  <2>1. k + 1 \in 1 .. N /\ k + 1 \in 0 .. N /\ k + 1 # 0 /\ (k + 1) - 1 = k /\ k \in Nat
    BY <1>5
  <2>2. inferred[k + 1] = next(inferred[k], k + 1)
    BY <1>8, <2>1
  <2>3. Good(k)
    BY <1>10
  <2> DEFINE ts == inferred[k]
             us == inferred[k + 1]
  <2>4. ts \in R /\ us \in R
    BY <1>7, <2>1, <2>2, <2>3
  <2>5. us = [i \in DOMAIN ts |-> infer_datatype(ts[i], used[k + 1][i])]
    BY <2>2 DEF next
  <2> HIDE DEF us
  <2>6. ASSUME NEW i \in 1 .. n, us[i] # "string"
        PROVE  types[i] # "string" /\ \A m \in 1 .. k + 1 : is_double(used[m][i])
    <3>1. ts[i] \in Types /\ us[i] = infer_datatype(ts[i], used[k + 1][i])
      BY <2>4, <2>5 DEF R
    <3>2. ts[i] # "string" /\ is_double(used[k + 1][i])
      BY <2>6, <3>1, TypesInferred
    <3>3. types[i] # "string" /\ \A m \in 1 .. k : is_double(used[m][i])
      BY <2>3, <3>2
    <3>4. \A m \in 1 .. k + 1 : m \in 1 .. k \/ m = k + 1
      BY <2>1
    <3> QED
      BY ONLY <3>2, <3>3, <3>4
  <2> QED
    BY <2>1, <2>4, <2>6 DEF us
<1>11. 0 .. N \subseteq T
  <2> HIDE DEF T
  <2> QED
    BY ONLY <1>5, <1>9, <1>10, BoundedInduction
<1>12. Good(N)
  BY <1>5, <1>11
<1> DEFINE ts == inferred[N]
<1>13. ASSUME NEW i \in 1 .. n, ts[i] # "string",
              NEW line \in Range(lines), line # <<>>, Len(line) = n
       PROVE  is_double(line[i])
  <2>1. line \in Range(used)
    BY <1>4, <1>13
  <2>2. DOMAIN used = 1 .. N
    BY <1>4 DEF N
  <2>3. PICK m \in 1 .. N : used[m] = line
    BY ONLY <2>1, <2>2 DEF Range
  <2> QED
    BY <1>12, <1>13, <2>3
<1>14. SniffsTypes(ts, types, lines, n)
  BY <1>12, <1>13 DEF SniffsTypes, R
<1> QED
  BY <1>1, <1>14

\* The reader of all lines of a text, which has its header.
OpenedText(text) == colnames(CSVReader(<<>>, text, 0, QUOTE, SEP))

Opens(text, names) ==
  /\ OpenedText(text).line = names
  /\ rest(OpenedText(text).reader) \in Seq(Seq(Seq(Tokens)))
  /\ skip_lines(OpenedText(text).reader, 0) = OpenedText(text).reader

\* The lines that are left are sequences of strings.
LEMMA RestTyped ==
  ASSUME NEW S, NEW given, NEW lines \in Seq(Seq(S)), NEW m \in Nat
  PROVE  rest(ReaderAt(given, lines, 0, m)) \in Seq(Seq(Seq(S)))
<1> DEFINE left == rest(ReaderAt(given, lines, 0, m))
           n == IF Len(lines) > m THEN Len(lines) - m ELSE 0
<1>1. Len(lines) \in Nat /\ n \in Nat
  OBVIOUS
<1>2. LinesLeft(left, given, lines, 0, m)
  BY <1>1, RestRead
<1>3. LastLine(lines, 0) = Len(lines)
  BY DEF LastLine
<1>4. /\ left = [i \in 1 .. n |-> left[i]]
      /\ \A i \in 1 .. n : left[i] = FieldsAt(given, lines, 0, m + i - 1)
  BY <1>2, <1>3 DEF LinesLeft
<1>5. ASSUME NEW i \in 1 .. n PROVE left[i] \in Seq(Seq(S))
  <2> DEFINE k == m + i - 1
  <2>1. k + 1 \in 1 .. Len(lines)
    BY <1>1
  <2> HIDE DEF left, n, k
  <2>2. lines[k + 1] \in Seq(S)
    BY <2>1
  <2>3. FieldsAt(given, lines, 0, k) \in Seq(Seq(S))
    BY <2>2, FieldsTyped DEF FieldsAt
  <2> QED
    BY <1>4, <2>3 DEF k
<1> HIDE DEF left, n
<1>6. left \in Seq(Seq(Seq(S)))
  BY ONLY <1>1, <1>4, <1>5, SequenceOf
<1> QED
  BY <1>6 DEF left

\* Nothing is skipped if nothing is to be.
LEMMA NoneSkipped ==
  ASSUME NEW r
  PROVE  skip_lines(r, 0) = r
<1> DEFINE skipped == CHOOSE f : f = [i \in 0 .. 0 |-> IF i = 0 THEN r ELSE next_line(f[i - 1]).reader]
           g == [i \in 0 .. 0 |-> r]
<1>1. skip_lines(r, 0) = skipped[0]
  BY DEF skip_lines
<1>2. g = [i \in 0 .. 0 |-> IF i = 0 THEN r ELSE next_line(g[i - 1]).reader]
  OBVIOUS
<1>3. skipped = [i \in 0 .. 0 |-> IF i = 0 THEN r ELSE next_line(skipped[i - 1]).reader]
  <2> HIDE DEF g
  <2> QED
    BY ONLY <1>2
<1> HIDE DEF skipped
<1>4. skipped[0] = r
  BY <1>3
<1> QED
  BY <1>1, <1>4

\* A file that is written opens with the names of the columns.
LEMMA TextOpens ==
  ASSUME NEW d, IsDataFrame(d), FitsText(d), NEW text, NEW start, NEW R, TextHas(text, d, start, R),
         NEW n \in Nat, n > 0, DOMAIN Columns(d) = 1 .. n
  PROVE  Opens(text, ColumnNames(d))
<1> DEFINE names == ColumnNames(d)
           lines == lines_of(text)
           r == ReaderAt(<<>>, lines, 0, 0)
<1>1. PICK batch \in Seq(Seq(Seq(Tokens))) : text = write(batch, names, QUOTE, SEP)
  BY DEF TextHas
<1>2. IsReader(r, Tokens) /\ r.quotechar_ = QUOTE /\ r.sep_ = SEP
  BY ReaderIsOne
<1>3. IsLine(names, r, n, Tokens)
  BY <1>2, NamesAreLine
<1> HIDE DEF names, r
<1>4. HasHeader(text, names, r, Tokens)
  BY <1>1, <1>2, <1>3, HeaderWritten
<1>5. lines \in Seq(Seq(Tokens)) /\ Len(lines) > 1 /\ Len(lines[1]) > 0 /\ fields_of(r, lines[1]) = names
  BY <1>4 DEF HasHeader
<1> HIDE DEF lines
<1>6. CSVReader(<<>>, text, 0, QUOTE, SEP) = r
  BY DEF CSVReader, ReaderAt, r, lines
<1>7. FieldsAt(<<>>, lines, 0, 0) = names /\ GoesFurther(lines, 0, 0) /\ Len(lines) \in Nat
  <2>1. lines[1] # <<>> /\ 0 + 1 = 1
    BY <1>5
  <2> QED
    BY <1>5, <2>1 DEF FieldsAt, GoesFurther, r
<1>8. next_line(r).line = names /\ next_line(r).reader = ReaderAt(<<>>, lines, 0, 1)
  <2>1. /\ next_line(ReaderAt(<<>>, lines, 0, 0)).line = FieldsAt(<<>>, lines, 0, 0)
        /\ next_line(ReaderAt(<<>>, lines, 0, 0)).reader = ReaderAt(<<>>, lines, 0, 0 + 1)
    BY <1>7, NextLine
  <2> QED
    BY <1>7, <2>1 DEF r
<1>9. OpenedText(text) = next_line(r)
  <2>1. r.colnames_ = <<>>
    BY ReaderFields DEF r
  <2> QED
    BY <1>6, <2>1 DEF OpenedText, colnames
<1>10. rest(ReaderAt(<<>>, lines, 0, 1)) \in Seq(Seq(Seq(Tokens)))
  BY <1>5, RestTyped
<1>11. skip_lines(ReaderAt(<<>>, lines, 0, 1), 0) = ReaderAt(<<>>, lines, 0, 1)
  BY NoneSkipped
<1> QED
  BY <1>8, <1>9, <1>10, <1>11 DEF Opens, names

\* What has been sniffed of texts: the columns that are not of strings are of numbers.
Sniffs(found, texts, names, n) ==
  /\ found.names = names
  /\ found.types \in [1 .. n -> Types]
  /\ \A b \in DOMAIN texts : \A i \in 1 .. n : found.types[i] # "string" =>
       \A line \in Range(rest(OpenedText(texts[b]).reader)) :
         line # <<>> /\ Len(line) = n => is_double(line[i])

\* What the sniffer knows.
Known(names, types) == [names |-> names, types |-> types, failed |-> FALSE]

\* What the sniffer knows: names and types, and no failure yet;
LEMMA KnownFields ==
  \A names, types : /\ Known(names, types).names = names /\ Known(names, types).types = types
                    /\ Known(names, types).failed = FALSE
BY DEF Known

\* with other names,
LEMMA NamesReplaced ==
  \A names, types, failed, a :
    [[names |-> names, types |-> types, failed |-> failed] EXCEPT !.names = a] =
      [names |-> a, types |-> types, failed |-> failed]
OBVIOUS

\* with other types,
LEMMA TypesReplaced ==
  \A names, types, failed, t :
    [[names |-> names, types |-> types, failed |-> failed] EXCEPT !.types = t] =
      [names |-> names, types |-> t, failed |-> failed]
OBVIOUS

Learned(st, names, types) == [st EXCEPT !.names = names, !.types = types]

\* or both.
LEMMA KnownLearned ==
  ASSUME NEW names, NEW types, NEW a, NEW t
  PROVE  Learned(Known(names, types), a, t) = Known(a, t)
<1>1. Learned(Known(names, types), a, t) =
        [[Known(names, types) EXCEPT !.names = a] EXCEPT !.types = t]
  BY DEF Learned
<1>2. [Known(names, types) EXCEPT !.names = a] = Known(a, types)
  BY NamesReplaced, Zenon DEF Known
<1>3. [Known(a, types) EXCEPT !.types = t] = Known(a, t)
  <2> DEFINE failed == FALSE
             before == [names |-> a, types |-> types, failed |-> failed]
             after == [names |-> a, types |-> t, failed |-> failed]
  <2>1. Known(a, types) = before /\ Known(a, t) = after
    BY Zenon DEF Known
  <2>2. [before EXCEPT !.types = t] = after
    <3> HIDE DEF failed
    <3> QED
      BY TypesReplaced
  <2> HIDE DEF before, after
  <2> QED
    BY <2>1, <2>2
<1> QED
  BY <1>1, <1>2, <1>3, Zenon

\* One text more.
OneMore(st, text) ==
  LET opened == colnames(make_reader(<<>>, text, 0, 0, QUOTE, SEP))
      first == st.names = <<>>
      found == IF first THEN opened.line ELSE st.names
      types == IF first THEN [i \in DOMAIN found |-> "unknown"] ELSE st.types
  IN IF st.failed \/ (~first /\ ~check(opened.line, st.names))
     THEN [st EXCEPT !.failed = TRUE]
     ELSE [st EXCEPT !.names = found, !.types = sniff_file(types, rest(opened.reader), 0)]

\* The sniffer goes over a file: it takes the names of the first, and the types it
\* has so far.
LEMMA TextSniffed ==
  ASSUME NEW text, NEW n \in Nat, n > 0, NEW names, DOMAIN names = 1 .. n, names # <<>>, Opens(text, names),
         NEW a, NEW t, a = <<>> \/ a = names
  PROVE  OneMore(Known(a, t), text) =
           Known(names, sniff_file(IF a = <<>> THEN [i \in 1 .. n |-> "unknown"] ELSE t,
                                   rest(OpenedText(text).reader), 0))
<1> DEFINE st == Known(a, t)
           opened == OpenedText(text)
           first == st.names = <<>>
           found == IF first THEN opened.line ELSE st.names
           types == IF first THEN [i \in DOMAIN found |-> "unknown"] ELSE st.types
           old == IF a = <<>> THEN [i \in 1 .. n |-> "unknown"] ELSE t
           left == rest(opened.reader)
<1>1. st.names = a /\ st.types = t /\ st.failed = FALSE
  BY KnownFields, Zenon
<1>2. make_reader(<<>>, text, 0, 0, QUOTE, SEP) = CSVReader(<<>>, text, 0, QUOTE, SEP)
  <2>1. 0 + 0 = 0
    OBVIOUS
  <2> QED
    BY <2>1, Zenon DEF make_reader
<1>3. opened.line = names
  BY DEF Opens
<1>4. OneMore(st, text) = IF st.failed \/ (~ first /\ ~ check(opened.line, st.names))
                          THEN [st EXCEPT !.failed = TRUE]
                          ELSE Learned(st, found, sniff_file(types, left, 0))
  BY <1>2, Zenon DEF OneMore, OpenedText, Learned
<1> HIDE DEF st, opened, left
<1>5. ~ (st.failed \/ (~ first /\ ~ check(opened.line, st.names)))
  BY <1>1, <1>3 DEF check
<1>6. found = names /\ types = old
  BY <1>1, <1>3
<1> HIDE DEF found, types, old, first
<1>7. OneMore(st, text) = Learned(st, names, sniff_file(old, left, 0))
  <2> DEFINE x == [st EXCEPT !.failed = TRUE]
             y == Learned(st, found, sniff_file(types, left, 0))
             c == st.failed \/ (~ first /\ ~ check(opened.line, st.names))
  <2>1. OneMore(st, text) = IF c THEN x ELSE y
    BY ONLY <1>4
  <2>2. ~ c
    BY ONLY <1>5
  <2> HIDE DEF x, y, c
  <2>3. OneMore(st, text) = y
    BY ONLY <2>1, <2>2
  <2> QED
    BY ONLY <2>3, <1>6, Zenon DEF y
<1>8. Learned(st, names, sniff_file(old, left, 0)) = Known(names, sniff_file(old, left, 0))
  BY KnownLearned DEF st
<1> QED
  BY ONLY <1>7, <1>8, Zenon DEF st, old, left, opened

\* What is known after k texts.
KnownAfter(st, k, texts, names, n) ==
  \E a, t : /\ st = Known(a, t)
            /\ IF k = 0 THEN a = <<>> ELSE a = names /\ t \in [1 .. n -> Types]
            /\ \A b \in 1 .. k : \A i \in 1 .. n : t[i] # "string" =>
                 \A line \in Range(rest(OpenedText(texts[b]).reader)) :
                   line # <<>> /\ Len(line) = n => is_double(line[i])

\* What it knows of the files it has seen stays true with the next.
LEMMA MoreSniffed ==
  ASSUME NEW texts, NEW k \in Nat, NEW n \in Nat, n > 0, NEW names, DOMAIN names = 1 .. n, names # <<>>,
         Opens(texts[k + 1], names), NEW st, KnownAfter(st, k, texts, names, n)
  PROVE  KnownAfter(OneMore(st, texts[k + 1]), k + 1, texts, names, n)
<1> DEFINE Numeric(b, i) == \A line \in Range(rest(OpenedText(texts[b]).reader)) :
                              line # <<>> /\ Len(line) = n => is_double(line[i])
<1>1. PICK a, t : /\ st = Known(a, t)
                  /\ IF k = 0 THEN a = <<>> ELSE a = names /\ t \in [1 .. n -> Types]
                  /\ \A b \in 1 .. k : \A i \in 1 .. n : t[i] # "string" => Numeric(b, i)
  BY DEF KnownAfter
<1> HIDE DEF Numeric
<1> DEFINE text == texts[k + 1]
           old == IF a = <<>> THEN [i \in 1 .. n |-> "unknown"] ELSE t
           left == rest(OpenedText(text).reader)
           new == sniff_file(old, left, 0)
<1>2. OneMore(st, text) = Known(names, new)
  <2>1. a = <<>> \/ a = names
    BY <1>1
  <2> QED
    BY ONLY <1>1, <2>1, n \in Nat, n > 0, DOMAIN names = 1 .. n, names # <<>>, Opens(texts[k + 1], names),
            TextSniffed
<1>3. old \in [1 .. n -> Types]
  BY <1>1 DEF Types
<1>4. left \in Seq(Seq(Seq(Tokens)))
  BY DEF Opens
<1>5. SniffsTypes(new, old, left, n)
  <2> HIDE DEF old, left
  <2> QED
    BY <1>3, <1>4, FileSniffed
<1> HIDE DEF new
<1>6. new \in [1 .. n -> Types]
  BY <1>5 DEF SniffsTypes
<1>7. ASSUME NEW b \in 1 .. k + 1, NEW i \in 1 .. n, new[i] # "string" PROVE Numeric(b, i)
  <2>1. CASE b = k + 1
    BY <1>5, <1>7, <2>1 DEF SniffsTypes, Numeric
  <2>2. CASE b # k + 1
    <3>1. b \in 1 .. k /\ k # 0
      BY <2>2
    <3>2. a = names /\ old = t
      BY <1>1, <3>1
    <3>3. t[i] # "string"
      BY <1>5, <1>7, <3>2 DEF SniffsTypes
    <3> QED
      BY <1>1, <3>1, <3>3
  <2> QED
    BY <2>1, <2>2
<1>8. k + 1 # 0
  OBVIOUS
<1>9. \A b \in 1 .. k + 1 : \A i \in 1 .. n : new[i] # "string" =>
        \A line \in Range(rest(OpenedText(texts[b]).reader)) :
          line # <<>> /\ Len(line) = n => is_double(line[i])
  BY <1>7 DEF Numeric
<1> HIDE DEF text
<1>10. KnownAfter(OneMore(st, text), k + 1, texts, names, n)
  BY <1>2, <1>6, <1>8, <1>9 DEF KnownAfter
<1> QED
  BY <1>10 DEF text

\* What the sniffer knows before and after a text with these names.
KnownStates(names, n) ==
  {Known(<<>>, <<>>)} \cup {Known(names, types) : types \in [1 .. n -> Types]}

\* The sniffer knows names and types after every file.
LEMMA StaysKnown ==
  ASSUME NEW text, NEW n \in Nat, n > 0, NEW names, DOMAIN names = 1 .. n, names # <<>>, Opens(text, names),
         NEW st \in KnownStates(names, n)
  PROVE  OneMore(st, text) \in KnownStates(names, n)
<1>1. PICK a, t : st = Known(a, t) /\ (a = <<>> \/ (a = names /\ t \in [1 .. n -> Types]))
  BY DEF KnownStates
<1> DEFINE old == IF a = <<>> THEN [i \in 1 .. n |-> "unknown"] ELSE t
           left == rest(OpenedText(text).reader)
           new == sniff_file(old, left, 0)
<1>2. OneMore(st, text) = Known(names, new)
  <2>1. a = <<>> \/ a = names
    BY <1>1
  <2> QED
    BY ONLY <1>1, <2>1, n \in Nat, n > 0, DOMAIN names = 1 .. n, names # <<>>, Opens(text, names),
            TextSniffed
<1>3. old \in [1 .. n -> Types]
  BY <1>1 DEF Types
<1>4. left \in Seq(Seq(Seq(Tokens)))
  BY DEF Opens
<1>5. new \in [1 .. n -> Types]
  <2> HIDE DEF old, left
  <2> QED
    BY <1>3, <1>4, FileSniffed DEF SniffsTypes
<1> HIDE DEF new
<1> QED
  BY <1>2, <1>5 DEF KnownStates

\* The run of the sniffer through texts.
SniffsTexts(f, texts, B) ==
  f = [k \in 0 .. B |-> IF k = 0 THEN Known(<<>>, <<>>) ELSE OneMore(f[k - 1], texts[k])]

\* sniff goes over the files in their order.
LEMMA SnifferRuns ==
  ASSUME NEW texts, NEW B \in Nat, Len(texts) = B, DOMAIN texts = 1 .. B, texts # <<>>,
         NEW n \in Nat, n > 0, NEW names, DOMAIN names = 1 .. n, names # <<>>,
         \A b \in 1 .. B : Opens(texts[b], names)
  PROVE  \E f : SniffsTexts(f, texts, B) /\ sniff(<<>>, texts, 0, 0, QUOTE, SEP) = f[B]
<1> DEFINE init == [names |-> <<>>, types |-> <<>>, failed |-> texts = <<>>]
           run == CHOOSE f : f = [k \in 0 .. Len(texts) |->
                                        IF k = 0 THEN init ELSE OneMore(f[k - 1], texts[k])]
           R == KnownStates(names, n)
           step == [k \in 1 .. B |-> [st \in R |-> OneMore(st, texts[k])]]
<1>1. sniff(<<>>, texts, 0, 0, QUOTE, SEP) = run[Len(texts)]
  BY Zenon DEF sniff, OneMore
<1>2. init = Known(<<>>, <<>>)
  <2>1. (texts = <<>>) = FALSE
    OBVIOUS
  <2> QED
    BY <2>1, Zenon DEF Known
<1>3. init \in R
  BY <1>2 DEF KnownStates
<1>4. ASSUME NEW st \in R, NEW k \in 1 .. B PROVE OneMore(st, texts[k]) \in R
  BY StaysKnown
<1>5. step \in [1 .. B -> [R -> R]]
  <2> HIDE DEF R
  <2> QED
    BY <1>4
<1>6. ASSUME NEW st \in R, NEW k \in 1 .. B PROVE step[k][st] = OneMore(st, texts[k])
  OBVIOUS
<1> HIDE DEF init, R, step
<1>7. PICK f : Repeats(f, B, R, init, step)
  BY <1>3, <1>5, RecursiveFunctionExists
<1>8. f = [k \in 0 .. B |-> IF k = 0 THEN init ELSE OneMore(f[k - 1], texts[k])]
  <2>1. ASSUME NEW k \in 0 .. B PROVE f[k] = IF k = 0 THEN init ELSE OneMore(f[k - 1], texts[k])
    <3>1. CASE k = 0
      BY <1>7, <3>1 DEF Repeats
    <3>2. CASE k # 0
      <4>1. k \in 1 .. B /\ k - 1 \in 0 .. B
        BY <3>2
      <4>2. f[k - 1] \in R
        BY <1>7, <4>1 DEF Repeats
      <4> QED
        BY <1>6, <1>7, <3>2, <4>1, <4>2 DEF Repeats
    <3> QED
      BY <3>1, <3>2
  <2> QED
    BY <1>7, <2>1 DEF Repeats
<1>9. run = [k \in 0 .. B |-> IF k = 0 THEN init ELSE OneMore(run[k - 1], texts[k])]
  <2>1. f = [k \in 0 .. Len(texts) |-> IF k = 0 THEN init ELSE OneMore(f[k - 1], texts[k])]
    BY <1>8
  <2>2. run = [k \in 0 .. Len(texts) |-> IF k = 0 THEN init ELSE OneMore(run[k - 1], texts[k])]
    BY ONLY <2>1
  <2> HIDE DEF run
  <2> QED
    BY <2>2
<1> HIDE DEF run
<1>10. SniffsTexts(run, texts, B)
  BY <1>2, <1>9 DEF SniffsTexts
<1> QED
  BY <1>1, <1>10

\* The sniffer looks at all lines of texts with the same names.
LEMMA TextsSniffed ==
  ASSUME NEW texts, NEW B \in Nat, Len(texts) = B, DOMAIN texts = 1 .. B, texts # <<>>,
         NEW n \in Nat, n > 0, NEW names, DOMAIN names = 1 .. n, names # <<>>,
         \A b \in 1 .. B : Opens(texts[b], names)
  PROVE  Sniffs(sniff(<<>>, texts, 0, 0, QUOTE, SEP), texts, names, n)
<1>1. PICK f : SniffsTexts(f, texts, B) /\ sniff(<<>>, texts, 0, 0, QUOTE, SEP) = f[B]
  BY SnifferRuns
<1> DEFINE T == {k \in 0 .. B : KnownAfter(f[k], k, texts, names, n)}
<1>2. f[0] = Known(<<>>, <<>>) /\ \A k \in 0 .. B - 1 : f[k + 1] = OneMore(f[k], texts[k + 1])
  BY <1>1 DEF SniffsTexts
<1>3. 0 \in T
  BY <1>2 DEF KnownAfter
<1>4. ASSUME NEW k \in 0 .. B - 1, k \in T PROVE k + 1 \in T
  <2>1. k + 1 \in 1 .. B /\ k + 1 \in 0 .. B /\ k \in Nat
    OBVIOUS
  <2>2. KnownAfter(OneMore(f[k], texts[k + 1]), k + 1, texts, names, n)
    BY <1>4, <2>1, MoreSniffed
  <2> QED
    BY <1>2, <2>1, <2>2
<1>5. 0 .. B \subseteq T
  <2> HIDE DEF T
  <2> QED
    BY ONLY B \in Nat, <1>3, <1>4, BoundedInduction
<1>6. KnownAfter(f[B], B, texts, names, n)
  BY <1>5
<1>7. B # 0
  OBVIOUS
<1>8. PICK a, t : /\ f[B] = Known(a, t) /\ a = names /\ t \in [1 .. n -> Types]
                  /\ \A b \in 1 .. B : \A i \in 1 .. n : t[i] # "string" =>
                       \A line \in Range(rest(OpenedText(texts[b]).reader)) :
                         line # <<>> /\ Len(line) = n => is_double(line[i])
  BY <1>6, <1>7 DEF KnownAfter
<1>9. f[B].names = names /\ f[B].types = t
  BY <1>8, KnownFields
<1> QED
  BY <1>1, <1>8, <1>9 DEF Sniffs

\* The roles are different.
LEMMA RolesDiffer == \A k, m \in 1 .. 8 : AllRoles[k] = AllRoles[m] => k = m
BY DEF AllRoles

\* No two columns of a data frame have the same name.
LEMMA NamesDiffer ==
  ASSUME NEW d, IsDataFrame(d),
         NEW i \in DOMAIN Columns(d), NEW j \in DOMAIN Columns(d),
         Columns(d)[i].col.name = Columns(d)[j].col.name
  PROVE  i = j
<1> DEFINE P == [k \in 1 .. 8 |->
                   [m \in DOMAIN d[AllRoles[k]] |-> [role |-> AllRoles[k], col |-> d[AllRoles[k]][m]]]]
<1>1. PICK S : \A role \in Range(AllRoles) : d[role] \in Seq(S)
  BY FrameColumns
<1> DEFINE C == [role : Range(AllRoles), col : S]
<1>2. \A k \in 1 .. 8 : AllRoles[k] \in Range(AllRoles) /\ d[AllRoles[k]] \in Seq(S)
  BY <1>1, RolesAre
<1>3. ASSUME NEW k \in 1 .. 8
      PROVE  /\ P[k] \in Seq(C) /\ Len(P[k]) = Len(d[AllRoles[k]])
             /\ \A m \in 1 .. Len(d[AllRoles[k]]) :
                  P[k][m].role = AllRoles[k] /\ P[k][m].col = d[AllRoles[k]][m]
  <2> DEFINE role == AllRoles[k]
             cols == d[role]
             p == [m \in DOMAIN cols |-> [role |-> role, col |-> cols[m]]]
  <2>1. role \in Range(AllRoles) /\ cols \in Seq(S)
    BY <1>2
  <2>2. P[k] = p
    OBVIOUS
  <2> HIDE DEF role, cols, P
  <2>3. \A m \in DOMAIN cols : p[m] \in C
    BY <2>1
  <2> HIDE DEF C
  <2>4. p \in Seq(C) /\ Len(p) = Len(cols)
    BY <2>1, <2>3
  <2>5. \A m \in 1 .. Len(cols) : p[m].role = role /\ p[m].col = cols[m]
    BY <2>1
  <2> QED
    BY ONLY <2>2, <2>4, <2>5 DEF role, cols
<1>4. P = [k \in 1 .. 8 |-> P[k]]
  OBVIOUS
<1> HIDE DEF P, C
<1>5. P \in Seq(Seq(C)) /\ Len(P) = 8
  <2>1. \A k \in 1 .. 8 : P[k] \in Seq(C)
    BY <1>3
  <2> QED
    BY ONLY <1>4, <2>1, SequenceOf
<1>6. Columns(d) = FlattenSeq(P)
  BY RolesAre DEF Columns, P
<1>7. PICK b : Joins(P, 8, b)
  BY ONLY <1>5, JoinsExist
<1>8. Columns(d) \in Seq(C) /\ IsJoined(Columns(d), P, 8, b)
  BY ONLY <1>5, <1>6, <1>7, JoinedAt
<1> DEFINE At(m, k, l) == /\ m = b[k - 1] + l /\ l \in DOMAIN d[AllRoles[k]]
                          /\ Columns(d)[m].col.name = d[AllRoles[k]][l].name
<1>9. ASSUME NEW m \in DOMAIN Columns(d)
      PROVE  \E k \in 1 .. 8 : \E l : At(m, k, l)
  <2> HIDE DEF At
  <2> DEFINE cols == Columns(d)
  <2>1. m \in 1 .. b[8]
    <3> HIDE DEF cols
    <3> QED
      BY <1>8 DEF IsJoined, cols
  <2>2. PICK k \in 1 .. 8 : \E l \in 1 .. Len(P[k]) : m = b[k - 1] + l /\ cols[m] = P[k][l]
    BY <1>8, <2>1 DEF IsJoined
  <2>3. PICK l \in 1 .. Len(P[k]) : m = b[k - 1] + l /\ cols[m] = P[k][l]
    BY <2>2
  <2> HIDE DEF cols
  <2>4. l \in DOMAIN d[AllRoles[k]] /\ cols[m].col = d[AllRoles[k]][l]
    <3> DEFINE part == d[AllRoles[k]]
    <3>1. part \in Seq(S)
      BY <1>2
    <3>2. Len(P[k]) = Len(part) /\ \A x \in 1 .. Len(part) : P[k][x].col = part[x]
      BY <1>3
    <3> HIDE DEF part
    <3>3. DOMAIN part = 1 .. Len(part)
      BY ONLY <3>1
    <3>4. l \in 1 .. Len(part)
      BY ONLY <3>2, l \in 1 .. Len(P[k])
    <3>5. cols[m].col = part[l]
      BY ONLY <2>3, <3>2, <3>4
    <3> QED
      BY ONLY <3>3, <3>4, <3>5 DEF part
  <2>5. At(m, k, l)
    BY ONLY <2>3, <2>4 DEF At, cols
  <2> QED
    BY <2>5
<1>10. PICK k \in 1 .. 8 : \E l : At(i, k, l)
  BY <1>9
<1>11. PICK l : At(i, k, l)
  BY <1>10
<1>12. PICK o \in 1 .. 8 : \E q : At(j, o, q)
  BY <1>9
<1>13. PICK q : At(j, o, q)
  BY <1>12
<1>14. AllRoles[k] = AllRoles[o] /\ l = q
  <2>1. d[AllRoles[k]][l].name = d[AllRoles[o]][q].name
    BY <1>11, <1>13
  <2>2. \A r, s \in Range(AllRoles) : \A x \in DOMAIN d[r], y \in DOMAIN d[s] :
          d[r][x].name = d[s][y].name => r = s /\ x = y
    BY ONLY IsDataFrame(d) DEF IsDataFrame
  <2>3. AllRoles[k] \in Range(AllRoles) /\ AllRoles[o] \in Range(AllRoles)
    BY <1>2
  <2>4. l \in DOMAIN d[AllRoles[k]] /\ q \in DOMAIN d[AllRoles[o]]
    BY <1>11, <1>13
  <2> QED
    BY ONLY <2>1, <2>2, <2>3, <2>4
<1>15. k = o
  BY <1>14, RolesDiffer
<1> QED
  BY ONLY <1>11, <1>13, <1>14, <1>15

\* The roles the sniffer proposes.
Proposed(names, types) ==
  LET proposed == make_statement("t", "python", names, types)
  IN [r \in Range(AllRoles) |-> CASE r = "unused_float"  -> proposed.unused_float
                                  [] r = "unused_string" -> proposed.unused_string
                                  [] OTHER               -> <<>>]

\* The names of some of the columns.
Named(names, chosen) ==
  FlattenSeq([i \in DOMAIN names |-> IF i \in chosen THEN <<names[i]>> ELSE <<>>])

\* The names that are chosen are some of all names.
LEMMA NamesChosen ==
  ASSUME NEW S, NEW names \in Seq(S), NEW chosen
  PROVE  /\ Named(names, chosen) \in Seq(S)
         /\ \A x \in Range(Named(names, chosen)) : \E i \in DOMAIN names : i \in chosen /\ x = names[i]
<1> DEFINE parts == [i \in DOMAIN names |-> IF i \in chosen THEN <<names[i]>> ELSE <<>>]
           n == Len(names)
<1>1. n \in Nat /\ DOMAIN names = 1 .. n /\ \A i \in 1 .. n : names[i] \in S
  OBVIOUS
<1>2. /\ parts = [i \in 1 .. n |-> parts[i]]
      /\ \A i \in 1 .. n : parts[i] = IF i \in chosen THEN <<names[i]>> ELSE <<>>
  BY <1>1
<1> HIDE DEF parts, n
<1>3. ASSUME NEW i \in 1 .. n PROVE parts[i] \in Seq(S)
  <2> DEFINE x == names[i]
  <2>1. x \in S
    BY <1>1
  <2>2. parts[i] = <<x>> \/ parts[i] = <<>>
    BY <1>2
  <2> HIDE DEF x
  <2>3. <<x>> \in Seq(S) /\ <<>> \in Seq(S)
    BY <2>1
  <2> QED
    BY ONLY <2>2, <2>3
<1>4. parts \in Seq(Seq(S)) /\ Len(parts) = n
  BY ONLY <1>1, <1>2, <1>3, SequenceOf
<1>5. /\ FlattenSeq(parts) \in Seq(S)
      /\ Range(FlattenSeq(parts)) = UNION {Range(parts[k]) : k \in 1 .. n}
  BY ONLY <1>1, <1>4, JoinedHasAll
<1>6. Named(names, chosen) = FlattenSeq(parts)
  BY DEF Named, parts
<1>7. ASSUME NEW x \in Range(FlattenSeq(parts))
      PROVE  \E i \in DOMAIN names : i \in chosen /\ x = names[i]
  <2>1. PICK k \in 1 .. n : x \in Range(parts[k])
    BY <1>5
  <2>2. k \in chosen /\ x = names[k]
    <3>1. CASE k \in chosen
      BY <1>2, <2>1, <3>1 DEF Range
    <3>2. CASE k \notin chosen
      BY <1>2, <2>1, <3>2 DEF Range
    <3> QED
      BY <3>1, <3>2
  <2> QED
    BY <1>1, <2>2
<1> QED
  BY <1>5, <1>6, <1>7

\* A schema has names of columns; those of numbers are of columns that are not of strings.
ProposesNumbers(schema, names, types) ==
  /\ \A role \in Range(AllRoles) : schema[role] \in Seq(Range(names))
  /\ \A i \in DOMAIN schema["unused_float"] :
       \E k \in DOMAIN names : types[k] # "string" /\ schema["unused_float"][i] = names[k]

\* The sniffer proposes a number only for columns whose type is one.
LEMMA RolesProposed ==
  ASSUME NEW S, NEW names \in Seq(S), NEW types
  PROVE  ProposesNumbers(Proposed(names, types), names, types)
<1> DEFINE proposed == make_statement("t", "python", names, types)
           numeric == {i \in DOMAIN names : types[i] \in {"double", "integer"}}
           other == {i \in DOMAIN names : types[i] \notin {"double", "integer"}}
           schema == Proposed(names, types)
<1>1. proposed = make_statement_python(names, types)
  BY DEF make_statement
<1>2. /\ proposed.unused_float = Named(names, numeric)
      /\ proposed.unused_string = Named(names, other)
  <2> DEFINE floats == FlattenSeq([i \in DOMAIN names |->
                         IF (types[i] \in {"double", "integer"}) = TRUE THEN <<names[i]>> ELSE <<>>])
             strings == FlattenSeq([i \in DOMAIN names |->
                         IF (types[i] \in {"double", "integer"}) = FALSE THEN <<names[i]>> ELSE <<>>])
  <2>1. proposed = [unused_float |-> floats, unused_string |-> strings]
    BY <1>1, Zenon DEF make_statement_python
  <2>2. /\ \A i \in DOMAIN names : (types[i] \in {"double", "integer"}) = TRUE <=> i \in numeric
        /\ \A i \in DOMAIN names : (types[i] \in {"double", "integer"}) = FALSE <=> i \in other
    OBVIOUS
  <2>3. floats = Named(names, numeric)
    <3> HIDE DEF numeric
    <3> QED
      BY <2>2 DEF Named
  <2>4. strings = Named(names, other)
    <3> HIDE DEF other
    <3> QED
      BY <2>2 DEF Named
  <2> HIDE DEF floats, strings, proposed
  <2> QED
    BY <2>1, <2>3, <2>4
<1> HIDE DEF proposed
<1>3. names \in Seq(Range(names))
  BY DEF Range
<1>4. Named(names, numeric) \in Seq(Range(names)) /\ Named(names, other) \in Seq(Range(names))
  <2> HIDE DEF numeric, other
  <2> QED
    BY <1>3, NamesChosen
<1>5. schema = [r \in Range(AllRoles) |-> CASE r = "unused_float"  -> proposed.unused_float
                                            [] r = "unused_string" -> proposed.unused_string
                                            [] OTHER               -> <<>>]
  BY DEF Proposed, proposed
<1> HIDE DEF schema
<1>6. \A role \in Range(AllRoles) : schema[role] \in Seq(Range(names))
  BY <1>2, <1>4, <1>5
<1>7. "unused_float" \in Range(AllRoles)
  <2>1. DOMAIN AllRoles = 1 .. 8 /\ AllRoles[7] = "unused_float" /\ 7 \in 1 .. 8
    BY DEF AllRoles
  <2> QED
    BY <2>1 DEF Range
<1>8. schema["unused_float"] = Named(names, numeric)
  BY <1>2, <1>5, <1>7
<1>9. ASSUME NEW i \in DOMAIN schema["unused_float"]
      PROVE  \E k \in DOMAIN names : types[k] # "string" /\ schema["unused_float"][i] = names[k]
  <2>1. schema["unused_float"][i] \in Range(Named(names, numeric))
    BY <1>8 DEF Range
  <2>2. PICK k \in DOMAIN names : k \in numeric /\ schema["unused_float"][i] = names[k]
    <3> DEFINE x == schema["unused_float"][i]
    <3> HIDE DEF numeric, x
    <3>1. x \in Range(Named(names, numeric))
      BY <2>1 DEF x
    <3>2. \E k \in DOMAIN names : k \in numeric /\ x = names[k]
      BY ONLY <3>1, names \in Seq(S), NamesChosen
    <3> QED
      BY <3>2 DEF x
  <2> QED
    BY <2>2
<1> QED
  BY <1>6, <1>9 DEF ProposesNumbers, schema

\* What is read of fields that are taken for numbers.
ReadNumbers == {get_double(str) : str \in {s \in Seq(Tokens) : is_double(s)}}

\* Numbers that are read from fields that are numbers are no nulls.
LEMMA NoNullIsRead == NAN \notin ReadNumbers
BY DoublesAreRead DEF ReadNumbers

\* The columns that are not of strings hold numbers in every line of a text.
HoldsNumbers(text, types, n) ==
  \A i \in 1 .. n : types[i] # "string" =>
    \A line \in Range(rest(OpenedText(text).reader)) :
      line # <<>> /\ Len(line) = n => is_double(line[i])

\* The columns of floats that are read of a text.
ReadsFloats(f, schema) ==
  /\ DOMAIN f["unused_float"] = DOMAIN schema["unused_float"]
  /\ \A i \in DOMAIN schema["unused_float"] : \E data \in Seq(ReadNumbers) :
       f["unused_float"][i] = NamedColumn(schema["unused_float"][i], data)

\* A file whose fields are numbers where the sniffer proposes them is read without
\* nulls in them,
LEMMA FloatsOfText ==
  ASSUME NEW names, NEW n \in Nat, n > 0, DOMAIN names = 1 .. n, Len(names) = n,
         \A i, k \in 1 .. n : names[i] = names[k] => i = k,
         NEW text, Opens(text, names), NEW types, HoldsNumbers(text, types, n),
         NEW schema, ProposesNumbers(schema, names, types), NEW time_formats,
         from_reader(CSVReader(<<>>, text, 0, QUOTE, SEP), 0, time_formats, schema) # Failure
  PROVE  ReadsFloats(from_reader(CSVReader(<<>>, text, 0, QUOTE, SEP), 0, time_formats, schema), schema)
<1> DEFINE reader == CSVReader(<<>>, text, 0, QUOTE, SEP)
           f == from_reader(reader, 0, time_formats, schema)
           opened == colnames(reader)
           left == rest(skip_lines(opened.reader, 0))
           lines == Kept(left, {line \in Range(left) : line # <<>> /\ Len(line) = Len(opened.line)})
           all == concat_colnames(schema)
           roles == roles_of(schema)
           at(k) == IndexOf(opened.line, all[k])
           place(role, i) == Before(schema, role) + i
           colname_indices == [k \in DOMAIN all |-> at(k)]
           OfLine(k, line) == cell(roles[k], line[colname_indices[k]], time_formats)
           role == "unused_float"
<1>1. /\ opened.line = names /\ left = rest(OpenedText(text).reader)
      /\ left \in Seq(Seq(Seq(Tokens)))
  <2>1. opened = OpenedText(text)
    BY DEF OpenedText
  <2> HIDE DEF opened
  <2> QED
    BY <2>1 DEF Opens
<1>2. role \in Range(AllRoles)
  <2>1. DOMAIN AllRoles = 1 .. 8 /\ AllRoles[7] = "unused_float" /\ 7 \in 1 .. 8
    BY DEF AllRoles
  <2> QED
    BY <2>1 DEF Range
<1> HIDE DEF role
<1>3. f[role] = [i \in DOMAIN schema[role] |->
                   NamedColumn(schema[role][i], [m \in DOMAIN lines |-> OfLine(place(role, i), lines[m])])]
  <2>1. from_reader(reader, 0, time_formats, schema) # Failure
    OBVIOUS
  <2> HIDE DEF reader
  <2> QED
    BY ONLY <1>2, <2>1 DEF from_reader, Vectors, Before
<1> HIDE DEF opened, reader
<1>4. /\ lines \in Seq(Seq(Seq(Tokens)))
      /\ Range(lines) = {line \in Range(left) : line # <<>> /\ Len(line) = n}
  <2> HIDE DEF left
  <2>1. /\ lines \in Seq(Seq(Seq(Tokens)))
        /\ Range(lines) = Range(left) \cap {line \in Range(left) : line # <<>> /\ Len(line) = Len(opened.line)}
    BY ONLY <1>1, KeptTyped
  <2> HIDE DEF lines
  <2> QED
    BY <1>1, <2>1
<1> HIDE DEF lines, left
<1>5. ASSUME NEW i \in DOMAIN schema[role]
      PROVE  \E data \in Seq(ReadNumbers) : f[role][i] = NamedColumn(schema[role][i], data)
  <2> DEFINE k == place(role, i)
  <2>1. k \in DOMAIN all /\ all[k] = schema[role][i] /\ roles[k] = role
    <3>1. \A r \in Range(AllRoles) : schema[r] \in Seq(Range(names))
      BY DEF ProposesNumbers
    <3> QED
      BY ONLY <1>2, <1>5, <3>1, PlaceInSchema
  <2>2. PICK p \in 1 .. n : types[p] # "string" /\ schema[role][i] = names[p]
    BY <1>5 DEF ProposesNumbers, role
  <2>3. at(k) = p
    <3>1. at(k) = IndexOf(names, names[p])
      BY <1>1, <2>1, <2>2
    <3>2. IndexOf(names, names[p]) \in 1 .. n /\ names[IndexOf(names, names[p])] = names[p]
      BY IndexFinds
    <3> HIDE DEF at
    <3> QED
      BY <3>1, <3>2
  <2>4. colname_indices[k] = p
    BY <2>1, <2>3
  <2> DEFINE data == [m \in DOMAIN lines |-> OfLine(k, lines[m])]
  <2>5. f[role][i] = NamedColumn(schema[role][i], data)
    <3> HIDE DEF data, f
    <3>1. f[role] = [j \in DOMAIN schema[role] |->
                   NamedColumn(schema[role][j], [m \in DOMAIN lines |-> OfLine(place(role, j), lines[m])])]
      BY <1>3 DEF f
    <3> HIDE DEF OfLine
    <3> QED
      BY <3>1, <1>5 DEF data
  <2>6. ASSUME NEW m \in DOMAIN lines PROVE OfLine(k, lines[m]) \in ReadNumbers
    <3> DEFINE line == lines[m]
    <3>1. line \in Range(left) /\ line # <<>> /\ Len(line) = n
      BY <1>4 DEF Range
    <3>2. is_double(line[p])
      <4> HIDE DEF line
      <4> QED
        BY <1>1, <2>2, <3>1 DEF HoldsNumbers
    <3>3. line[p] \in Seq(Tokens)
      <4>1. line \in Seq(Seq(Tokens))
        BY <1>4
      <4> HIDE DEF line
      <4> QED
        BY <3>1, <4>1
    <3>4. OfLine(k, line) = get_double(line[p])
      <4>1. OfLine(k, line) = cell(role, line[p], time_formats)
        BY <2>1, <2>4
      <4>2. role \notin StringRoles /\ role # "time_stamp"
        BY DEF role, StringRoles
      <4> HIDE DEF OfLine, line
      <4> QED
        BY <4>1, <4>2 DEF cell
    <3> HIDE DEF OfLine, line
    <3>5. OfLine(k, line) \in ReadNumbers
      BY ONLY <3>2, <3>3, <3>4 DEF ReadNumbers
    <3> QED
      BY <3>5 DEF line
  <2>7. data \in Seq(ReadNumbers)
    <3>1. Len(lines) \in Nat /\ DOMAIN lines = 1 .. Len(lines)
      BY <1>4
    <3> HIDE DEF OfLine, k
    <3> QED
      BY <2>6, <3>1
  <2> HIDE DEF data
  <2> QED
    BY <2>5, <2>7
<1>6. DOMAIN f[role] = DOMAIN schema[role]
  BY <1>3
<1> HIDE DEF f
<1>7. ReadsFloats(f, schema)
  BY <1>5, <1>6 DEF ReadsFloats, role
<1> QED
  BY <1>7 DEF f, reader

\* The columns of floats hold no null.
NoNulls(f) ==
  \A i \in DOMAIN f["unused_float"] : NAN \notin Range(f["unused_float"][i].data)

\* and so are all files.
LEMMA FloatsAppended ==
  ASSUME NEW B \in Nat, B > 0, NEW dfs, DOMAIN dfs = 1 .. B, NEW schema,
         \A b \in 1 .. B : ReadsFloats(dfs[b], schema)
  PROVE  NoNulls(Appended(dfs))
<1> DEFINE f == Appended(dfs)
           role == "unused_float"
           joined(i) == FlattenSeq([b \in DOMAIN dfs |-> dfs[b][role][i].data])
<1>1. role \in Range(AllRoles)
  <2>1. DOMAIN AllRoles = 1 .. 8 /\ AllRoles[7] = "unused_float" /\ 7 \in 1 .. 8
    BY DEF AllRoles
  <2> QED
    BY <2>1 DEF Range
<1> HIDE DEF role
<1>2. DOMAIN dfs[1][role] = DOMAIN schema[role]
  BY 1 \in 1 .. B DEF ReadsFloats, role
<1>3. f[role] = [i \in DOMAIN dfs[1][role] |-> [dfs[1][role][i] EXCEPT !.data = joined(i)]]
  <2> HIDE DEF joined
  <2> QED
    BY <1>1 DEF Appended, joined
<1> HIDE DEF f
<1>4. ASSUME NEW i \in DOMAIN f[role]
      PROVE  NAN \notin Range(f[role][i].data)
  <2> DEFINE parts == [b \in 1 .. B |-> dfs[b][role][i].data]
             x == dfs[1][role][i]
             y == joined(i)
  <2>1. i \in DOMAIN schema[role]
    BY <1>2, <1>3, <1>4
  <2>2. \A b \in 1 .. B : \E data \in Seq(ReadNumbers) : dfs[b][role][i] = NamedColumn(schema[role][i], data)
    BY <2>1 DEF ReadsFloats, role
  <2>3. \A b \in 1 .. B : parts[b] \in Seq(ReadNumbers)
    BY <2>2, ColumnIsNamed
  <2>4. \E data : x = NamedColumn(schema[role][i], data)
    BY <2>2, 1 \in 1 .. B
  <2>5. y = FlattenSeq(parts)
    OBVIOUS
  <2>6. parts = [b \in 1 .. B |-> parts[b]]
    OBVIOUS
  <2>7. f[role][i] = [x EXCEPT !.data = y]
    <3> HIDE DEF y, joined
    <3> QED
      BY <1>2, <1>3, <2>1 DEF y
  <2> HIDE DEF parts, x, y
  <2>8. parts \in Seq(Seq(ReadNumbers)) /\ Len(parts) = B
    BY ONLY <2>3, <2>6, B \in Nat, SequenceOf
  <2>9. y \in Seq(ReadNumbers)
    BY ONLY <2>5, <2>8, B \in Nat, JoinedHasAll
  <2>10. NAN \notin Range(y)
    <3>1. Range(y) \subseteq ReadNumbers
      BY <2>9 DEF Range
    <3> QED
      BY <3>1, NoNullIsRead
  <2>11. f[role][i].data = y
    <3>1. PICK data : x = NamedColumn(schema[role][i], data)
      BY <2>4
    <3>2. f[role][i] = NamedColumn(schema[role][i], y)
      BY ONLY <2>7, <3>1, DataReplaced
    <3> QED
      BY ONLY <3>2, ColumnIsNamed
  <2> QED
    BY <2>10, <2>11
<1> QED
  BY <1>4 DEF NoNulls, f, role

\* A data frame without rows writes no file.
LEMMA NoTexts ==
  ASSUME NEW d, IsDataFrame(d), row_count(d) = 0, NEW batch_size \in Nat
  PROVE  df_to_csv(d, batch_size, QUOTE, SEP) = <<>>
<1> DEFINE reader == DataFrameReader(d, BELL)
           batches == Batches(reader.lines, batch_size)
<1>1. reader.lines = <<>>
  <2>1. reader.lines = [row \in 1 .. row_count(d) |-> row_line(d, row)]
    BY DEF DataFrameReader
  <2>2. 1 .. row_count(d) = {}
    OBVIOUS
  <2> HIDE DEF reader
  <2> QED
    BY <2>1, <2>2
<1>2. df_to_csv(d, batch_size, QUOTE, SEP) = [b \in DOMAIN batches |-> write(batches[b], reader.colnames, QUOTE, SEP)]
  BY DEF df_to_csv
<1> HIDE DEF reader
<1>3. Len(<<>>) = 0
  OBVIOUS
<1>4. DOMAIN batches = {}
  <2>1. CASE batch_size = 0
    BY <1>1, <2>1 DEF Batches
  <2>2. CASE batch_size # 0
    <3>1. (Len(reader.lines) + batch_size - 1) \div batch_size = 0
      BY <1>1, <1>3, <2>2
    <3>2. DOMAIN batches = 1 .. ((Len(reader.lines) + batch_size - 1) \div batch_size)
      BY <2>2, Zenon DEF Batches
    <3> DEFINE m == (Len(reader.lines) + batch_size - 1) \div batch_size
    <3> HIDE DEF m, batches
    <3>3. m = 0 /\ DOMAIN batches = 1 .. m
      BY <3>1, <3>2 DEF m, batches
    <3> QED
      BY ONLY <3>3
  <2> QED
    BY <2>1, <2>2
<1> QED
  BY <1>2, <1>4

\* A data frame that is written to CSV files and read in the roles the sniffer proposes
\* has no nulls in its columns of floats.
LEMMA SniffedRead ==
  ASSUME NEW d, IsDataFrame(d), FitsText(d), NEW batch_size \in Nat, NEW time_formats,
         NEW texts, texts = df_to_csv(d, batch_size, QUOTE, SEP),
         NEW found, found = sniff(<<>>, texts, 0, 0, QUOTE, SEP),
         NEW f, f = from_csv(<<>>, texts, <<QUOTE>>, <<SEP>>, 0, 0, time_formats,
                             Proposed(found.names, found.types)),
         f # Failure
  PROVE  NoNulls(f)
<1> DEFINE L == row_count(d)
           B == BatchCount(L, batch_size)
           n == Len(ColumnNames(d))
           names == ColumnNames(d)
           schema == Proposed(found.names, found.types)
<1>1. L \in Nat
  BY RowCount
<1>2. CASE L = 0
  <2>1. texts = <<>>
    BY <1>2, NoTexts
  <2>2. f = [r \in Range(AllRoles) |-> <<>>]
    <3> HIDE DEF schema
    <3>1. f = from_csv(<<>>, texts, <<QUOTE>>, <<SEP>>, 0, 0, time_formats, schema) /\ f # Failure
      BY DEF schema
    <3> QED
      BY ONLY <2>1, <3>1, Zenon DEF from_csv
  <2>3. "unused_float" \in Range(AllRoles)
    <3>1. DOMAIN AllRoles = 1 .. 8 /\ AllRoles[7] = "unused_float" /\ 7 \in 1 .. 8
      BY DEF AllRoles
    <3> QED
      BY <3>1 DEF Range
  <2>4. DOMAIN f["unused_float"] = {}
    BY ONLY <2>2, <2>3
  <2> QED
    BY <2>4 DEF NoNulls
<1>3. CASE L # 0
  <2>1. L > 0 /\ Columns(d) # <<>>
    BY <1>1, <1>3, RowCount
  <2>2. B \in Nat /\ B > 0
    BY <1>1, <2>1, BatchesFit
  <2>3. /\ DOMAIN texts = 1 .. B
        /\ \A b \in 1 .. B : TextHas(texts[b], d, BatchStart(batch_size, b), BatchRows(L, batch_size, b))
    BY <2>1, TextsWritten
  <2>4. PICK S : Columns(d) \in Seq(S)
    BY FrameColumns
  <2>5. n \in Nat /\ n > 0 /\ DOMAIN names = 1 .. n /\ DOMAIN Columns(d) = 1 .. n /\ names # <<>>
    BY <2>1, <2>4 DEF ColumnNames
  <2>6. \A i, k \in 1 .. n : names[i] = names[k] => i = k
    BY <2>5, NamesDiffer DEF ColumnNames
  <2> HIDE DEF L, B, n
  <2>7. \A b \in 1 .. B : Opens(texts[b], names)
    BY <2>3, <2>5, TextOpens
  <2>8. Len(texts) = B /\ texts # <<>>
    BY <2>2, <2>3
  <2> HIDE DEF names
  <2>9. Sniffs(found, texts, names, n)
    BY <2>2, <2>3, <2>5, <2>7, <2>8, TextsSniffed
  <2>10. /\ found.names = names
         /\ \A b \in 1 .. B : HoldsNumbers(texts[b], found.types, n)
    BY <2>3, <2>9 DEF Sniffs, HoldsNumbers
  <2>11. ProposesNumbers(schema, names, found.types)
    <3> DEFINE T == {names[i] : i \in 1 .. n}
    <3>1. names = [i \in 1 .. n |-> names[i]] /\ \A i \in 1 .. n : names[i] \in T
      BY <2>5 DEF names, ColumnNames
    <3> HIDE DEF T
    <3>2. names \in Seq(T)
      BY ONLY <2>5, <3>1, SequenceOf
    <3>3. ProposesNumbers(Proposed(names, found.types), names, found.types)
      BY ONLY <3>2, RolesProposed
    <3> QED
      BY <2>10, <3>3
  <2> HIDE DEF schema
  <2>12. PICK dfs : ReadsAll(dfs, <<>>, texts, 0, 0, time_formats, schema) /\ f = Appended(dfs)
    <3>1. FromFiles(f, <<>>, texts, 0, 0, time_formats, schema)
      BY DEF FromFiles, schema
    <3>2. OpenedAs(<<>>, 0, names, 0)
      BY DEF OpenedAs
    <3>3. LimitFor(0, 0) = 0
      BY DEF LimitFor
    <3>4. 0 \in 0 .. 1
      OBVIOUS
    <3>5. IsAppended(f, <<>>, texts, LimitFor(0, 0), 0, time_formats, schema)
      BY ONLY <2>8, <3>1, <3>2, <3>4, f # Failure, FilesAppended
    <3> QED
      BY ONLY <3>3, <3>5 DEF IsAppended
  <2>13. ASSUME NEW b \in 1 .. B PROVE ReadsFloats(dfs[b], schema)
    <3>1. /\ dfs[b] = from_reader(CSVReader(<<>>, texts[b], 0, QUOTE, SEP), 0, time_formats, schema)
          /\ dfs[b] # Failure
      BY <2>3, <2>12 DEF ReadsAll
    <3> QED
      BY <2>5, <2>6, <2>7, <2>10, <2>11, <3>1, FloatsOfText
  <2>14. DOMAIN dfs = 1 .. B
    BY <2>3, <2>12 DEF ReadsAll
  <2>15. NoNulls(Appended(dfs))
    BY ONLY <2>2, <2>13, <2>14, FloatsAppended
  <2> QED
    BY <2>12, <2>15
<1> QED
  BY <1>2, <1>3

-----------------------------------------------------------------------------
(* The inductive invariant *)

\* Whether the arrow table is the engine's own, or that of a client.
Own == arrow = df_to_table(df)

\* What the data frame has been written to, and what has been sniffed of it.
IsWritten ==
  /\ df \in Frames
  /\ files # NoFiles => \E batch_size \in BatchSizes :
       files = [texts |-> df_to_csv(df, batch_size, QUOTE, SEP), batch_size |-> batch_size]
  /\ table # Unstored => HoldsRows(table, df)
  /\ arrow # <<>> => HoldsFrame(arrow, df, Own)
  /\ sniffed # Unsniffed =>
       /\ files # NoFiles
       /\ \E found : /\ found = sniff(<<>>, files.texts, sniffed.limit, 0, QUOTE, SEP)
                     /\ sniffed.names = found.names /\ sniffed.types = found.types

\* What has been read as strings says what the data frame holds.
SaysAll(frame) ==
  \A i \in DOMAIN Columns(df) :
    LET item == frame["unused_string"][i]
    IN /\ item.name = Columns(df)[i].col.name
       /\ Len(item.data) = row_count(df)
       /\ Says(Columns(df)[i], item.data, Own)

\* What is read from somewhere has the cells it should have.
Survives(from, frame, skip, lines) ==
  /\ from = "csv" => /\ files # NoFiles
                     /\ FitsCSV(df) => CellsOf(frame) = KeptOf(df, files.batch_size, skip, lines)
  /\ from = "json" => CellsOf(frame) = {<<c.col.name, InJSON(c)>> : c \in Range(Columns(df))}
  /\ from = "db" => CellsOf(frame) = {<<c.col.name, InText(c)>> : c \in Range(Columns(df))}
  /\ from = "query" => CellsOf(frame) = {<<c.col.name, InQuery(c)>> : c \in Range(Columns(df))}
  /\ from = "arrow" => arrow # <<>> /\ SameColumns(df, frame, Own)
  /\ from = "strings" => arrow # <<>> /\ SaysAll(frame)
  /\ from = "sniffed" => sniffed # Unsniffed /\ (sniffed.limit = 0 => NoNulls(frame))

ImportInv == IsWritten /\ Survives(copy.from, copy.frame, copy.skip, copy.lines)

\* The invariant implies what is stated of the cells.
LEMMA InvSurvives == ImportInv => CellsSurvive
<1>1. SUFFICES ASSUME ImportInv PROVE CellsSurvive
  OBVIOUS
<1> DEFINE frame == copy.frame
<1>2. /\ copy.from = "csv" /\ FitsCSV(df) =>
           CellsOf(frame) = KeptOf(df, files.batch_size, copy.skip, copy.lines)
      /\ copy.from = "json" => CellsOf(frame) = {<<c.col.name, InJSON(c)>> : c \in Range(Columns(df))}
      /\ copy.from = "db" => CellsOf(frame) = {<<c.col.name, InText(c)>> : c \in Range(Columns(df))}
      /\ copy.from = "query" => CellsOf(frame) = {<<c.col.name, InQuery(c)>> : c \in Range(Columns(df))}
      /\ copy.from = "arrow" => SameColumns(df, frame, Own)
      /\ copy.from = "strings" => SaysAll(frame)
      /\ copy.from = "sniffed" /\ sniffed.limit = 0 => NoNulls(frame)
  BY <1>1 DEF ImportInv, Survives
<1>3. FilesKeepTheCells
  BY <1>2, Zenon DEF FilesKeepTheCells, KeptOf
<1>4. TablesKeepTheCells
  BY <1>2 DEF TablesKeepTheCells
<1>5. ArrowKeepsTheCells
  BY <1>2, Zenon DEF ArrowKeepsTheCells, SaysAll, SameColumns, Own
<1>6. SniffedNumbersAreRead
  BY <1>2, Zenon DEF SniffedNumbersAreRead, NoNulls
<1> QED
  BY <1>3, <1>4, <1>5, <1>6 DEF CellsSurvive

\* What is read keeps the invariant if it has the cells it should have.
LEMMA ReadKeeps ==
  ASSUME ImportInv, NEW from, NEW frame, NEW skip, NEW lines, Read(from, frame, skip, lines),
         frame # Failure => Survives(from, frame, skip, lines)
  PROVE  ImportInv'
<1>1. /\ UNCHANGED <<df, files, table, arrow, sniffed>>
      /\ copy' = copy \/ (/\ frame # Failure
                          /\ copy'.from = from /\ copy'.frame = frame
                          /\ copy'.skip = skip /\ copy'.lines = lines)
  BY DEF Read
<1>0. Own' = Own
  BY <1>1 DEF Own
<1>2. IsWritten'
  BY <1>0, <1>1 DEF ImportInv, IsWritten
<1>3. Survives(copy.from, copy.frame, copy.skip, copy.lines)'
  <2>1. CASE copy' = copy
    BY <1>0, <1>1, <2>1 DEF ImportInv, Survives, SaysAll
  <2>2. CASE copy' # copy
    <3>1. Survives(copy'.from, copy'.frame, copy'.skip, copy'.lines)
      BY <1>1, <2>2
    <3> QED
      BY <1>0, <1>1, <3>1 DEF Survives, SaysAll
  <2> QED
    BY <2>1, <2>2
<1> QED
  BY <1>2, <1>3 DEF ImportInv

\* Where the data frame is written is free.
LEMMA WriteKeeps ==
  ASSUME ImportInv, Unwritten, UNCHANGED <<df, copy, sniffed>>, IsWritten'
  PROVE  ImportInv'
<1>1. copy.from \notin {"csv", "arrow", "strings"}
  BY DEF ImportInv, Unwritten, Survives
<1>2. Survives(copy.from, copy.frame, copy.skip, copy.lines)'
  BY <1>1 DEF ImportInv, Survives, SaysAll
<1> QED
  BY <1>2 DEF ImportInv

\* The data frames that are written are data frames whose cells are texts of their
\* kind.
LEMMA FramesFit == \A d \in Frames : IsDataFrame(d) /\ FitsText(d)
BY ImportAssumption

\* The step for data frames that are read from CSV files.
LEMMA CSVSurvives ==
  ASSUME ImportInv, files # NoFiles, NEW skip \in 0 .. 1, NEW lines \in 0 .. 1, NEW given, NEW skipped,
         OpenedAs(given, skipped, ColumnNames(df), skip) \/ ColumnNames(df) = <<>>,
         NEW frame, frame = from_csv(given, files.texts, <<QUOTE>>, <<SEP>>, lines, skipped, Formats_,
                                     SchemaOf(df)),
         frame # Failure
  PROVE  Survives("csv", frame, skip, lines)
<1>1. PICK batch_size \in BatchSizes :
        files = [texts |-> df_to_csv(df, batch_size, QUOTE, SEP), batch_size |-> batch_size]
  BY DEF ImportInv, IsWritten
<1>2. files.texts = df_to_csv(df, batch_size, QUOTE, SEP) /\ files.batch_size = batch_size
  BY <1>1
<1>3. batch_size \in Nat /\ ReadsTimes(Formats_)
  BY ImportAssumption
<1>4. IsDataFrame(df) /\ FitsText(df)
  BY FramesFit DEF ImportInv, IsWritten
<1>5. ASSUME FitsCSV(df) PROVE CellsOf(frame) = KeptOf(df, batch_size, skip, lines)
  <2>1. ColumnNames(df) # <<>>
    <3>1. Columns(df) # <<>>
      BY <1>4, <1>5, RowCount DEF FitsCSV
    <3>2. PICK S : Columns(df) \in Seq(S)
      BY <1>4, FrameColumns
    <3> HIDE DEF Columns
    <3>3. DOMAIN ColumnNames(df) = DOMAIN Columns(df)
      BY DEF ColumnNames
    <3> QED
      BY <3>1, <3>2, <3>3
  <2>2. OpenedAs(given, skipped, ColumnNames(df), skip)
    BY <2>1
  <2>3. frame = from_csv(given, df_to_csv(df, batch_size, QUOTE, SEP), <<QUOTE>>, <<SEP>>, lines, skipped,
                         Formats_, SchemaOf(df))
    BY <1>2
  <2> QED
    BY ONLY <1>3, <1>4, <1>5, <2>2, <2>3, frame # Failure, skip \in 0 .. 1, lines \in 0 .. 1, FilesRead
<1>6. "csv" \notin {"json", "db", "query", "arrow", "strings", "sniffed"}
  OBVIOUS
<1> QED
  BY ONLY files # NoFiles, <1>2, <1>5, <1>6 DEF Survives

\* Reading CSV files keeps the invariant,
LEMMA CSVKept == ImportInv /\ ReadCSV => ImportInv'
<1>1. SUFFICES ASSUME ImportInv, ReadCSV PROVE ImportInv'
  OBVIOUS
<1> DEFINE names == concat_colnames([r \in Range(AllRoles) |-> [i \in DOMAIN df[r] |-> df[r][i].name]])
           named(skip, lines) == from_csv(names, files.texts, <<QUOTE>>, <<SEP>>, lines, skip + 1, Formats_,
                                          SchemaOf(df))
           unnamed(skip, lines) == from_csv(<<>>, files.texts, <<QUOTE>>, <<SEP>>, lines, skip, Formats_,
                                            SchemaOf(df))
<1>2. names = ColumnNames(df)
  BY <1>1, FramesFit, NamesInOrder DEF ImportInv, IsWritten
<1>3. files # NoFiles
  BY <1>1 DEF ReadCSV
<1> HIDE DEF names
<1>4. PICK skip \in 0 .. 1, lines \in 0 .. 1 :
        Read("csv", named(skip, lines), skip, lines) \/ Read("csv", unnamed(skip, lines), skip, lines)
  <2>1. PICK skip \in 0 .. 1, lines \in 0 .. 1, is_named \in BOOLEAN :
          Read("csv", IF is_named THEN named(skip, lines) ELSE unnamed(skip, lines), skip, lines)
    BY <1>1, Zenon DEF ReadCSV, names
  <2> HIDE DEF named, unnamed
  <2>2. CASE is_named
    BY <2>1, <2>2
  <2>3. CASE ~ is_named
    BY <2>1, <2>3
  <2> QED
    BY <2>2, <2>3
<1>5. named(skip, lines) # Failure => Survives("csv", named(skip, lines), skip, lines)
  <2>1. OpenedAs(names, skip + 1, ColumnNames(df), skip) \/ ColumnNames(df) = <<>>
    BY <1>2 DEF OpenedAs
  <2> QED
    BY ONLY <1>1, <1>3, <2>1, skip \in 0 .. 1, lines \in 0 .. 1, CSVSurvives
<1>6. unnamed(skip, lines) # Failure => Survives("csv", unnamed(skip, lines), skip, lines)
  <2>1. OpenedAs(<<>>, skip, ColumnNames(df), skip) \/ ColumnNames(df) = <<>>
    BY DEF OpenedAs
  <2> QED
    BY ONLY <1>1, <1>3, <2>1, skip \in 0 .. 1, lines \in 0 .. 1, CSVSurvives
<1> HIDE DEF named, unnamed
<1> QED
  BY ONLY <1>1, <1>4, <1>5, <1>6, ReadKeeps

\* JSON and the tables of a database.
LEMMA JSONKept == ImportInv /\ ReadJSON => ImportInv'
<1>1. SUFFICES ASSUME ImportInv, ReadJSON PROVE ImportInv'
  OBVIOUS
<1> DEFINE frame == from_json(JSONOf(df), Formats_, SchemaOf(df))
<1>2. Read("json", frame, 0, 0)
  BY <1>1, Zenon DEF ReadJSON
<1>3. IsDataFrame(df)
  BY <1>1, FramesFit DEF ImportInv, IsWritten
<1>4. frame # Failure => CellsOf(frame) = {<<c.col.name, InJSON(c)>> : c \in Range(Columns(df))}
  BY ONLY <1>3, ObjectKeepsCells
<1> HIDE DEF frame
<1>5. frame # Failure => Survives("json", frame, 0, 0)
  BY <1>4 DEF Survives
<1> QED
  BY ONLY <1>1, <1>2, <1>5, ReadKeeps

\* so does reading a table or a query,
LEMMA TableKept == ImportInv /\ (ReadDB \/ ReadQuery) => ImportInv'
<1>1. SUFFICES ASSUME ImportInv, ReadDB \/ ReadQuery PROVE ImportInv'
  OBVIOUS
<1> DEFINE asked == from_db(table, SchemaOf(df), DBFormats)
           queried == from_query(table, SchemaOf(df), DBFormats)
<1>2. table # Unstored /\ (Read("db", asked, 0, 0) \/ Read("query", queried, 0, 0))
  BY <1>1, Zenon DEF ReadDB, ReadQuery
<1>3. IsDataFrame(df) /\ FitsText(df) /\ HoldsRows(table, df) /\ ReadsTimes(DBFormats)
  BY <1>1, <1>2, FramesFit, ImportAssumption DEF ImportInv, IsWritten
<1>4. /\ asked # Failure =>
           CellsOf(asked) = {<<c.col.name, InText(c)>> : c \in Range(Columns(df))}
      /\ CellsOf(queried) = {<<c.col.name, InQuery(c)>> : c \in Range(Columns(df))}
  BY ONLY <1>3, StoredRowsRead
<1> HIDE DEF asked, queried
<1>5. asked # Failure => Survives("db", asked, 0, 0)
  BY <1>4 DEF Survives
<1>6. Survives("query", queried, 0, 0)
  BY <1>4 DEF Survives
<1> QED
  BY ONLY <1>1, <1>2, <1>5, <1>6, ReadKeeps

\* Arrow tables.
LEMMA ArrowKept == ImportInv /\ ReadArrow => ImportInv'
<1>1. SUFFICES ASSUME ImportInv, ReadArrow PROVE ImportInv'
  OBVIOUS
<1> DEFINE frame == table_to_df(arrow, SchemaOf(df))
<1>2. arrow # <<>> /\ Read("arrow", frame, 0, 0)
  BY <1>1, Zenon DEF ReadArrow
<1>3. IsDataFrame(df) /\ HoldsFrame(arrow, df, Own)
  BY <1>1, <1>2, FramesFit DEF ImportInv, IsWritten
<1>4. frame # Failure => SameColumns(df, frame, Own)
  BY ONLY <1>3, TableKeepsCells
<1> HIDE DEF frame
<1>5. frame # Failure => Survives("arrow", frame, 0, 0)
  BY <1>2, <1>4 DEF Survives
<1> QED
  BY ONLY <1>1, <1>2, <1>5, ReadKeeps

\* an arrow table as strings,
LEMMA StringsKeptAsRead == ImportInv /\ ReadStrings => ImportInv'
<1>1. SUFFICES ASSUME ImportInv, ReadStrings PROVE ImportInv'
  OBVIOUS
<1> DEFINE schema == [r \in Range(AllRoles) |->
                        IF r = "unused_string" THEN [i \in DOMAIN arrow |-> arrow[i].name] ELSE <<>>]
           frame == table_to_df(arrow, schema)
<1>2. arrow # <<>> /\ Read("strings", frame, 0, 0)
  BY <1>1, Zenon DEF ReadStrings
<1>3. df \in Frames /\ IsDataFrame(df) /\ HoldsFrame(arrow, df, Own)
  BY <1>1, <1>2, FramesFit DEF ImportInv, IsWritten
<1>4. /\ \A role \in Range(AllRoles) : schema[role] \in Seq(Strings)
      /\ DOMAIN schema["unused_string"] = DOMAIN Columns(df)
      /\ \A i \in DOMAIN Columns(df) : schema["unused_string"][i] = Columns(df)[i].col.name
  BY ONLY <1>3, NamesOfTable
<1> HIDE DEF schema
<1>5. frame # Failure => SaysAll(frame)
  BY ONLY <1>3, <1>4, StringsSayAll DEF SaysAll
<1> HIDE DEF frame
<1>6. frame # Failure => Survives("strings", frame, 0, 0)
  BY <1>2, <1>5 DEF Survives
<1> QED
  BY ONLY <1>1, <1>2, <1>6, ReadKeeps

\* The sniffer.
LEMMA SniffedKept == ImportInv /\ ReadSniffed => ImportInv'
<1>1. SUFFICES ASSUME ImportInv, ReadSniffed PROVE ImportInv'
  OBVIOUS
<1> DEFINE schema == Proposed(sniffed.names, sniffed.types)
           frame == from_csv(<<>>, files.texts, <<QUOTE>>, <<SEP>>, 0, 0, Formats_, schema)
<1>2. sniffed # Unsniffed /\ Read("sniffed", frame, 0, 0)
  BY <1>1, Zenon DEF ReadSniffed, Proposed
<1>3. /\ df \in Frames /\ IsDataFrame(df) /\ FitsText(df) /\ files # NoFiles
      /\ \E found : /\ found = sniff(<<>>, files.texts, sniffed.limit, 0, QUOTE, SEP)
                    /\ sniffed.names = found.names /\ sniffed.types = found.types
  BY <1>1, <1>2, FramesFit DEF ImportInv, IsWritten
<1>4. PICK batch_size \in BatchSizes :
        files = [texts |-> df_to_csv(df, batch_size, QUOTE, SEP), batch_size |-> batch_size]
  BY <1>1, <1>3 DEF ImportInv, IsWritten
<1>5. batch_size \in Nat /\ files.texts = df_to_csv(df, batch_size, QUOTE, SEP)
  BY <1>4, ImportAssumption
<1>6. ASSUME sniffed.limit = 0, frame # Failure PROVE NoNulls(frame)
  <2>1. PICK found : /\ found = sniff(<<>>, files.texts, 0, 0, QUOTE, SEP)
                     /\ sniffed.names = found.names /\ sniffed.types = found.types
    BY <1>3, <1>6
  <2>2. frame = from_csv(<<>>, files.texts, <<QUOTE>>, <<SEP>>, 0, 0, Formats_,
                         Proposed(found.names, found.types))
    BY <2>1
  <2> HIDE DEF frame
  <2> QED
    BY ONLY <1>3, <1>5, <1>6, <2>1, <2>2, SniffedRead
<1> HIDE DEF frame
<1>7. frame # Failure => Survives("sniffed", frame, 0, 0)
  BY <1>2, <1>6 DEF Survives
<1> QED
  BY ONLY <1>1, <1>2, <1>7, ReadKeeps

\* or sniffing files.
LEMMA SniffKept == ImportInv /\ SniffCSV => ImportInv'
<1>1. SUFFICES ASSUME ImportInv, SniffCSV PROVE ImportInv'
  OBVIOUS
<1>2. files # NoFiles /\ sniffed = Unsniffed /\ UNCHANGED <<df, files, table, arrow, copy>>
  BY <1>1 DEF SniffCSV
<1>3. PICK limit \in Limits :
        LET found == sniff(<<>>, files.texts, limit, 0, QUOTE, SEP)
        IN sniffed' = [names |-> found.names, types |-> found.types, limit |-> limit]
  BY <1>1 DEF SniffCSV
<1> DEFINE result == sniff(<<>>, files.texts, limit, 0, QUOTE, SEP)
<1>4. sniffed'.names = result.names /\ sniffed'.types = result.types /\ sniffed'.limit = limit
  <2>1. sniffed' = [names |-> result.names, types |-> result.types, limit |-> limit]
    BY <1>3
  <2> HIDE DEF result
  <2> QED
    BY <2>1
<1>5. \E found : /\ found = sniff(<<>>, files'.texts, sniffed'.limit, 0, QUOTE, SEP)
                 /\ sniffed'.names = found.names /\ sniffed'.types = found.types
  BY <1>2, <1>4
<1>0. Own' = Own
  BY <1>2 DEF Own
<1>6. IsWritten'
  BY <1>0, <1>1, <1>2, <1>5 DEF ImportInv, IsWritten
<1>7. copy.from # "sniffed"
  BY <1>1, <1>2 DEF ImportInv, Survives
<1>8. Survives(copy.from, copy.frame, copy.skip, copy.lines)'
  BY <1>0, <1>1, <1>2, <1>7 DEF ImportInv, Survives, SaysAll
<1> QED
  BY <1>6, <1>8 DEF ImportInv

\* Writing.
LEMMA WritesKept == ImportInv /\ (to_csv \/ to_db \/ to_arrow \/ to_parquet \/ SendTable) => ImportInv'
<1>1. SUFFICES ASSUME ImportInv, to_csv \/ to_db \/ to_arrow \/ to_parquet \/ SendTable PROVE ImportInv'
  OBVIOUS
<1>2. df \in Frames /\ IsDataFrame(df) /\ FitsText(df)
  BY <1>1, FramesFit DEF ImportInv, IsWritten
<1>3. CASE to_csv
  <2>1. Unwritten /\ UNCHANGED <<df, table, arrow, copy, sniffed>>
    BY <1>3 DEF to_csv
  <2>2. PICK batch_size \in BatchSizes :
          files' = [texts |-> df_to_csv(df, batch_size, QUOTE, SEP), batch_size |-> batch_size]
    BY <1>3 DEF to_csv
  <2>3. sniffed = Unsniffed
    BY <1>1, <2>1 DEF ImportInv, IsWritten, Unwritten
  <2>4. IsWritten'
    BY <1>1, <2>1, <2>2, <2>3 DEF ImportInv, IsWritten, Unwritten
  <2> QED
    BY ONLY <1>1, <2>1, <2>4, WriteKeeps
<1>4. CASE to_db
  <2>1. Unwritten /\ UNCHANGED <<df, files, arrow, copy, sniffed>> /\ table' = df_to_db(df)
    BY <1>4 DEF to_db
  <2>2. HoldsRows(table', df')
    BY <1>2, <2>1, RowsStored
  <2>3. IsWritten'
    BY <1>1, <2>1, <2>2 DEF ImportInv, IsWritten, Unwritten
  <2> QED
    BY ONLY <1>1, <2>1, <2>3, WriteKeeps
<1>5. CASE to_arrow \/ to_parquet
  <2>1. to_arrow
    BY <1>5 DEF to_parquet
  <2>2. Unwritten /\ UNCHANGED <<df, files, table, copy, sniffed>> /\ arrow' = df_to_table(df)
    BY <2>1 DEF to_arrow
  <2>3. HoldsFrame(arrow', df', Own')
    <3>1. Own'
      BY <2>2 DEF Own
    <3> QED
      BY <1>2, <2>2, <3>1, TableHolds
  <2>4. IsWritten'
    BY <1>1, <2>2, <2>3 DEF ImportInv, IsWritten
  <2> QED
    BY ONLY <1>1, <2>2, <2>4, WriteKeeps
<1>6. CASE SendTable
  <2>1. Unwritten /\ UNCHANGED <<df, files, table, copy, sniffed>>
    BY <1>6 DEF SendTable
  <2>2. PICK layout \in Layouts :
          arrow' = [i \in DOMAIN Columns(df) |->
                      [name |-> Columns(df)[i].col.name, array |-> Laid(layout, Columns(df)[i])]]
    BY <1>6 DEF SendTable
  <2>3. HoldsFrame(arrow', df', Own')
    <3>1. CASE Own'
      <4>1. arrow' = df_to_table(df)
        BY <2>1, <3>1 DEF Own
      <4> QED
        BY <1>2, <2>1, <3>1, <4>1, TableHolds
    <3>2. CASE ~Own'
      <4>1. Own' = FALSE
        BY <3>2 DEF Own
      <4>2. HoldsFrame([i \in DOMAIN Columns(df) |->
                          [name |-> Columns(df)[i].col.name,
                           array |-> Laid(layout, Columns(df)[i])]], df, Own')
        BY ONLY <1>2, <4>1, layout \in Layouts, SentTableHolds
      <4> QED
        BY ONLY <2>1, <2>2, <4>2
    <3> QED
      BY <3>1, <3>2
  <2>4. IsWritten'
    BY <1>1, <2>1, <2>3 DEF ImportInv, IsWritten
  <2> QED
    BY ONLY <1>1, <2>1, <2>4, WriteKeeps
<1> QED
  BY <1>1, <1>3, <1>4, <1>5, <1>6

\* A cell comes back from CSV files and from a table of a database as its text there
\* says, from JSON as it was sent, and from an arrow table as it was but for what UTF-8
\* and floating point leave out; and a column the sniffer takes for one of numbers is read
\* as numbers (DataFrame.cpp, DataFrameReader.cpp, CSVReader.cpp, Sniffer.cpp,
\* ArrowHandler.cpp).  For all data frames, and whatever rounding does within its bounds.
THEOREM CellsAlwaysSurvive == ImportSpec => []CellsSurvive
<1>1. ImportInit => ImportInv
  <2>1. "nothing" \notin {"csv", "json", "db", "query", "arrow", "strings", "sniffed"}
    OBVIOUS
  <2> QED
    BY <2>1 DEF ImportInit, ImportInv, IsWritten, Survives, Nothing
<1>2. ImportInv /\ [ImportNext]_importVars => ImportInv'
  <2>1. SUFFICES ASSUME ImportInv, [ImportNext]_importVars PROVE ImportInv'
    OBVIOUS
  <2>2. CASE UNCHANGED importVars
    BY <2>1, <2>2 DEF importVars, ImportInv, IsWritten, Survives, SaysAll, Own
  <2>3. CASE ImportNext
    <3>1. \/ to_csv \/ to_db \/ to_arrow \/ to_parquet \/ SendTable
          \/ ReadCSV \/ ReadJSON \/ ReadDB \/ ReadQuery
          \/ ReadArrow \/ ReadStrings \/ SniffCSV \/ ReadSniffed
      BY <2>3 DEF ImportNext
    <3> QED
      BY ONLY <2>1, <3>1, WritesKept, CSVKept, JSONKept, TableKept, ArrowKept, StringsKeptAsRead,
              SniffKept, SniffedKept
  <2> QED
    BY <2>1, <2>2, <2>3
<1> QED
  BY <1>1, <1>2, InvSurvives, PTL DEF ImportSpec
=============================================================================
