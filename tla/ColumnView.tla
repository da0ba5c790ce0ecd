------------------------------ MODULE ColumnView ------------------------------
(***************************************************************************)
(* containers::ColumnView (containers/ColumnView.hpp,                      *)
(* ColumnViewIterator.hpp): columns that are computed when they are read,  *)
(* from the expressions of commands (engine/handlers/FloatOpParser.cpp,    *)
(* BoolOpParser.cpp, StringOpParser.cpp).                                  *)
(*                                                                         *)
(* A view is a function from row numbers to values, together with what is  *)
(* known of its number of rows.  The function of a boolean selection       *)
(* remembers how far it got, so every access may change the view, and the  *)
(* views it is made of; copies of views have memories of their own.        *)
(* Values are integers, null is -1, truth values are 0 and 1.              *)
(***************************************************************************)
EXTENDS Integers, SequencesExt, FiniteSetsExt

CONSTANTS Exprs,         \* the expressions clients send
          ViewedColumns, \* the columns of the data frames: name to values
          Horizon,       \* bound: rows that are read of a view without end
          MaxReads       \* bound: calls on one view

VARIABLES expr,      \* the expression
          view,      \* the view that was parsed from it, or Refused
          answer,    \* of the latest call
          reads      \* the number of calls

vars == <<expr, view, answer, reads>>

NULL == -1
INFINITE == -1       \* nrows of a view without end
NOT_KNOWABLE == -2   \* nrows of a view whose end shows when it is read
NoLength == -1       \* no expected length is passed

Refused == [kind |-> "refused"]

None == [kind |-> "none", v |-> 0]
Value(v) == [kind |-> "value", v |-> v]
Throw == [kind |-> "throw", v |-> 0]

HasValue(r) == r.kind = "value"

Known(v) == v.nrows >= 0

-----------------------------------------------------------------------------
(* Operators on values: NaN and null strings *)

Truth(b) == IF b THEN 1 ELSE 0

Apply(op, a, b) ==
  CASE op = "plus"    -> IF NULL \in {a, b} THEN NULL ELSE a + b
    [] op = "concat"  -> IF NULL \in {a, b} THEN NULL ELSE 10 * a + b
    [] op = "greater" -> Truth(NULL \notin {a, b} /\ a > b)
    [] op = "and"     -> Truth(a = 1 /\ b = 1)

ApplyUn(op, a) ==
  CASE op = "abs"       -> a
    [] op = "is_null"   -> Truth(a = NULL)
    [] op = "not"       -> 1 - a
    [] op = "as_num"    -> a
    [] op = "as_string" -> a

-----------------------------------------------------------------------------
(* Construction: what of the number of rows is known in advance is checked *)

from_column(values) ==
  [kind |-> "column", nrows |-> Len(values), values |-> values]

from_value(v) == [kind |-> "value", nrows |-> INFINITE, v |-> v]

rowid == [kind |-> "rowid", nrows |-> INFINITE]

arange(start, stop, step) ==
  IF step = 0 \/ (stop - start) * step < 0 THEN Refused
  ELSE [kind |-> "arange", start |-> start, stop |-> stop, step |-> step,
        nrows |-> LET d == IF step > 0 THEN stop - start ELSE start - stop
                      s == IF step > 0 THEN step ELSE -step
                  IN d \div s + (IF d % s = 0 THEN 0 ELSE 1)]

from_un_op(op, a) == [kind |-> "un", nrows |-> a.nrows, op |-> op, a |-> a]

SizesClash(a, b) == Known(a) /\ Known(b) /\ a.nrows # b.nrows

NRowsOf(operands) ==
  LET i == SelectInSeq(operands, Known)
  IN IF i # 0 THEN operands[i].nrows
     ELSE IF \E v \in Range(operands) : v.nrows = NOT_KNOWABLE THEN NOT_KNOWABLE
     ELSE INFINITE

from_bin_op(op, a, b) ==
  IF SizesClash(a, b) THEN Refused
  ELSE [kind |-> "bin", nrows |-> NRowsOf(<<a, b>>), op |-> op, a |-> a, b |-> b]

\* b where c is true, and a elsewhere.
from_tern_op(a, b, c) ==
  IF SizesClash(a, b) \/ SizesClash(a, c) \/ (~Known(a) /\ SizesClash(b, c))
  THEN Refused
  ELSE [kind |-> "tern", nrows |-> NRowsOf(<<a, b, c>>), a |-> a, b |-> b, c |-> c]

\* find_next has its own copies of the data and the indices; own is the copy
\* the value is taken from.
from_boolean_subselection(data, indices) ==
  IF data.nrows = INFINITE \/ SizesClash(data, indices) THEN Refused
  ELSE [kind |-> "where", nrows |-> NOT_KNOWABLE, data |-> data,
        indices |-> indices, own |-> data, index |-> 0, next |-> 0]

from_numerical_subselection(data, indices) ==
  [kind |-> "at", nrows |-> NOT_KNOWABLE, data |-> data, indices |-> indices]

-----------------------------------------------------------------------------
(* Access: the value of row i, and the view afterwards *)

Got(v, r) == [view |-> v, res |-> r]

\* An operand that ended while another one, which should end, goes on.
Mismatch(ops, results) ==
  \E j \in 1..Len(ops) : results[j].kind = "value" /\ ops[j].nrows # INFINITE

\* The first operand that has no value decides: if another one has a value and
\* is not infinite, the numbers of rows do not match.
Combined(ops, results, v) ==
  IF \E r \in Range(results) : r.kind = "throw" THEN Throw
  ELSE IF \A r \in Range(results) : HasValue(r) THEN Value(v)
  ELSE IF Mismatch(ops, results) THEN Throw ELSE None

RECURSIVE Access(_, _), FindNext(_, _, _, _)

\* The skip'th next true index, from row ix on.
FindNext(data, indices, ix, skip) ==
  LET val == Access(indices, ix)
      dat == Access(data, ix)
      Here(r) == [data |-> dat.view, indices |-> val.view, res |-> r]
  IN IF "throw" \in {val.res.kind, dat.res.kind} THEN Here(Throw)
     ELSE IF ~HasValue(val.res) THEN Here(IF HasValue(dat.res) THEN Throw ELSE None)
     ELSE IF ~HasValue(dat.res) THEN Here(IF indices.nrows # INFINITE THEN Throw ELSE None)
     ELSE IF val.res.v = 1 /\ skip = 0 THEN Here(Value(ix))
     ELSE FindNext(dat.view, val.view, ix + 1, IF val.res.v = 1 THEN skip - 1 ELSE skip)

\* Mutant: a row that was read before is looked for from where it got to.
SelectedRowOnwards(v, i) ==
  FindNext(v.data, v.indices, v.index, IF i >= v.next THEN i - v.next ELSE i)

\* A later row is found from where the last one was, an earlier one from the start.
SelectedRow(v, i) ==
  IF i < v.next THEN FindNext(v.data, v.indices, 0, i)
  ELSE FindNext(v.data, v.indices, v.index, i - v.next)

AccessWhere(v, i) ==
  LET found == SelectedRow(v, i)
      after == [v EXCEPT !.data = found.data, !.indices = found.indices]
  IN IF ~HasValue(found.res) THEN Got(after, found.res)
     ELSE LET own == Access(v.own, found.res.v)
          IN Got([after EXCEPT !.own = own.view, !.index = found.res.v + 1, !.next = i + 1],
                 own.res)

AccessAt(v, i) ==
  LET ix == Access(v.indices, i)
      after == [v EXCEPT !.indices = ix.view]
  IN IF ~HasValue(ix.res) THEN Got(after, ix.res)
     ELSE IF ix.res.v < 0 THEN Got(after, Throw)
     ELSE LET dat == Access(v.data, ix.res.v)
          IN Got([after EXCEPT !.data = dat.view], dat.res)

AccessArange(v, i) ==
  LET r == v.start + v.step * i
  IN IF v.start = v.stop \/ (v.stop > v.start /\ r >= v.stop)
                         \/ (v.stop < v.start /\ r <= v.stop)
     THEN None ELSE Value(r)

AccessBin(v, i) ==
  LET a == Access(v.a, i)
      b == Access(v.b, i)
  IN Got([v EXCEPT !.a = a.view, !.b = b.view],
         Combined(<<v.a, v.b>>, <<a.res, b.res>>, Apply(v.op, a.res.v, b.res.v)))

AccessTern(v, i) ==
  LET a == Access(v.a, i)
      b == Access(v.b, i)
      c == Access(v.c, i)
  IN Got([v EXCEPT !.a = a.view, !.b = b.view, !.c = c.view],
         Combined(<<v.a, v.b, v.c>>, <<a.res, b.res, c.res>>,
                  IF c.res.v = 1 THEN b.res.v ELSE a.res.v))

AccessUn(v, i) ==
  LET a == Access(v.a, i)
  IN Got([v EXCEPT !.a = a.view],
         IF HasValue(a.res) THEN Value(ApplyUn(v.op, a.res.v)) ELSE a.res)

Access(v, i) ==
  CASE v.kind = "column" -> Got(v, IF i >= v.nrows THEN None ELSE Value(v.values[i + 1]))
    [] v.kind = "value"  -> Got(v, Value(v.v))
    [] v.kind = "rowid"  -> Got(v, Value(i))
    [] v.kind = "arange" -> Got(v, AccessArange(v, i))
    [] v.kind = "un"     -> AccessUn(v, i)
    [] v.kind = "bin"    -> AccessBin(v, i)
    [] v.kind = "tern"   -> AccessTern(v, i)
    [] v.kind = "where"  -> AccessWhere(v, i)
    [] v.kind = "at"     -> AccessAt(v, i)

-----------------------------------------------------------------------------
(* Parsing: an expression is a sequence, the operator first *)

RECURSIVE FloatOp(_), BoolOp(_), StringOp(_)

\* The operands are parsed first; a view that was refused makes the whole refused.
Build(operands, F(_)) ==
  IF \E v \in Range(operands) : v.kind = "refused" THEN Refused ELSE F(operands)

Subselection(data, e) ==
  IF e[1] = "where"
  THEN Build(<<data, BoolOp(e[3])>>, LAMBDA o : from_boolean_subselection(o[1], o[2]))
  ELSE Build(<<data, FloatOp(e[3])>>, LAMBDA o : from_numerical_subselection(o[1], o[2]))

UnOp(op, operand) == Build(<<operand>>, LAMBDA o : from_un_op(op, o[1]))

BinOp(op, operand1, operand2) ==
  Build(<<operand1, operand2>>, LAMBDA o : from_bin_op(op, o[1], o[2]))

update(operand1, operand2, condition) ==
  Build(<<operand1, operand2, condition>>, LAMBDA o : from_tern_op(o[1], o[2], o[3]))

get_column(name) ==
  IF name \in DOMAIN ViewedColumns THEN from_column(ViewedColumns[name]) ELSE Refused

FloatOp(e) ==
  CASE e[1] = "column" -> get_column(e[2])
    [] e[1] = "const"  -> from_value(e[2])
    [] e[1] = "rowid"  -> rowid
    [] e[1] = "arange" -> arange(e[2], e[3], e[4])
    [] e[1] = "abs"    -> UnOp("abs", FloatOp(e[2]))
    [] e[1] = "as_num" -> UnOp("as_num", BoolOp(e[2]))
    [] e[1] = "plus"   -> BinOp("plus", FloatOp(e[2]), FloatOp(e[3]))
    [] e[1] = "update" -> update(FloatOp(e[2]), FloatOp(e[3]), BoolOp(e[4]))
    [] e[1] \in {"where", "at"} -> Subselection(FloatOp(e[2]), e)
    [] OTHER           -> StringOp(e)

BoolOp(e) ==
  CASE e[1] = "true"    -> from_value(1)
    [] e[1] = "greater" -> BinOp("greater", FloatOp(e[2]), FloatOp(e[3]))
    [] e[1] = "and"     -> BinOp("and", BoolOp(e[2]), BoolOp(e[3]))
    [] e[1] = "not"     -> UnOp("not", BoolOp(e[2]))
    [] e[1] = "is_null" -> UnOp("is_null", FloatOp(e[2]))
    [] e[1] \in {"where", "at"} -> Subselection(BoolOp(e[2]), e)

StringOp(e) ==
  CASE e[1] = "concat"    -> BinOp("concat", FloatOp(e[2]), FloatOp(e[3]))
    [] e[1] = "as_string" -> UnOp("as_string", FloatOp(e[2]))

-----------------------------------------------------------------------------
(* Reading *)

\* The values from row i on, until there is none or n were read.
RECURSIVE ReadRows(_, _, _, _)
ReadRows(v, i, n, rows) ==
  IF n = 0 THEN [view |-> v, rows |-> rows, threw |-> FALSE]
  ELSE LET a == Access(v, i)
       IN IF HasValue(a.res) THEN ReadRows(a.view, i + 1, n - 1, Append(rows, a.res.v))
          ELSE [view |-> a.view, rows |-> rows, threw |-> a.res.kind = "throw"]

\* The length, and whether it is known.
calc_expected_length(v, begin, length, must) ==
  IF length # NoLength THEN <<length, must>>
  ELSE IF Known(v) THEN <<v.nrows - begin, TRUE>>
  ELSE <<Horizon + 1, FALSE>>

check_expected_length(v, expected, must, length) ==
  /\ ~(must /\ Known(v) /\ v.nrows # expected)
  /\ ~(length = NoLength /\ v.nrows = INFINITE)

check_exceeds_expected(v, begin, must, expected) ==
  must /\ v.nrows = NOT_KNOWABLE /\ HasValue(Access(v, begin + expected).res)

Rows(call, rows) == [call |-> call, refused |-> FALSE, rows |-> rows]
RefusedCall(call) == [call |-> call, refused |-> TRUE, rows |-> <<>>]

to_vector(v, begin, length, must) ==
  LET call == <<"to_vector", begin, length, must>>
      exp  == calc_expected_length(v, begin, length, must)
  IN IF ~check_expected_length(v, exp[1], must, length) THEN <<v, RefusedCall(call)>>
     ELSE LET read == ReadRows(v, begin, exp[1], <<>>)
          IN IF \/ read.threw
                \/ (exp[2] \/ must) /\ Len(read.rows) # exp[1]
                \/ check_exceeds_expected(read.view, begin, must, exp[1])
             THEN <<read.view, RefusedCall(call)>>
             ELSE <<read.view, Rows(call, read.rows)>>

\* An iterator has a copy of the function.
to_array(v) ==
  LET read == ReadRows(v, 0, Horizon + 1, <<>>)
  IN IF v.nrows = INFINITE \/ read.threw THEN <<v, RefusedCall(<<"to_array">>)>>
     ELSE <<v, Rows(<<"to_array">>, read.rows)>>

calc_nrows(v) ==
  LET read == ReadRows(v, 0, Horizon + 1, <<>>)
  IN IF Known(v) THEN <<v, Rows(<<"calc_nrows">>, <<v.nrows>>)>>
     ELSE IF v.nrows = INFINITE THEN <<v, Rows(<<"calc_nrows">>, <<>>)>>
     ELSE IF read.threw THEN <<read.view, RefusedCall(<<"calc_nrows">>)>>
     ELSE <<read.view, Rows(<<"calc_nrows">>, <<Len(read.rows)>>)>>

unique(v) ==
  LET read == ReadRows(v, 0, Horizon + 1, <<>>)
  IN IF v.nrows = INFINITE THEN <<v, RefusedCall(<<"unique">>)>>
     ELSE IF read.threw THEN <<read.view, RefusedCall(<<"unique">>)>>
     ELSE <<read.view, Rows(<<"unique">>, SetToSortSeq(Range(read.rows) \ {NULL}, <))>>

-----------------------------------------------------------------------------
(* Calls on one view *)

Init ==
  /\ expr \in Exprs
  /\ view = FloatOp(expr)
  /\ answer = Rows(<<"none">>, <<>>)
  /\ reads = 0

Call(F(_)) ==
  /\ view # Refused /\ reads < MaxReads
  /\ LET a == F(view)
     IN view' = a[1] /\ answer' = a[2]
  /\ reads' = reads + 1
  /\ UNCHANGED expr

ToVector ==
  \/ \E begin \in 0..2, length \in 0..2 : Call(LAMBDA v : to_vector(v, begin, length, FALSE))
  \/ \E length \in 0..3 : Call(LAMBDA v : to_vector(v, 0, length, TRUE))
  \/ Call(LAMBDA v : to_vector(v, 0, NoLength, FALSE))

ToArray == Call(to_array)

CalcNRows == Call(calc_nrows)

Unique == Call(unique)

Done == reads = MaxReads \/ view = Refused

Next == ToVector \/ ToArray \/ CalcNRows \/ Unique \/ (Done /\ UNCHANGED vars)

Spec == Init /\ [][Next]_vars

-----------------------------------------------------------------------------
(* What an expression means: its rows, up to the horizon when it is without *)
(* end, and whether operands have different numbers of rows                 *)

RECURSIVE Meaning(_)

All(n, F(_)) == [i \in 1..n |-> F(i)]

\* Operands side by side; those without end follow the others.
SideBySide(ms, F(_)) ==
  LET finite == {i \in DOMAIN ms : ~ms[i].inf}
      n == IF finite = {} THEN Horizon ELSE Min({Len(ms[i].s) : i \in finite})
  IN [inf |-> finite = {},
      bad |-> \/ \E m \in Range(ms) : m.bad
              \/ \E i, j \in finite : Len(ms[i].s) # Len(ms[j].s),
      s   |-> All(n, LAMBDA i : F([j \in DOMAIN ms |-> ms[j].s[i]]))]

Meaning(e) ==
  CASE e[1] = "column" -> [inf |-> FALSE, bad |-> FALSE, s |-> ViewedColumns[e[2]]]
    [] e[1] = "const"  -> [inf |-> TRUE, bad |-> FALSE, s |-> All(Horizon, LAMBDA i : e[2])]
    [] e[1] = "true"   -> [inf |-> TRUE, bad |-> FALSE, s |-> All(Horizon, LAMBDA i : 1)]
    [] e[1] = "rowid"  -> [inf |-> TRUE, bad |-> FALSE, s |-> All(Horizon, LAMBDA i : i - 1)]
    [] e[1] = "arange" ->
         LET in == {i \in 0..Horizon : IF e[4] > 0 THEN e[2] + i * e[4] < e[3]
                                                   ELSE e[2] + i * e[4] > e[3]}
         IN [inf |-> FALSE, bad |-> FALSE,
             s |-> All(Cardinality(in), LAMBDA i : e[2] + (i - 1) * e[4])]
    [] e[1] \in {"abs", "as_num", "not", "is_null", "as_string"} ->
         SideBySide(<<Meaning(e[2])>>, LAMBDA r : ApplyUn(e[1], r[1]))
    [] e[1] \in {"plus", "concat", "greater", "and"} ->
         SideBySide(<<Meaning(e[2]), Meaning(e[3])>>, LAMBDA r : Apply(e[1], r[1], r[2]))
    [] e[1] = "update" ->
         SideBySide(<<Meaning(e[2]), Meaning(e[3]), Meaning(e[4])>>,
             LAMBDA r : IF r[3] = 1 THEN r[2] ELSE r[1])
    [] e[1] = "where" ->
         LET pairs == SideBySide(<<Meaning(e[2]), Meaning(e[3])>>, LAMBDA r : r)
             kept  == SelectSeq(pairs.s, LAMBDA r : r[2] = 1)
         IN [inf |-> FALSE, bad |-> pairs.bad, s |-> All(Len(kept), LAMBDA i : kept[i][1])]
    [] e[1] = "at" ->
         LET data == Meaning(e[2])
             ixs  == Meaning(e[3])
             n    == SelectInSeq(ixs.s, LAMBDA x : x < 0 \/ x >= Len(data.s))
         IN [inf |-> FALSE, bad |-> data.bad \/ ixs.bad \/ (n # 0 /\ ~ixs.inf),
             s |-> All(IF n = 0 THEN Len(ixs.s) ELSE n - 1, LAMBDA i : data.s[ixs.s[i] + 1])]

-----------------------------------------------------------------------------
(* Properties *)

\* A number of rows that is known in advance is the number of rows there are.
TypeOK ==
  /\ view # Refused =>
       /\ view.nrows \in Nat \cup {INFINITE, NOT_KNOWABLE}
       /\ Known(view) /\ ~Meaning(expr).bad => view.nrows = Len(Meaning(expr).s)
  /\ answer.refused \in BOOLEAN /\ answer.rows \in Seq(Int)
  /\ reads \in 0..MaxReads

\* Whatever was read of a view before, and in whatever order the rows of the
\* views inside it were read, a call returns the rows the expression means:
\* reading is const.  (ColumnView::from_boolean_subselection keeps where it got
\* to between accesses.)
ReadsFollowMeaning ==
  LET m == Meaning(expr)
  IN view # Refused /\ ~answer.refused /\ ~m.bad =>
       CASE answer.call[1] = "to_vector" ->
              LET begin == answer.call[2]
                  last  == IF answer.call[3] = NoLength THEN Len(m.s) ELSE begin + answer.call[3]
              IN answer.rows = SubSeq(m.s, begin + 1, Min({last, Len(m.s)}))
         [] answer.call[1] = "to_array"   -> answer.rows = m.s
         [] answer.call[1] = "calc_nrows" -> answer.rows = IF m.inf THEN <<>> ELSE <<Len(m.s)>>
         [] answer.call[1] = "unique"     -> Range(answer.rows) = Range(m.s) \ {NULL}
         [] OTHER -> TRUE

\* A call with a number of rows that must match is answered exactly when the
\* view has that many rows, known in advance or not, and a view without end is
\* only read up to a given length.  Nothing else is refused.
OnlyWrongLengthsAreRefused ==
  LET m == Meaning(expr)
      call == answer.call
  IN view # Refused /\ call[1] # "none" /\ ~m.bad =>
       (answer.refused <=>
          \/ call[1] = "to_vector" /\ (call[4] /\ ~m.inf /\ call[3] # Len(m.s))
          \/ call[1] = "to_vector" /\ call[3] = NoLength /\ m.inf
          \/ call[1] \in {"to_array", "unique"} /\ m.inf)

=============================================================================
