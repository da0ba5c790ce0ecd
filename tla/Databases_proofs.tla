--------------------------- MODULE Databases_proofs ---------------------------
(***************************************************************************)
(* Proofs about Databases: the locks exclude, iterators see one table, and *)
(* a file is in a table as a whole or not at all.                          *)
(*                                                                         *)
(* What a thread still has to do is a sequence of steps.  Moves says what  *)
(* a step does to what the thread has (its account: locks, a transaction,  *)
(* the rows it has inserted), and what it must have for the step to be     *)
(* right; Runs that a sequence of steps leads from one account to another. *)
(* The handlers are put together from sequences that run, so they run; and *)
(* the invariant Inv says that the rest of the steps of every thread runs  *)
(* from an account that agrees with the variables.                         *)
(***************************************************************************)
EXTENDS Databases, RecursionTheorems, SequenceTheorems, FiniteSetTheorems

Rows == OldRows \cup ((Threads \cup {Nobody}) \X Int)

Ops == {"append", "close", "copy", "end try", "enter", "execute", "fetch", "insert", "leave",
        "list", "lock", "look", "new_db", "select", "send", "throw", "try", "unlock"}

Statements == {"BEGIN", "COMMIT", "CREATE", "DROP", "INSERT", "ROLLBACK", "SELECT"}

Notes == {"", "Success!", "again", "colnames", "coltypes", "error", "insert", "page", "post",
          "same", "select", "types", "write"}

Whats == Statements \cup Notes \cup DBs \cup Seq(Rows)

Steps == [op : Ops, db : DBs \cup Connections \cup {""}, what : Whats]

-----------------------------------------------------------------------------
(* Accounts *)

SomeDB == DBs \cup {Nobody}

Kinds == {"reads", "copies", "drops", "executes", "other"}

\* What a thread has: the database it iterates over, the one it has locked for
\* writing, the one whose transaction it rolls back when it fails, and the one on
\* which it has begun a transaction; how far the file is that it reads (MySQL: in
\* bulks, into the database at), with the rows that are in and those that have to
\* be; and whether it has answered.  It is lax if it may be told that its file was
\* read when it was not.
Accounts ==
  [kind : Kinds, lax : BOOLEAN,
   reading : SomeDB, writing : SomeDB, trying : SomeDB, own : SomeDB,
   stage : {"before", "bulks", "inside", "stored"}, at : SomeDB,
   got : SUBSET Rows, wanted : SUBSET Rows, answered : BOOLEAN]

Start(kind, lax, wanted) ==
  [kind |-> kind, lax |-> lax,
   reading |-> Nobody, writing |-> Nobody, trying |-> Nobody, own |-> Nobody,
   stage |-> "before", at |-> Nobody, got |-> {}, wanted |-> wanted, answered |-> FALSE]

\* A thread may fail unless it has stored what it was asked to read; in its try
\* block only as long as its transaction is open.
CanFail(a) ==
  /\ a.trying # Nobody => a.own = a.trying
  /\ ~ (a.kind = "reads" /\ a.stage = "stored")

InFile(a) == [a EXCEPT !.stage = "stored", !.own = Nobody, !.at = Nobody, !.got = {},
                       !.wanted = {}]

\* All rows are in, though no step says so.
Settles(a, b) ==
  \/ b = a
  \/ /\ a.stage \in {"before", "bulks"} /\ a.got = a.wanted /\ ~ a.answered
     /\ b = InFile(a)

\* A statement.
Begins(a, s, b) ==
  /\ s.what = "BEGIN" /\ locked(s.db) /\ a.trying = Nobody
  /\ a.stage = "before" /\ a.kind \in {"reads", "copies"}
  /\ b = [a EXCEPT !.own = s.db, !.stage = "inside"]

Commits(a, s, b) ==
  /\ s.what = "COMMIT" /\ a.own = s.db /\ a.writing = Nobody /\ a.got = a.wanted
  /\ ~ a.answered
  /\ b = InFile(a)

RollsBack(a, s, b) ==
  /\ s.what = "ROLLBACK" /\ a.own = s.db /\ a.writing = Nobody
  /\ b = [a EXCEPT !.own = Nobody, !.stage = "before", !.got = {}]

Creates(a, s, b) ==
  /\ s.what = "CREATE" /\ b = a
  /\ a.kind = "drops" \/ (a.kind = "copies" /\ a.stage = "before")

DropsIt(a, s, b) == s.what = "DROP" /\ a.kind = "drops" /\ b = a

InsertsOne(a, s, b) == s.what = "INSERT" /\ a.kind \in {"drops", "executes"} /\ b = a

Executes(a, s, b) ==
  \/ Begins(a, s, b)
  \/ Commits(a, s, b)
  \/ RollsBack(a, s, b)
  \/ Creates(a, s, b)
  \/ DropsIt(a, s, b)
  \/ InsertsOne(a, s, b)
  \/ s.what = "SELECT" /\ b = a

\* Rows into the table.
Inserts(t, a, s, b) ==
  /\ s.op = "insert" /\ a.writing = s.db /\ a.own = s.db /\ s.what \in Seq({t} \X Int)
  /\ b = [a EXCEPT !.got = @ \cup Range(s.what)]

Appends(t, a, s, b) ==
  /\ s.op = "append" /\ a.kind \in {"reads", "copies"} /\ s.what \in Seq({t} \X Int)
  /\ ~ a.answered
  /\ \/ /\ Dialect[s.db] = "postgres" /\ a.stage = "before" /\ Range(s.what) = a.wanted
        /\ b = InFile(a)
     \/ /\ Dialect[s.db] = "mysql"
        /\ a.stage = "before" \/ (a.stage = "bulks" /\ a.at = s.db)
        /\ b = [a EXCEPT !.stage = "bulks", !.at = s.db, !.got = @ \cup Range(s.what)]

\* The answer.
Sends(a, s, b) ==
  /\ \/ /\ s.what = "Success!"
        /\ a.kind \in {"reads", "copies"} => a.stage = "stored" \/ a.lax
     \/ s.what = "error" /\ ~ (a.kind = "reads" /\ a.stage = "stored")
  /\ b = [a EXCEPT !.answered = TRUE]

\* What step s of thread t makes of account a.  Steps that may wait for a lock or
\* need the table may fail.
Moves(t, a, s, b) ==
  \/ s.op = "look" /\ s.db \in DBs /\ CanFail(a) /\ b = a
  \/ s.op = "list" /\ s.db \in Connections /\ CanFail(a) /\ b = a
  \/ s.op = "execute" /\ s.db \in DBs /\ CanFail(a) /\ Executes(a, s, b)
  \/ s.op = "throw" /\ CanFail(a) /\ b \in Accounts
  \/ /\ s.op = "try" /\ s.db \in DBs /\ a.own = s.db
     /\ b = [a EXCEPT !.trying = s.db]
  \/ s.op = "end try" /\ a.own = Nobody /\ b = [a EXCEPT !.trying = Nobody]
  \/ /\ s.op = "lock" /\ s.db \in DBs /\ a.own = s.db /\ a.writing = Nobody /\ a.got = {}
     /\ b = [a EXCEPT !.writing = s.db]
  \/ s.op = "unlock" /\ s.db \in DBs /\ a.writing = s.db /\ b = [a EXCEPT !.writing = Nobody]
  \/ s.db \in DBs /\ CanFail(a) /\ (Inserts(t, a, s, b) \/ Appends(t, a, s, b))
  \/ /\ s.op = "copy" /\ s.db \in DBs /\ a.kind = "copies" /\ a.stage = "before"
     /\ a.trying = Nobody /\ ~ a.answered
     /\ b = InFile(a)
  \/ /\ s.op = "select" /\ s.db \in DBs /\ a.reading = Nobody /\ CanFail(a)
     /\ b = [a EXCEPT !.reading = s.db]
  \/ /\ s.op \in {"fetch", "close"} /\ s.db \in DBs /\ a.reading = s.db
     /\ b = [a EXCEPT !.reading = Nobody]
  \/ s.op \in {"enter", "leave"} /\ b = a
  \/ /\ s.op = "new_db" /\ s.db \in Connections /\ s.what \in DBs /\ LeadsTo(s.db, s.what)
     /\ b = a
  \/ s.op = "send" /\ Sends(a, s, b)

\* The steps s lead from account a to account b.
Runs(t, s, a, b) ==
  /\ s \in Seq(Steps)
  /\ \E W \in [0 .. Len(s) -> Accounts] :
       /\ W[0] = a /\ Settles(W[Len(s)], b)
       /\ \A i \in 1 .. Len(s) : \E c \in Accounts :
            Settles(W[i - 1], c) /\ Moves(t, c, s[i], W[i])

-----------------------------------------------------------------------------
(* The invariant *)

Kind(r) ==
  CASE r.cmd = "read_csv"   -> "reads"
    [] r.cmd = "copy_table" -> "copies"
    [] r.cmd = "drop_table" -> "drops"
    [] r.cmd = "execute"    ->
         IF Range(r.queries) \cap {"DROP", "CREATE"} # {} THEN "drops" ELSE "executes"
    [] OTHER -> "other"

Lax(r) ==
  r.cmd = "read_csv" /\ \E db \in DBs : Dialect[db] = "postgres" /\ LeadsTo(r.conn, db)

Wanted(t, r) ==
  IF r.cmd = "read_csv" THEN {Row(t, i) : i \in {j \in DOMAIN r.lines : r.lines[j] = "row"}}
  ELSE {}

\* The rows of thread t among rows.
Mine(t, rows) == {row \in Range(rows) : row[1] = t}

NobodyDrops(t) == \A u \in Threads \ {t} : ~Drops(u)

NoneThere(t, db) == Mine(t, tables[db]) = {} /\ Mine(t, tx[db].saved) = {}

\* What account a says about the rows of t: none is there; those of the bulks so
\* far are, unless dropped; those inserted so far are, but would not be after a
\* rollback; all are or none is, whatever is rolled back.
RowsBefore(t, a) == a.got = {} /\ \A db \in DBs : NoneThere(t, db)

RowsInBulks(t, a) ==
  /\ a.at \in DBs /\ Dialect[a.at] = "mysql"
  /\ \A db \in DBs : Dialect[db] # "mysql" => NoneThere(t, db)
  /\ NobodyDrops(t) => a.got \subseteq Mine(t, tables[a.at])

RowsInside(t, a) ==
  /\ \A db \in DBs \ {a.own} : NoneThere(t, db)
  /\ Mine(t, tx[a.own].saved) = {}
  /\ Mine(t, tables[a.own]) \in {{}, a.got}
  /\ a.writing # Nobody \/ NobodyDrops(t) => Mine(t, tables[a.own]) = a.got

RowsStored(t, a) ==
  /\ \A db \in DBs : Dialect[db] # "mysql" =>
       /\ Mine(t, tables[db]) \in {{}, RowsWanted(t)}
       /\ Mine(t, tx[db].saved) \in {{}, RowsWanted(t)}
       /\ answers[t] = <<"error">> /\ a.kind = "reads" => NoneThere(t, db)
  /\ NobodyDrops(t) => \E db \in DBs :
       /\ RowsWanted(t) \subseteq Mine(t, tables[db])
       /\ tx[db].open => RowsWanted(t) \subseteq Mine(t, tx[db].saved)

RowsAgree(t, a) ==
  /\ a.stage = "before" => RowsBefore(t, a)
  /\ a.stage = "bulks"  => RowsInBulks(t, a)
  /\ a.stage = "inside" => RowsInside(t, a)
  /\ a.stage = "stored" /\ Reads(t) => RowsStored(t, a)
  /\ a.stage # "stored" /\ Reads(t) => a.wanted = RowsWanted(t)

\* What it says about the locks, the transaction and the iterator of t.
SeesOneTable(t) ==
  \A i \in DOMAIN seen[t].rows :
    \/ seen[t].rows[i] = Row(Nobody, 0)
    \/ i \in DOMAIN seen[t].at /\ seen[t].rows[i] = seen[t].at[i]

LocksAgree(t, a) ==
  /\ a.trying = catch[t]
  /\ a.own # Nobody <=> a.stage = "inside"
  /\ a.own # Nobody => tx[a.own].open
  /\ a.own # Nobody => a.kind \in {"reads", "copies"}
  /\ a.writing # Nobody => a.own = a.writing
  /\ \A db \in DBs : writer[db] = t <=> a.writing = db
  /\ \A db \in DBs : t \in readers[db] <=> a.reading = db /\ locked(db)
  /\ a.reading # Nobody /\ locked(a.reading) => seen[t].at = tables[a.reading]
  /\ SeesOneTable(t)

\* What it says about the request and the answers of t.
AnswersAgree(t, a) ==
  /\ a.kind = Kind(req[t])
  /\ a.lax <=> Lax(req[t])
  /\ a.answered <=> answers[t] # <<>>
  /\ Reads(t) /\ answers[t] # <<>> /\ answers[t][1] = "Success!" => a.stage = "stored" \/ a.lax

\* Account a is what thread t has.
Agrees(t, a) ==
  /\ AnswersAgree(t, a)
  /\ LocksAgree(t, a)
  /\ a.kind \notin {"drops", "executes"} => RowsAgree(t, a)

\* What a thread that was not asked yet has.
Idle(a) == a = Start("other", FALSE, {})

\* What a thread is asked, or reads as part of copy_table.
Copied == [cmd : {"copy_table"}, header : {TRUE}, lines : Seq({"row"})]

Asked == (UNION {Requests[t] : t \in Threads}) \cup {NotAsked} \cup Copied

Types ==
  /\ connector_map \in [Connections -> DBs]
  /\ \A conn \in Connections : LeadsTo(conn, connector_map[conn])
  /\ tables \in [DBs -> Seq(Rows)]
  /\ tx \in [DBs -> [open : BOOLEAN, saved : Seq(Rows)]]
  /\ readers \in [DBs -> SUBSET Threads]
  /\ writer \in [DBs -> Threads \cup {Nobody}]
  /\ posting \subseteq Threads
  /\ steps \in [Threads -> Seq(Steps)]
  /\ catch \in [Threads -> SomeDB]
  /\ seen \in [Threads -> [at : Seq(Rows), rows : Seq(Rows)]]
  /\ answers \in [Threads -> Seq({"Success!", "error"})]
  /\ req \in [Threads -> Asked]

\* Transactions and locks are those of SQLite.
Exclusion ==
  \A db \in DBs :
    /\ tx[db].open => locked(db)
    /\ writer[db] # Nobody => readers[db] = {} /\ locked(db)

\* The rest of the steps of every thread runs from what it has, and every
\* transaction is that of one thread.
Accounted(a) ==
  /\ \A t \in Threads :
       /\ Agrees(t, a[t])
       /\ \E b \in Accounts : b.reading = Nobody /\ Runs(t, steps[t], a[t], b)
       /\ req[t] = NotAsked => Idle(a[t]) /\ steps[t] = <<>>
  /\ \A t, u \in Threads : a[t].own # Nobody /\ a[t].own = a[u].own => t = u

Inv == Types /\ Exclusion /\ \E a \in [Threads -> Accounts] : Accounted(a)

-----------------------------------------------------------------------------
(* Runs of steps *)

\* A handler starts with an account of its kind.
LEMMA StartType ==
  ASSUME NEW kind \in Kinds, NEW lax \in BOOLEAN, NEW wanted \in SUBSET Rows
  PROVE  Start(kind, lax, wanted) \in Accounts
BY DEF Start, Accounts, SomeDB

\* An account whose rows are all in the table is an account.
LEMMA InFileType ==
  ASSUME NEW a \in Accounts
  PROVE  InFile(a) \in Accounts
BY DEF InFile, Accounts, SomeDB

\* So is what becomes of an account when all its rows are in, though no step says
\* so.
LEMMA SettlesType ==
  ASSUME NEW a \in Accounts, NEW b, Settles(a, b)
  PROVE  b \in Accounts
BY InFileType DEF Settles

\* What has settled cannot settle again.
LEMMA SettlesTwice ==
  ASSUME NEW a \in Accounts, NEW b, NEW c, Settles(a, b), Settles(b, c)
  PROVE  Settles(a, c)
<1>1. CASE b = a
  BY <1>1
<1>2. CASE b = InFile(a)
  <2>1. b.stage = "stored"
    BY <1>2 DEF InFile, Accounts
  <2> QED
    BY <2>1 DEF Settles
<1> QED
  BY <1>1, <1>2 DEF Settles

\* Without steps an account stays, or settles.
LEMMA RunsNothing ==
  ASSUME NEW t, NEW a \in Accounts, NEW b, Settles(a, b)
  PROVE  Runs(t, <<>>, a, b)
<1> DEFINE W == [i \in 0 .. 0 |-> a]
<1>1. W \in [0 .. Len(<<>>) -> Accounts] /\ W[0] = a /\ Len(<<>>) = 0
  OBVIOUS
<1>2. <<>> \in Seq(Steps) /\ 1 .. Len(<<>>) = {}
  OBVIOUS
<1> HIDE DEF W
<1> QED
  BY <1>1, <1>2 DEF Runs

\* One step runs as it moves the account.
LEMMA RunsOne ==
  ASSUME NEW t, NEW s \in Steps, NEW a \in Accounts, NEW b \in Accounts, Moves(t, a, s, b)
  PROVE  Runs(t, <<s>>, a, b)
<1> DEFINE W == [i \in 0 .. 1 |-> IF i = 0 THEN a ELSE b]
<1>1. W \in [0 .. Len(<<s>>) -> Accounts] /\ W[0] = a /\ W[Len(<<s>>)] = b
  OBVIOUS
<1>2. Settles(W[Len(<<s>>)], b) /\ Settles(W[0], a)
  BY <1>1 DEF Settles
<1>3. <<s>> \in Seq(Steps)
  OBVIOUS
<1>4. \A i \in 1 .. Len(<<s>>) : i = 1 /\ <<s>>[i] = s
  OBVIOUS
<1> HIDE DEF W
<1>5. \A i \in 1 .. Len(<<s>>) : \E c \in Accounts :
        Settles(W[i - 1], c) /\ Moves(t, c, <<s>>[i], W[i])
  <2> TAKE i \in 1 .. Len(<<s>>)
  <2>1. i = 1 /\ <<s>>[i] = s /\ Len(<<s>>) = 1
    BY <1>4
  <2>2. Settles(W[i - 1], a) /\ Moves(t, a, <<s>>[i], W[i])
    BY <1>1, <1>2, <2>1
  <2> QED
    BY <2>2
<1> QED
  BY <1>1, <1>2, <1>3, <1>5 DEF Runs

\* Steps that run from one account to another are a sequence of steps.
LEMMA RunsTypes ==
  ASSUME NEW t, NEW s, NEW a, NEW b, Runs(t, s, a, b)
  PROVE  s \in Seq(Steps) /\ a \in Accounts /\ b \in Accounts
<1>1. PICK W \in [0 .. Len(s) -> Accounts] : W[0] = a /\ Settles(W[Len(s)], b)
  BY DEF Runs
<1>2. s \in Seq(Steps) /\ Len(s) \in Nat
  BY DEF Runs
<1>3. W[0] \in Accounts /\ W[Len(s)] \in Accounts
  BY <1>1, <1>2
<1> QED
  BY <1>1, <1>2, <1>3, SettlesType

\* What runs one after the other runs in a row.
LEMMA RunsJoin ==
  ASSUME NEW t, NEW s, NEW u, NEW a, NEW b, NEW c, Runs(t, s, a, b), Runs(t, u, b, c)
  PROVE  Runs(t, s \o u, a, c)
<1>1. PICK V \in [0 .. Len(s) -> Accounts] :
        /\ V[0] = a /\ Settles(V[Len(s)], b)
        /\ \A i \in 1 .. Len(s) : \E d \in Accounts : Settles(V[i - 1], d) /\ Moves(t, d, s[i], V[i])
  BY DEF Runs
<1>2. PICK W \in [0 .. Len(u) -> Accounts] :
        /\ W[0] = b /\ Settles(W[Len(u)], c)
        /\ \A i \in 1 .. Len(u) : \E d \in Accounts : Settles(W[i - 1], d) /\ Moves(t, d, u[i], W[i])
  BY DEF Runs
<1>3. s \in Seq(Steps) /\ u \in Seq(Steps)
  BY DEF Runs
<1> DEFINE m == Len(s)
           n == Len(u)
           X == [i \in 0 .. m + n |-> IF i <= m THEN V[i] ELSE W[i - m]]
<1>4. m \in Nat /\ n \in Nat
  BY <1>3
<1>5. s \o u \in Seq(Steps) /\ Len(s \o u) = m + n
  BY <1>3, ConcatProperties
<1>6. \A i \in 1 .. m + n : (s \o u)[i] = IF i <= m THEN s[i] ELSE u[i - m]
  BY <1>3, ConcatProperties
<1> HIDE DEF m, n
<1>7. X \in [0 .. m + n -> Accounts]
  BY <1>1, <1>2, <1>4 DEF m, n
<1>8. X[0] = a
  BY <1>1, <1>4
<1> HIDE DEF X
<1>11. \A i \in 0 .. m + n : X[i] = IF i <= m THEN V[i] ELSE W[i - m]
  BY DEF X
<1>9. Settles(X[m + n], c)
  <2>1. CASE n = 0
    <3>1. X[m + n] = V[m] /\ V[m] \in Accounts
      BY <1>1, <1>4, <1>11, <2>1 DEF m
    <3>2. Settles(V[m], b) /\ Settles(b, c)
      BY <1>1, <1>2, <2>1 DEF m, n
    <3> QED
      BY <3>1, <3>2, SettlesTwice
  <2>2. CASE n # 0
    <3>1. X[m + n] = W[n]
      BY <1>4, <1>11, <2>2
    <3> QED
      BY <1>2, <3>1 DEF n
  <2> QED
    BY <2>1, <2>2
<1>10. ASSUME NEW i \in 1 .. m + n
       PROVE  \E d \in Accounts : Settles(X[i - 1], d) /\ Moves(t, d, (s \o u)[i], X[i])
  <2>1. CASE i <= m
    <3>1. X[i - 1] = V[i - 1] /\ X[i] = V[i] /\ (s \o u)[i] = s[i] /\ i \in 1 .. Len(s)
      BY <1>4, <1>6, <1>11, <2>1 DEF m
    <3> QED
      BY <1>1, <3>1
  <2>2. CASE i = m + 1
    <3>0. 1 \in 1 .. Len(u) /\ i - 1 \in 0 .. m + n /\ i \in 0 .. m + n /\ i - m = 1
          /\ i - 1 = m /\ ~ (i <= m)
      BY <1>4, <2>2 DEF n
    <3>1. X[i - 1] = V[m] /\ X[i] = W[1] /\ (s \o u)[i] = u[1] /\ 1 \in 1 .. Len(u)
      <4>1. X[i - 1] = V[i - 1]
        BY <1>4, <1>11, <3>0, <2>2
      <4>2. X[i] = W[i - m]
        BY <1>4, <1>11, <3>0
      <4>3. (s \o u)[i] = u[i - m]
        BY <1>4, <1>6, <3>0
      <4> QED
        BY <3>0, <4>1, <4>2, <4>3
    <3>2. PICK d \in Accounts : Settles(b, d) /\ Moves(t, d, u[1], W[1])
      BY <1>2, <3>1
    <3>3. Settles(V[m], b) /\ V[m] \in Accounts
      BY <1>1, <1>4 DEF m
    <3>4. Settles(V[m], d)
      BY <3>2, <3>3, SettlesTwice
    <3> QED
      BY <3>1, <3>2, <3>4
  <2>3. CASE i > m + 1
    <3>0. i - 1 \in 0 .. m + n /\ i \in 0 .. m + n /\ (i - 1) - m = (i - m) - 1
          /\ ~ (i - 1 <= m) /\ ~ (i <= m)
      BY <1>4, <2>3
    <3>1. X[i - 1] = W[(i - m) - 1] /\ X[i] = W[i - m] /\ (s \o u)[i] = u[i - m]
      BY <1>4, <1>6, <1>11, <3>0
    <3>2. i - m \in 1 .. Len(u)
      BY <1>4, <2>3 DEF n
    <3> QED
      BY <1>2, <3>1, <3>2
  <2>4. i <= m \/ i = m + 1 \/ i > m + 1
    BY <1>4
  <2> QED
    BY <2>1, <2>2, <2>3, <2>4, Zenon
<1> QED
  BY <1>5, <1>7, <1>8, <1>9, <1>10 DEF Runs

\* What is left after the first step runs.
LEMMA RunsTail ==
  ASSUME NEW t, NEW s, s # <<>>, NEW a, NEW b, Runs(t, s, a, b)
  PROVE  /\ Head(s) \in Steps
         /\ \E c, d \in Accounts : /\ Settles(a, c) /\ Moves(t, c, Head(s), d)
                                   /\ Runs(t, Tail(s), d, b)
<1>1. PICK W \in [0 .. Len(s) -> Accounts] :
        /\ W[0] = a /\ Settles(W[Len(s)], b)
        /\ \A i \in 1 .. Len(s) : \E d \in Accounts : Settles(W[i - 1], d) /\ Moves(t, d, s[i], W[i])
  BY DEF Runs
<1>2. s \in Seq(Steps)
  BY DEF Runs
<1> DEFINE m == Len(s)
           X == [i \in 0 .. m - 1 |-> W[i + 1]]
<1>3. m \in Nat /\ m > 0
  BY <1>2
<1>4. Head(s) \in Steps /\ Head(s) = s[1]
  BY <1>2, HeadTailProperties
<1>5. Tail(s) \in Seq(Steps) /\ Len(Tail(s)) = m - 1
      /\ \A i \in 1 .. m - 1 : Tail(s)[i] = s[i + 1]
  BY <1>2, HeadTailProperties
<1> HIDE DEF m
<1>6. X \in [0 .. m - 1 -> Accounts] /\ X[0] = W[1] /\ X[m - 1] = W[m]
  BY <1>1, <1>3 DEF m
<1>7. ASSUME NEW i \in 1 .. m - 1
      PROVE  \E d \in Accounts : Settles(X[i - 1], d) /\ Moves(t, d, Tail(s)[i], X[i])
  <2>1. X[i - 1] = W[i] /\ X[i] = W[i + 1] /\ Tail(s)[i] = s[i + 1]
    BY <1>3, <1>5
  <2>2. i + 1 \in 1 .. Len(s) /\ (i + 1) - 1 = i
    BY <1>3 DEF m
  <2> QED
    BY <1>1, <2>1, <2>2
<1>8. Runs(t, Tail(s), W[1], b)
  <2> HIDE DEF X
  <2>1. Settles(X[m - 1], b)
    BY <1>1, <1>6 DEF m
  <2> QED
    BY <1>5, <1>6, <1>7, <2>1 DEF Runs
<1>9. 1 \in 1 .. Len(s) /\ W[1] \in Accounts
  BY <1>1, <1>3 DEF m
<1>10. PICK c \in Accounts : Settles(W[0], c) /\ Moves(t, c, s[1], W[1])
  BY <1>1, <1>9
<1> QED
  BY <1>1, <1>4, <1>8, <1>9, <1>10

\* What runs piece by piece runs in a row.
LEMMA RunsFlat ==
  ASSUME NEW t, NEW seqs \in Seq(Seq(Steps)), NEW A \in [0 .. Len(seqs) -> Accounts],
         \A i \in 1 .. Len(seqs) : Runs(t, seqs[i], A[i - 1], A[i])
  PROVE  Runs(t, FlattenSeq(seqs), A[0], A[Len(seqs)])
<1>1. PICK F \in [0 .. Len(seqs) -> Seq(Steps)] :
        /\ F[0] = <<>> /\ FlattenSeq(seqs) = F[Len(seqs)]
        /\ \A i \in 1 .. Len(seqs) : F[i] = F[i - 1] \o seqs[i]
  BY Flattens
<1> DEFINE n == Len(seqs)
           T == {k \in 0 .. n : Runs(t, F[k], A[0], A[k])}
<1>2. n \in Nat
  OBVIOUS
<1> HIDE DEF n
<1>3. 0 \in T
  <2>1. A[0] \in Accounts
    BY <1>2 DEF n
  <2> QED
    BY <1>1, <1>2, <2>1, RunsNothing DEF Settles
<1>4. ASSUME NEW k \in 0 .. n - 1, k \in T PROVE k + 1 \in T
  <2>1. k + 1 \in 1 .. Len(seqs) /\ (k + 1) - 1 = k /\ k + 1 \in 0 .. n
    BY <1>2 DEF n
  <2>2. F[k + 1] = F[k] \o seqs[k + 1] /\ Runs(t, seqs[k + 1], A[k], A[k + 1])
    BY <1>1, <2>1
  <2>3. Runs(t, F[k], A[0], A[k])
    BY <1>4
  <2>4. Runs(t, F[k] \o seqs[k + 1], A[0], A[k + 1])
    BY <2>2, <2>3, RunsJoin
  <2> QED
    BY <2>1, <2>2, <2>4
<1> HIDE DEF T
<1>5. n \in T
  <2>1. 0 .. n \subseteq T
    BY <1>2, <1>3, <1>4, BoundedInduction
  <2> QED
    BY <1>2, <2>1
<1> QED
  BY <1>1, <1>5 DEF T, n

-----------------------------------------------------------------------------
(* The handlers run *)

\* Looking up a connection changes nothing.
LEMMA LookRuns ==
  ASSUME NEW t, NEW db \in DBs, NEW what \in Whats, NEW a \in Accounts, CanFail(a)
  PROVE  Runs(t, <<Step("look", db, what)>>, a, a)
<1>1. Moves(t, a, Step("look", db, what), a)
  BY DEF Moves, Step
<1>2. Step("look", db, what) \in Steps
  BY DEF Step, Steps, Ops, Whats, Notes, Statements
<1> QED
  BY <1>1, <1>2, RunsOne

\* After an error there is nothing more to run.
LEMMA ThrowRuns ==
  ASSUME NEW t, NEW db \in DBs, NEW what \in Whats, NEW a \in Accounts, CanFail(a),
         NEW b \in Accounts
  PROVE  Runs(t, <<Step("throw", db, what)>>, a, b)
<1>1. Moves(t, a, Step("throw", db, what), b)
  BY DEF Moves, Step
<1>2. Step("throw", db, what) \in Steps
  BY DEF Step, Steps, Ops, Whats, Notes, Statements
<1> QED
  BY <1>1, <1>2, RunsOne

\* A statement runs with its lock, and leaves the account that its effect asks for.
LEMMA ExecuteRuns ==
  ASSUME NEW t, NEW db \in DBs, NEW statement \in Statements, NEW a \in Accounts, CanFail(a),
         NEW b \in Accounts, Executes(a, Step("execute", db, statement), b)
  PROVE  Runs(t, execute(db, statement), a, b)
<1>1. Moves(t, a, Step("execute", db, statement), b)
  BY DEF Moves, Step
<1>2. Step("execute", db, statement) \in Steps
  BY DEF Step, Steps, Ops, Whats, Notes, Statements
<1> QED
  BY <1>1, <1>2, RunsOne DEF execute

\* An iterator is opened, and read to its end or closed.
LEMMA IteratorRuns ==
  ASSUME NEW t, NEW db \in DBs, NEW a \in Accounts, CanFail(a), a.reading = Nobody
  PROVE  /\ [a EXCEPT !.reading = db] \in Accounts
         /\ CanFail([a EXCEPT !.reading = db])
         /\ Runs(t, select(db), a, [a EXCEPT !.reading = db])
<1> DEFINE b == [a EXCEPT !.reading = db]
<1>1. b \in Accounts
  BY DEF Accounts, SomeDB
<1>2. CanFail(b)
  BY DEF Accounts, CanFail
<1>3. Moves(t, a, Step("select", db, ""), b)
  BY DEF Moves, Step
<1>4. Step("select", db, "") \in Steps
  BY DEF Step, Steps, Ops, Whats, Notes, Statements
<1> QED
  BY <1>1, <1>2, <1>3, <1>4, RunsOne DEF select

\* Closing an iterator gives back its read lock.
LEMMA CloseRuns ==
  ASSUME NEW t, NEW db \in DBs, NEW a \in Accounts, NEW b \in Accounts, NEW op \in {"fetch", "close"},
         a.reading = db, b = [a EXCEPT !.reading = Nobody]
  PROVE  Runs(t, <<Step(op, db, "")>>, a, b)
<1>1. Moves(t, a, Step(op, db, ""), b)
  BY DEF Moves, Step
<1>2. Step(op, db, "") \in Steps
  BY DEF Step, Steps, Ops, Whats, Notes, Statements
<1> QED
  BY <1>1, <1>2, RunsOne

\* Success is only sent when the rows are in the table, if the handler was to put
\* them there.
LEMMA SendRuns ==
  ASSUME NEW t, NEW a \in Accounts,
         a.kind \in {"reads", "copies"} => a.stage = "stored" \/ a.lax
  PROVE  /\ [a EXCEPT !.answered = TRUE] \in Accounts
         /\ Runs(t, send("Success!"), a, [a EXCEPT !.answered = TRUE])
<1> DEFINE b == [a EXCEPT !.answered = TRUE]
<1>1. b \in Accounts
  BY DEF Accounts
<1>2. Moves(t, a, Step("send", "", "Success!"), b)
  BY DEF Moves, Sends, Step
<1>3. Step("send", "", "Success!") \in Steps
  BY DEF Step, Steps, Ops, Whats, Notes, Statements
<1> QED
  BY <1>1, <1>2, <1>3, RunsOne DEF send

\* The connections in some order.
LEMMA ConnectionsInOrder == SetToSeq(Connections) \in Seq(Connections)
<1> DEFINE n == Cardinality(Connections)
<1>1. n \in Nat /\ ExistsBijection(1 .. n, Connections)
  BY FS_CardinalityType, DatabasesAssumption
<1>2. \E f \in [1 .. n -> Connections] : IsInjective(f)
  BY <1>1 DEF ExistsBijection, Bijection, Injection, Surjection, IsInjective
<1>3. SetToSeq(Connections) \in [1 .. n -> Connections]
  BY <1>2 DEF SetToSeq
<1> HIDE DEF n
<1> QED
  BY <1>1, <1>3

\* post_tables lists the tables and leaves nothing open.
LEMMA PostTablesRuns ==
  ASSUME NEW t, NEW a \in Accounts, CanFail(a)
  PROVE  Runs(t, post_tables, a, a)
<1> DEFINE conns == SetToSeq(Connections)
           lists == [i \in DOMAIN conns |-> list_tables_step(conns[i])]
           A == [i \in 0 .. Len(lists) |-> a]
<1>1. conns \in Seq(Connections)
  BY ConnectionsInOrder
<1> HIDE DEF conns
<1>2. ASSUME NEW i \in DOMAIN conns
      PROVE  Runs(t, list_tables_step(conns[i]), a, a)
  <2>1. conns[i] \in Connections
    BY <1>1
  <2>2. Moves(t, a, Step("list", conns[i], ""), a)
    BY <2>1 DEF Moves, Step
  <2>3. Step("list", conns[i], "") \in Steps
    BY <2>1 DEF Step, Steps, Ops, Whats, Notes, Statements
  <2> QED
    BY <2>2, <2>3, RunsOne DEF list_tables_step
<1>3. lists \in Seq(Seq(Steps)) /\ Len(lists) = Len(conns) /\ DOMAIN conns = 1 .. Len(conns)
  <2>1. \A i \in DOMAIN conns : list_tables_step(conns[i]) \in Seq(Steps)
    BY <1>2, RunsTypes
  <2> QED
    BY <1>1, <2>1
<1>4. Runs(t, FlattenSeq(lists), a, a)
  <2>1. A \in [0 .. Len(lists) -> Accounts]
    OBVIOUS
  <2>2. \A i \in 1 .. Len(lists) : Runs(t, lists[i], A[i - 1], A[i])
    BY <1>2, <1>3
  <2>3. A[0] = a /\ A[Len(lists)] = a
    BY <1>3
  <2> HIDE DEF A, lists
  <2>4. Runs(t, FlattenSeq(lists), A[0], A[Len(lists)])
    BY <1>3, <2>1, <2>2, RunsFlat
  <2> QED
    BY <2>3, <2>4
<1>5. Runs(t, <<Step("enter", "", "post")>>, a, a) /\ Runs(t, <<Step("leave", "", "post")>>, a, a)
  <2>1. Moves(t, a, Step("enter", "", "post"), a) /\ Moves(t, a, Step("leave", "", "post"), a)
    BY DEF Moves, Step
  <2>2. Step("enter", "", "post") \in Steps /\ Step("leave", "", "post") \in Steps
    BY DEF Step, Steps, Ops, Whats, Notes, Statements
  <2> QED
    BY <2>1, <2>2, RunsOne
<1>6. Runs(t, <<Step("enter", "", "post")>> \o FlattenSeq(lists), a, a)
  BY <1>4, <1>5, RunsJoin
<1>7. Runs(t, (<<Step("enter", "", "post")>> \o FlattenSeq(lists)) \o <<Step("leave", "", "post")>>, a, a)
  BY <1>5, <1>6, RunsJoin
<1> QED
  BY <1>7 DEF post_tables, conns

-----------------------------------------------------------------------------
(* Reading a file runs *)

\* Joined sequences have the elements of both.
LEMMA RangeJoin ==
  ASSUME NEW S, NEW s \in Seq(S), NEW u \in Seq(S)
  PROVE  s \o u \in Seq(S) /\ Range(s \o u) = Range(s) \cup Range(u)
<1>1. s \o u \in Seq(S) /\ Len(s \o u) = Len(s) + Len(u)
  BY ConcatProperties
<1>2. \A i \in 1 .. Len(s) + Len(u) : (s \o u)[i] = IF i <= Len(s) THEN s[i] ELSE u[i - Len(s)]
  BY ConcatProperties
<1>3. Len(s) \in Nat /\ Len(u) \in Nat /\ DOMAIN s = 1 .. Len(s) /\ DOMAIN u = 1 .. Len(u)
      /\ DOMAIN (s \o u) = 1 .. Len(s) + Len(u)
  BY <1>1
<1>4. ASSUME NEW i \in DOMAIN s PROVE s[i] \in Range(s \o u)
  <2>1. i \in DOMAIN (s \o u) /\ (s \o u)[i] = s[i]
    BY <1>2, <1>3
  <2> QED
    BY <2>1 DEF Range
<1>5. ASSUME NEW i \in DOMAIN u PROVE u[i] \in Range(s \o u)
  <2>1. Len(s) + i \in DOMAIN (s \o u) /\ (s \o u)[Len(s) + i] = u[i]
    BY <1>2, <1>3
  <2> QED
    BY <2>1 DEF Range
<1>6. ASSUME NEW i \in DOMAIN (s \o u) PROVE (s \o u)[i] \in Range(s) \cup Range(u)
  <2>1. CASE i <= Len(s)
    <3>1. i \in DOMAIN s /\ (s \o u)[i] = s[i]
      BY <1>2, <1>3, <2>1
    <3> QED
      BY <3>1 DEF Range
  <2>2. CASE ~ (i <= Len(s))
    <3>1. i - Len(s) \in DOMAIN u /\ (s \o u)[i] = u[i - Len(s)]
      BY <1>2, <1>3, <2>2
    <3> QED
      BY <3>1 DEF Range
  <2> QED
    BY <2>1, <2>2
<1> QED
  BY <1>1, <1>4, <1>5, <1>6 DEF Range

\* Sequences joined one after the other have the elements of all.
LEMMA RangeFlattens ==
  ASSUME NEW S, NEW seqs \in Seq(Seq(S))
  PROVE  /\ FlattenSeq(seqs) \in Seq(S)
         /\ Range(FlattenSeq(seqs)) = UNION {Range(seqs[i]) : i \in 1 .. Len(seqs)}
<1>1. PICK F \in [0 .. Len(seqs) -> Seq(S)] :
        /\ F[0] = <<>> /\ FlattenSeq(seqs) = F[Len(seqs)]
        /\ \A i \in 1 .. Len(seqs) : F[i] = F[i - 1] \o seqs[i]
  BY Flattens
<1> DEFINE n == Len(seqs)
           U(k) == UNION {Range(seqs[i]) : i \in 1 .. k}
           T == {k \in 0 .. n : Range(F[k]) = U(k)}
<1>2. n \in Nat /\ \A i \in 1 .. n : seqs[i] \in Seq(S)
  OBVIOUS
<1> HIDE DEF n
<1>3. 0 \in T
  <2>1. Range(F[0]) = {} /\ U(0) = {}
    BY <1>1 DEF Range
  <2> QED
    BY <1>2, <2>1
<1>4. ASSUME NEW k \in 0 .. n - 1, k \in T PROVE k + 1 \in T
  <2>1. k + 1 \in 1 .. Len(seqs) /\ (k + 1) - 1 = k /\ k + 1 \in 0 .. n /\ k \in 0 .. n
        /\ 1 .. k + 1 = (1 .. k) \cup {k + 1}
    BY <1>2 DEF n
  <2>2. F[k + 1] = F[k] \o seqs[k + 1]
    BY <1>1, <2>1
  <2>3. F[k] \in Seq(S) /\ seqs[k + 1] \in Seq(S)
    BY <1>1, <1>2, <2>1 DEF n
  <2>4. Range(F[k + 1]) = Range(F[k]) \cup Range(seqs[k + 1])
    BY <2>2, <2>3, RangeJoin
  <2>5. Range(F[k]) = U(k)
    BY <1>4
  <2>6. U(k + 1) = U(k) \cup Range(seqs[k + 1])
    BY <2>1
  <2> QED
    BY <2>1, <2>4, <2>5, <2>6
<1>5. n \in T
  <2> HIDE DEF T
  <2>1. 0 .. n \subseteq T
    BY <1>2, <1>3, <1>4, BoundedInduction
  <2> QED
    BY <1>2, <2>1
<1> QED
  BY <1>1, <1>2, <1>5 DEF n

Lines == {"row", "bad", "empty"}

\* The rows of the lines from first to last.
RowsFrom(t, lines, first, last) ==
  {Row(t, i) : i \in {j \in first .. last : lines[j] = "row"}}

\* The rows a thread reads from a file are its own.
LEMMA RowsFromType ==
  ASSUME NEW t \in Threads, NEW lines, NEW first \in Int, NEW last \in Int
  PROVE  RowsFrom(t, lines, first, last) \subseteq Rows \cap ({t} \X Int)
BY DEF RowsFrom, Rows, Row

\* Rows of a thread are rows.
LEMMA RowSeqType ==
  ASSUME NEW t \in Threads, NEW s \in Seq({t} \X Int)
  PROVE  s \in Seq(Rows) /\ Range(s) \subseteq Rows
<1>1. {t} \X Int \subseteq Rows
  BY DEF Rows
<1> QED
  BY <1>1 DEF Range

\* The lines of a part of a file are turned into its rows, if none of them is bad.
LEMMA RowsOfIsRowsFrom ==
  ASSUME NEW t \in Threads, NEW lines \in Seq(Lines), NEW first \in Nat \ {0},
         NEW last \in 0 .. Len(lines), first <= last + 1, \A i \in first .. last : lines[i] # "bad"
  PROVE  /\ RowsOf(t, lines, first, last) \in Seq({t} \X Int)
         /\ Range(RowsOf(t, lines, first, last)) = RowsFrom(t, lines, first, last)
<1> DEFINE S == {t} \X Int
           n == last - first + 1
           piece(i) == IF lines[i] = "empty" THEN <<>> ELSE <<Row(t, i)>>
           seqs == [k \in 1 .. (last - first + 1) |->
                      LET i == first + k - 1
                      IN  IF lines[i] = "empty" THEN <<>> ELSE <<Row(t, i)>>]
<1>1. last \in Nat /\ n \in Nat
  OBVIOUS
<1>2. ASSUME NEW i \in Int
      PROVE  /\ piece(i) \in Seq(S)
             /\ Range(piece(i)) = IF lines[i] = "empty" THEN {} ELSE {Row(t, i)}
  <2>1. Row(t, i) \in S
    BY DEF Row
  <2>2. <<Row(t, i)>> \in Seq(S) /\ Range(<<Row(t, i)>>) = {Row(t, i)}
    BY <2>1 DEF Range
  <2>3. <<>> \in Seq(S) /\ Range(<<>>) = {}
    BY DEF Range
  <2> QED
    BY <2>2, <2>3
<1>3. seqs \in Seq(Seq(S)) /\ Len(seqs) = n /\ \A k \in 1 .. n : seqs[k] = piece(first + k - 1)
  <2>1. seqs = [k \in 1 .. n |-> piece(first + k - 1)]
    OBVIOUS
  <2>2. ASSUME NEW k \in 1 .. n PROVE piece(first + k - 1) \in Seq(S)
    <3>1. first + k - 1 \in Int
      BY <1>1
    <3> HIDE DEF piece
    <3> QED
      BY <1>2, <3>1
  <2>3. seqs \in [1 .. n -> Seq(S)] /\ \A k \in 1 .. n : seqs[k] = piece(first + k - 1)
    <3> HIDE DEF n, piece, S, seqs
    <3> QED
      BY <2>1, <2>2
  <2> HIDE DEF n, S, piece, seqs
  <2> QED
    BY <1>1, <2>3
<1>4. \A k \in 1 .. Len(seqs) : Range(seqs[k]) =
        IF lines[first + k - 1] = "empty" THEN {} ELSE {Row(t, first + k - 1)}
  <2> TAKE k \in 1 .. Len(seqs)
  <2>1. k \in 1 .. n /\ first + k - 1 \in Int
    BY <1>1, <1>3
  <2>2. seqs[k] = piece(first + k - 1)
    BY <1>3, <2>1
  <2> HIDE DEF piece, seqs
  <2> QED
    BY <1>2, <2>1, <2>2
<1>5. RowsOf(t, lines, first, last) = FlattenSeq(seqs)
  BY DEF RowsOf
<1> HIDE DEF seqs
<1>6. /\ RowsOf(t, lines, first, last) \in Seq(S)
      /\ Range(RowsOf(t, lines, first, last)) = UNION {Range(seqs[k]) : k \in 1 .. Len(seqs)}
  BY <1>3, <1>5, RangeFlattens
<1>7. \A i \in first .. last : lines[i] = "row" <=> lines[i] # "empty"
  <2> TAKE i \in first .. last
  <2>1. i \in 1 .. Len(lines)
    BY <1>1
  <2>2. lines[i] \in Lines
    BY <2>1
  <2> QED
    BY <2>2 DEF Lines
<1>8. ASSUME NEW k \in 1 .. Len(seqs)
      PROVE  Range(seqs[k]) \subseteq RowsFrom(t, lines, first, last)
  <2>1. first + k - 1 \in first .. last
    BY <1>1, <1>3
  <2> QED
    BY <1>4, <1>7, <2>1 DEF RowsFrom
<1>9. ASSUME NEW i \in first .. last, lines[i] = "row"
      PROVE  \E k \in 1 .. Len(seqs) : Row(t, i) \in Range(seqs[k])
  <2>1. i - first + 1 \in 1 .. Len(seqs) /\ first + (i - first + 1) - 1 = i
    BY <1>1, <1>3
  <2>2. Range(seqs[i - first + 1]) = {Row(t, i)}
    BY <1>4, <1>9, <2>1
  <2> QED
    BY <2>1, <2>2
<1>10. Range(RowsOf(t, lines, first, last)) \subseteq RowsFrom(t, lines, first, last)
  BY <1>6, <1>8
<1>11. RowsFrom(t, lines, first, last) \subseteq Range(RowsOf(t, lines, first, last))
  <2>1. ASSUME NEW row \in RowsFrom(t, lines, first, last)
        PROVE  row \in Range(RowsOf(t, lines, first, last))
    <3>1. PICK i \in first .. last : lines[i] = "row" /\ row = Row(t, i)
      BY DEF RowsFrom
    <3> QED
      BY <1>6, <1>9, <3>1
  <2> QED
    BY <2>1
<1> QED
  BY <1>6, <1>10, <1>11

\* A thread may read a file of these lines.
MayReadFile(t, a, lines) ==
  /\ a \in Accounts /\ a.kind \in {"reads", "copies"} /\ a.stage = "before" /\ ~ a.answered
  /\ a.own = Nobody /\ a.trying = Nobody /\ a.writing = Nobody
  /\ a.got = {} /\ a.wanted = RowsFrom(t, lines, 1, Len(lines))

\* The checks of the columns' names and types before the lines are read change
\* nothing.
LEMMA ChecksRun ==
  ASSUME NEW t, NEW db \in DBs, NEW r, NEW a \in Accounts, CanFail(a)
  PROVE  /\ Runs(t, get_colnames_from_table(db), a, a)
         /\ Runs(t, get_coltypes_from_table(db), a, a)
         /\ Runs(t, make_insert_statement(db), a, a)
         /\ Runs(t, check_colnames(db, r), a, a)
<1>1. /\ Runs(t, get_colnames_from_table(db), a, a)
      /\ Runs(t, get_coltypes_from_table(db), a, a)
      /\ Runs(t, make_insert_statement(db), a, a)
  BY LookRuns DEF get_colnames_from_table, get_coltypes_from_table, make_insert_statement, Whats, Notes
<1>2. Runs(t, <<>>, a, a)
  BY RunsNothing DEF Settles
<1>3. Runs(t, <<Step("throw", db, "colnames")>>, a, a)
  BY ThrowRuns DEF Whats, Notes
<1> QED
  BY <1>1, <1>2, <1>3 DEF check_colnames

\* In the transaction, with the lines up to i.
InsideAt(t, a, db, lines, i) ==
  [a EXCEPT !.own = db, !.stage = "inside", !.trying = db, !.writing = db,
            !.got = RowsFrom(t, lines, 1, i)]

\* In the middle of a file there is an account that can still fail.
LEMMA InsideType ==
  ASSUME NEW t \in Threads, NEW a \in Accounts, NEW db \in DBs, NEW lines, NEW i \in Int,
         a.kind \in {"reads", "copies"}
  PROVE  /\ InsideAt(t, a, db, lines, i) \in Accounts
         /\ CanFail(InsideAt(t, a, db, lines, i))
<1>1. RowsFrom(t, lines, 1, i) \subseteq Rows
  BY RowsFromType
<1> QED
  BY <1>1 DEF InsideAt, Accounts, SomeDB, CanFail

\* A line inserts its row inside the transaction, or throws.
LEMMA LineRuns ==
  ASSUME NEW t \in Threads, NEW db \in DBs, NEW lines \in Seq(Lines), NEW i \in 1 .. Len(lines),
         NEW a \in Accounts, a.kind \in {"reads", "copies"}
  PROVE  Runs(t, insert_line(db, t, i, lines[i]), InsideAt(t, a, db, lines, i - 1),
              InsideAt(t, a, db, lines, i))
<1> DEFINE b == InsideAt(t, a, db, lines, i - 1)
           c == InsideAt(t, a, db, lines, i)
<1>1. b \in Accounts /\ c \in Accounts /\ CanFail(b)
  BY InsideType
<1>2. lines[i] \in Lines /\ i \in Nat /\ i > 0
  OBVIOUS
<1>3. CASE lines[i] = "empty"
  <2>1. \A j \in Int : j \in 1 .. i - 1 <=> j \in 1 .. i /\ j # i
    BY <1>2
  <2>2. RowsFrom(t, lines, 1, i - 1) = RowsFrom(t, lines, 1, i)
    BY <1>3, <2>1 DEF RowsFrom
  <2>3. c = b
    BY <2>2 DEF InsideAt
  <2> HIDE DEF b, c
  <2>4. Runs(t, <<>>, b, c)
    BY <1>1, <2>3, RunsNothing DEF Settles
  <2> QED
    BY <1>3, <2>4 DEF insert_line, b, c
<1>4. CASE lines[i] = "bad"
  <2> HIDE DEF b, c
  <2>1. Runs(t, <<Step("throw", db, "insert")>>, b, c)
    BY <1>1, ThrowRuns DEF Whats, Notes
  <2> QED
    BY <1>4, <2>1 DEF insert_line, b, c
<1>5. CASE lines[i] = "row"
  <2> DEFINE s == Step("insert", db, <<Row(t, i)>>)
  <2>1. <<Row(t, i)>> \in Seq({t} \X Int) /\ Range(<<Row(t, i)>>) = {Row(t, i)}
    <3>1. Row(t, i) \in {t} \X Int
      BY DEF Row
    <3> QED
      BY <3>1 DEF Range
  <2>2. s \in Steps
    <3>1. <<Row(t, i)>> \in Seq(Rows)
      BY <2>1, RowSeqType
    <3> QED
      BY <3>1 DEF Step, Steps, Ops, Whats
  <2>3. RowsFrom(t, lines, 1, i) = RowsFrom(t, lines, 1, i - 1) \cup {Row(t, i)}
    <3>1. \A j \in Int : j \in 1 .. i <=> j \in 1 .. i - 1 \/ j = i
      BY <1>2
    <3> QED
      BY <1>5, <3>1 DEF RowsFrom
  <2>4. c = [b EXCEPT !.got = @ \cup {Row(t, i)}] /\ b.writing = db /\ b.own = db
    BY <2>3 DEF InsideAt, Accounts
  <2>5. s.op = "insert" /\ s.db = db /\ s.what = <<Row(t, i)>>
    BY DEF Step
  <2> HIDE DEF b, c, s
  <2>6. Inserts(t, b, s, c)
    BY <2>1, <2>4, <2>5 DEF Inserts
  <2>7. Moves(t, b, s, c)
    BY <1>1, <2>5, <2>6 DEF Moves
  <2>8. Runs(t, <<s>>, b, c)
    BY <1>1, <2>2, <2>7, RunsOne
  <2> QED
    BY <1>5, <2>8 DEF insert_line, b, c, s
<1> QED
  BY <1>2, <1>3, <1>4, <1>5 DEF Lines

\* So do all lines, one after the other: by induction over the file.
LEMMA LinesRun ==
  ASSUME NEW t \in Threads, NEW db \in DBs, NEW lines \in Seq(Lines), NEW a \in Accounts,
         a.kind \in {"reads", "copies"}
  PROVE  Runs(t, FlattenSeq([i \in DOMAIN lines |-> insert_line(db, t, i, lines[i])]),
              InsideAt(t, a, db, lines, 0), InsideAt(t, a, db, lines, Len(lines)))
<1> DEFINE seqs == [i \in DOMAIN lines |-> insert_line(db, t, i, lines[i])]
           A == [i \in 0 .. Len(lines) |-> InsideAt(t, a, db, lines, i)]
<1>1. \A i \in 1 .. Len(lines) :
        Runs(t, insert_line(db, t, i, lines[i]), InsideAt(t, a, db, lines, i - 1),
             InsideAt(t, a, db, lines, i))
  BY LineRuns
<1>2. DOMAIN lines = 1 .. Len(lines) /\ Len(lines) \in Nat
  OBVIOUS
<1>3. \A i \in 1 .. Len(lines) : insert_line(db, t, i, lines[i]) \in Seq(Steps)
  BY <1>1, RunsTypes
<1>4. seqs \in Seq(Seq(Steps)) /\ Len(seqs) = Len(lines)
      /\ \A i \in 1 .. Len(lines) : seqs[i] = insert_line(db, t, i, lines[i])
  BY <1>2, <1>3
<1>5. A \in [0 .. Len(lines) -> Accounts] /\ \A i \in 0 .. Len(lines) : A[i] = InsideAt(t, a, db, lines, i)
  BY InsideType
<1> HIDE DEF seqs, A
<1>6. \A i \in 1 .. Len(lines) : Runs(t, seqs[i], A[i - 1], A[i])
  <2> TAKE i \in 1 .. Len(lines)
  <2>1. i - 1 \in 0 .. Len(lines) /\ i \in 0 .. Len(lines)
    BY <1>2
  <2>2. A[i - 1] = InsideAt(t, a, db, lines, i - 1) /\ A[i] = InsideAt(t, a, db, lines, i)
    BY <1>5, <2>1
  <2> QED
    BY <1>1, <1>4, <2>2
<1>7. Runs(t, FlattenSeq(seqs), A[0], A[Len(lines)])
  BY <1>4, <1>5, <1>6, RunsFlat
<1>8. A[0] = InsideAt(t, a, db, lines, 0) /\ A[Len(lines)] = InsideAt(t, a, db, lines, Len(lines))
  BY <1>2, <1>5
<1> QED
  BY <1>7, <1>8 DEF seqs

\* Two sequences of one element, joined, are the sequence of both.
LEMMA Pair ==
  \A x, y : <<x>> \o <<y>> = <<x, y>>
<1> TAKE x, y
<1> DEFINE S == {x, y}
<1>1. <<x>> \in Seq(S) /\ <<y>> \in Seq(S) /\ <<x, y>> \in Seq(S)
      /\ Len(<<x>>) = 1 /\ Len(<<y>>) = 1 /\ Len(<<x, y>>) = 2
  OBVIOUS
<1>2. <<x>> \o <<y>> \in Seq(S) /\ Len(<<x>> \o <<y>>) = 2
  BY <1>1, ConcatProperties
<1>3. \A i \in 1 .. 2 : (<<x>> \o <<y>>)[i] = IF i <= 1 THEN <<x>>[i] ELSE <<y>>[i - 1]
  BY <1>1, ConcatProperties
<1>4. \A i \in 1 .. 2 : (<<x>> \o <<y>>)[i] = <<x, y>>[i]
  BY <1>3
<1> HIDE DEF S
<1> QED
  BY <1>1, <1>2, <1>4, SeqEqual

\* SQLite's read takes all rows of a file in one transaction.
LEMMA SqliteRuns ==
  ASSUME NEW t \in Threads, NEW db \in DBs, Dialect[db] = "sqlite3", NEW r,
         r.lines \in Seq(Lines), NEW a, MayReadFile(t, a, r.lines)
  PROVE  Runs(t, sqlite_read(db, t, r), a, InFile(a))
<1> DEFINE n == Len(r.lines)
           open == [a EXCEPT !.own = db, !.stage = "inside"]
           try == [open EXCEPT !.trying = db]
           first == InsideAt(t, a, db, r.lines, 0)
           last == InsideAt(t, a, db, r.lines, n)
           done == [last EXCEPT !.writing = Nobody]
           stored == InFile(done)
<1>1. a \in Accounts /\ CanFail(a) /\ n \in Nat
  BY DEF MayReadFile, CanFail
<1>2. Nobody \notin DBs
  BY DatabasesAssumption
<1>3. open \in Accounts /\ try \in Accounts
  BY <1>1 DEF Accounts, SomeDB
<1>4. first \in Accounts /\ last \in Accounts /\ CanFail(last)
  BY <1>1, InsideType DEF MayReadFile
<1>5. done \in Accounts /\ CanFail(done)
  BY <1>1, <1>4 DEF Accounts, SomeDB, CanFail, InsideAt, MayReadFile
<1>6. stored \in Accounts
  BY <1>5, InFileType
<1>7. /\ Runs(t, get_colnames_from_table(db), a, a)
      /\ Runs(t, get_coltypes_from_table(db), a, a)
      /\ Runs(t, make_insert_statement(db), a, a)
      /\ Runs(t, check_colnames(db, r), a, a)
  BY <1>1, ChecksRun
<1>8. Runs(t, execute(db, "BEGIN"), a, open)
  <2>1. Executes(a, Step("execute", db, "BEGIN"), open)
    BY DEF Executes, Begins, Step, locked, MayReadFile
  <2> HIDE DEF open
  <2> QED
    BY <1>1, <1>3, <2>1, ExecuteRuns DEF Statements
<1>9. Runs(t, <<Step("try", db, "ROLLBACK")>>, open, try)
  <2>1. Moves(t, open, Step("try", db, "ROLLBACK"), try)
    BY <1>1 DEF Moves, Step, Accounts
  <2>2. Step("try", db, "ROLLBACK") \in Steps
    BY DEF Step, Steps, Ops, Whats, Statements
  <2> HIDE DEF open, try
  <2> QED
    BY <1>3, <2>1, <2>2, RunsOne
<1>10. Runs(t, <<Step("lock", db, "write")>>, try, first)
  <2>1. RowsFrom(t, r.lines, 1, 0) = {}
    BY DEF RowsFrom
  <2>2. first = [try EXCEPT !.writing = db] /\ try.own = db /\ try.writing = Nobody /\ try.got = {}
    BY <1>1, <2>1 DEF InsideAt, Accounts, MayReadFile
  <2> HIDE DEF open, try, first
  <2>3. Moves(t, try, Step("lock", db, "write"), first)
    BY <2>2 DEF Moves, Step
  <2>4. Step("lock", db, "write") \in Steps
    BY DEF Step, Steps, Ops, Whats, Notes
  <2> QED
    BY <1>3, <1>4, <2>3, <2>4, RunsOne
<1>11. Runs(t, <<Step("try", db, "ROLLBACK"), Step("lock", db, "write")>>, open, first)
  <2> HIDE DEF open, try, first
  <2>1. Runs(t, <<Step("try", db, "ROLLBACK")>> \o <<Step("lock", db, "write")>>, open, first)
    BY <1>9, <1>10, RunsJoin
  <2> QED
    BY <2>1, Pair
<1>12. Runs(t, FlattenSeq([i \in DOMAIN r.lines |-> insert_line(db, t, i, r.lines[i])]), first, last)
  BY <1>1, LinesRun DEF MayReadFile
<1>13. Runs(t, <<Step("unlock", db, "write")>>, last, done)
  <2>1. last.writing = db
    BY <1>1 DEF InsideAt, Accounts
  <2>2. Moves(t, last, Step("unlock", db, "write"), done)
    <3> HIDE DEF last
    <3> QED
      BY <2>1 DEF Moves, Step
  <2>3. Step("unlock", db, "write") \in Steps
    BY DEF Step, Steps, Ops, Whats, Notes
  <2> HIDE DEF last, done
  <2> QED
    BY <1>4, <1>5, <2>2, <2>3, RunsOne
<1>14. Runs(t, execute(db, "COMMIT"), done, stored)
  <2>1. done.own = db /\ done.writing = Nobody /\ done.got = done.wanted /\ ~ done.answered
    BY <1>1 DEF InsideAt, Accounts, MayReadFile
  <2> HIDE DEF done
  <2>2. Executes(done, Step("execute", db, "COMMIT"), stored)
    BY <2>1 DEF Executes, Commits, Step
  <2> HIDE DEF stored
  <2> QED
    BY <1>5, <1>6, <2>2, ExecuteRuns DEF Statements
<1>15. Runs(t, <<Step("end try", db, "")>>, stored, InFile(a))
  <2>1. stored.own = Nobody /\ InFile(a) = [stored EXCEPT !.trying = Nobody]
    BY <1>1 DEF InFile, InsideAt, Accounts, MayReadFile
  <2> HIDE DEF stored
  <2>2. Moves(t, stored, Step("end try", db, ""), InFile(a))
    BY <2>1 DEF Moves, Step
  <2>3. Step("end try", db, "") \in Steps
    BY DEF Step, Steps, Ops, Whats, Notes
  <2>4. InFile(a) \in Accounts
    BY <1>1, InFileType
  <2> QED
    BY <1>6, <2>2, <2>3, <2>4, RunsOne
<1> HIDE DEF open, try, first, last, done, stored
<1> DEFINE s1 == get_colnames_from_table(db) \o get_coltypes_from_table(db)
           s2 == s1 \o make_insert_statement(db)
           s3 == s2 \o check_colnames(db, r)
           s4 == s3 \o execute(db, "BEGIN")
           s5 == s4 \o <<Step("try", db, "ROLLBACK"), Step("lock", db, "write")>>
           s6 == s5 \o FlattenSeq([i \in DOMAIN r.lines |-> insert_line(db, t, i, r.lines[i])])
           s7 == s6 \o <<Step("unlock", db, "write")>>
           s8 == s7 \o execute(db, "COMMIT")
<1>16. Runs(t, s1, a, a)
  BY <1>7, RunsJoin
<1>17. Runs(t, s2, a, a)
  BY <1>7, <1>16, RunsJoin
<1>18. Runs(t, s3, a, a)
  BY <1>7, <1>17, RunsJoin
<1>19. Runs(t, s4, a, open)
  BY <1>8, <1>18, RunsJoin
<1>20. Runs(t, s5, a, first)
  BY <1>11, <1>19, RunsJoin
<1>21. Runs(t, s6, a, last)
  BY <1>12, <1>20, RunsJoin
<1>22. Runs(t, s7, a, done)
  BY <1>13, <1>21, RunsJoin
<1>23. Runs(t, s8, a, stored)
  BY <1>14, <1>22, RunsJoin
<1> QED
  BY <1>15, <1>23, RunsJoin DEF sqlite_read

\* In MySQL, with the lines up to last.
InBulksAt(t, a, db, lines, last) ==
  [a EXCEPT !.stage = "bulks", !.at = db, !.got = RowsFrom(t, lines, 1, last)]

\* Between two bulks there is an account that can still fail.
LEMMA InBulksType ==
  ASSUME NEW t \in Threads, NEW db \in DBs, NEW lines, NEW last \in Int, NEW a,
         MayReadFile(t, a, lines)
  PROVE  /\ InBulksAt(t, a, db, lines, last) \in Accounts
         /\ CanFail(InBulksAt(t, a, db, lines, last))
<1>1. RowsFrom(t, lines, 1, last) \subseteq Rows
  BY RowsFromType
<1> QED
  BY <1>1 DEF InBulksAt, Accounts, SomeDB, CanFail, MayReadFile

\* The lines from first to last, after those before them.
LEMMA BulkRuns ==
  ASSUME NEW t \in Threads, NEW db \in DBs, Dialect[db] = "mysql", NEW lines \in Seq(Lines),
         NEW first \in 1 .. Len(lines), NEW last \in first .. Len(lines), NEW a,
         MayReadFile(t, a, lines), NEW b \in Accounts,
         b = (IF first = 1 THEN a ELSE InBulksAt(t, a, db, lines, first - 1))
  PROVE  Runs(t, make_bulk_insert_query(db, t, lines, first, last), b,
              InBulksAt(t, a, db, lines, last))
<1> DEFINE c == InBulksAt(t, a, db, lines, last)
           rows == RowsOf(t, lines, first, last)
<1>1. c \in Accounts /\ CanFail(b) /\ first \in Nat \ {0} /\ last \in 0 .. Len(lines)
      /\ first <= last + 1 /\ first - 1 \in Int /\ last \in Int
  <2>1. CanFail(a)
    BY DEF MayReadFile, CanFail
  <2> QED
    BY <2>1, InBulksType
<1>2. CASE rows = <<>> \/ (\E i \in first .. last : lines[i] = "bad")
  <2>1. Runs(t, <<Step("throw", db, "insert")>>, b, c)
    BY <1>1, ThrowRuns DEF Whats, Notes
  <2> QED
    BY <1>2, <2>1 DEF make_bulk_insert_query
<1>3. CASE ~ (rows = <<>> \/ (\E i \in first .. last : lines[i] = "bad"))
  <2> DEFINE s == Step("append", db, rows)
  <2>1. rows \in Seq({t} \X Int) /\ Range(rows) = RowsFrom(t, lines, first, last)
    BY <1>1, <1>3, RowsOfIsRowsFrom
  <2>2. s \in Steps /\ s.op = "append" /\ s.db = db /\ s.what = rows
    <3>1. rows \in Seq(Rows)
      BY <2>1, RowSeqType
    <3> QED
      BY <3>1 DEF Step, Steps, Ops, Whats
  <2>3. b.got = RowsFrom(t, lines, 1, first - 1) /\ ~ b.answered /\ b.kind \in {"reads", "copies"}
        /\ (b.stage = "before" \/ (b.stage = "bulks" /\ b.at = db))
    <3>1. CASE first = 1
      <4>1. RowsFrom(t, lines, 1, first - 1) = {}
        BY <3>1 DEF RowsFrom
      <4> QED
        BY <3>1, <4>1 DEF MayReadFile
    <3>2. CASE first # 1
      BY <3>2 DEF InBulksAt, MayReadFile, Accounts
    <3> QED
      BY <3>1, <3>2
  <2>4. RowsFrom(t, lines, 1, last)
          = RowsFrom(t, lines, 1, first - 1) \cup RowsFrom(t, lines, first, last)
    <3>1. \A j \in Int : j \in 1 .. last <=> j \in 1 .. first - 1 \/ j \in first .. last
      BY <1>1
    <3> QED
      BY <3>1 DEF RowsFrom
  <2>5. c = [b EXCEPT !.stage = "bulks", !.at = db, !.got = @ \cup Range(rows)]
    <3>1. c = [b EXCEPT !.stage = "bulks", !.at = db, !.got = RowsFrom(t, lines, 1, last)]
      BY DEF InBulksAt, MayReadFile, Accounts
    <3>2. RowsFrom(t, lines, 1, last) = b.got \cup Range(rows)
      BY <2>1, <2>3, <2>4
    <3> HIDE DEF c, rows
    <3> QED
      BY <3>1, <3>2
  <2> HIDE DEF c, rows, s
  <2>6. Appends(t, b, s, c)
    BY <2>1, <2>2, <2>3, <2>5 DEF Appends
  <2>7. Moves(t, b, s, c)
    BY <1>1, <2>2, <2>6 DEF Moves
  <2>8. Runs(t, <<s>>, b, c)
    BY <1>1, <2>2, <2>7, RunsOne
  <2> QED
    BY <1>3, <2>8 DEF make_bulk_insert_query, c, s, rows
<1> QED
  BY <1>2, <1>3

\* The bulks of a file follow each other without gap, and each holds a line.
LEMMA BulkBounds ==
  ASSUME NEW n \in Nat, NEW b \in 1 .. Bulks(n)
  PROVE  /\ (b - 1) * BulkSize + 1 \in 1 .. n
         /\ Min({b * BulkSize, n}) \in (b - 1) * BulkSize + 1 .. n
         /\ b # 1 => ((b - 1) * BulkSize + 1) - 1 = Min({(b - 1) * BulkSize, n})
<1>1. BulkSize \in Nat \ {0}
  BY DatabasesAssumption
<1>2. \A i, j \in Int : Min({i, j}) = IF i <= j THEN i ELSE j
  BY DEF Min
<1> DEFINE N == Bulks(n)
<1>3. N \in Int /\ N * BulkSize <= n + BulkSize - 1
  BY <1>1 DEF Bulks
<1> HIDE DEF N
<1>4. b \in Int /\ b >= 1 /\ b <= N
  BY <1>3 DEF N
<1>5. b * BulkSize <= N * BulkSize
  BY <1>1, <1>3, <1>4
<1>6. (b - 1) * BulkSize = b * BulkSize - BulkSize
  BY <1>1, <1>4
<1>7. b * BulkSize \in Int /\ (b - 1) * BulkSize \in Int /\ (b - 1) * BulkSize >= 0
  BY <1>1, <1>4
<1> DEFINE m == b * BulkSize
           k == (b - 1) * BulkSize
<1> HIDE DEF m, k
<1>8. m \in Int /\ k \in Int /\ k >= 0 /\ k = m - BulkSize /\ m <= n + BulkSize - 1
  BY <1>1, <1>3, <1>5, <1>6, <1>7 DEF m, k
<1>9. k + 1 \in 1 .. n /\ Min({m, n}) \in k + 1 .. n /\ (k + 1) - 1 = Min({k, n})
  BY <1>1, <1>2, <1>8
<1> QED
  BY <1>9 DEF m, k

\* The last bulk ends with the file, and an empty file has none.
LEMMA LastBulk ==
  ASSUME NEW n \in Nat
  PROVE  /\ Bulks(n) \in Nat /\ (Bulks(n) = 0 <=> n = 0)
         /\ Bulks(n) # 0 => Min({Bulks(n) * BulkSize, n}) = n
<1>1. BulkSize \in Nat \ {0}
  BY DatabasesAssumption
<1>2. \A i, j \in Int : Min({i, j}) = IF i <= j THEN i ELSE j
  BY DEF Min
<1> DEFINE N == Bulks(n)
<1>3. N \in Int /\ N * BulkSize <= n + BulkSize - 1 /\ n <= N * BulkSize
  BY <1>1 DEF Bulks
<1> HIDE DEF N
<1>4. N * BulkSize \in Int
  BY <1>1, <1>3
<1>5. N >= 0
  BY <1>1, <1>3
<1>6. N = 0 => n = 0
  BY <1>1, <1>3
<1>7. n = 0 => N = 0
  BY <1>1, <1>3, <1>5
<1>8. Min({N * BulkSize, n}) = n
  BY <1>2, <1>3, <1>4
<1> QED
  BY <1>3, <1>5, <1>6, <1>7, <1>8 DEF N

\* MySQL's read takes the rows in bulks, without transaction.
LEMMA MysqlRuns ==
  ASSUME NEW t \in Threads, NEW db \in DBs, Dialect[db] = "mysql", NEW r,
         r.lines \in Seq(Lines), NEW a, MayReadFile(t, a, r.lines)
  PROVE  Runs(t, mysql_read(db, t, r), a, InFile(a))
<1> DEFINE n == Len(r.lines)
           N == Bulks(n)
           bulk(b) == make_bulk_insert_query(db, t, r.lines, (b - 1) * BulkSize + 1,
                                             Min({b * BulkSize, n}))
           at(b) == IF b = 0 THEN a ELSE InBulksAt(t, a, db, r.lines, Min({b * BulkSize, n}))
           seqs == [b \in 1 .. N |-> bulk(b)]
           A == [b \in 0 .. N |-> at(b)]
<1>1. a \in Accounts /\ CanFail(a) /\ n \in Nat
  BY DEF MayReadFile, CanFail
<1>2. N \in Nat
  BY <1>1, LastBulk
<1>3. ASSUME NEW b \in 0 .. N PROVE at(b) \in Accounts
  <2>1. CASE b = 0
    BY <1>1, <2>1
  <2>2. CASE b # 0
    <3>1. Min({b * BulkSize, n}) \in Int
      <4>1. b \in 1 .. Bulks(n)
        BY <1>2, <2>2
      <4>2. Min({b * BulkSize, n}) \in (b - 1) * BulkSize + 1 .. n
        BY <1>1, <4>1, BulkBounds
      <4> HIDE DEF n
      <4> QED
        BY <4>2
    <3> QED
      BY <2>2, <3>1, InBulksType
  <2> QED
    BY <2>1, <2>2
<1>4. ASSUME NEW b \in 1 .. N PROVE Runs(t, bulk(b), at(b - 1), at(b))
  <2> DEFINE first == (b - 1) * BulkSize + 1
             last == Min({b * BulkSize, n})
  <2>1. first \in 1 .. n /\ last \in first .. n /\ (b # 1 => first - 1 = Min({(b - 1) * BulkSize, n}))
    <3> HIDE DEF n
    <3>1. n \in Nat /\ b \in 1 .. Bulks(n)
      BY <1>1
    <3> QED
      BY <3>1, BulkBounds
  <2>2. b = 1 <=> first = 1
    <3>1. BulkSize \in Nat \ {0} /\ b \in Int
      BY <1>2, DatabasesAssumption
    <3>2. b # 1 => (b - 1) * BulkSize # 0
      BY <3>1
    <3> QED
      BY <3>1, <3>2
  <2>3. at(b - 1) \in Accounts
    <3>1. b - 1 \in 0 .. N
      BY <1>2
    <3> HIDE DEF at, N
    <3> QED
      BY <1>3, <3>1
  <2>4. at(b - 1) = IF first = 1 THEN a ELSE InBulksAt(t, a, db, r.lines, first - 1)
    <3>1. b - 1 = 0 <=> b = 1
      BY <1>2
    <3> HIDE DEF first
    <3> QED
      BY <2>1, <2>2, <3>1
  <2>5. at(b) = InBulksAt(t, a, db, r.lines, last)
    BY <1>2
  <2> HIDE DEF first, last, at
  <2>6. Runs(t, make_bulk_insert_query(db, t, r.lines, first, last), at(b - 1), at(b))
    BY <2>1, <2>3, <2>4, <2>5, BulkRuns
  <2> QED
    BY <2>6 DEF first, last
<1>5. Runs(t, FlattenSeq(seqs), a, at(N))
  <2> HIDE DEF at, bulk, N
  <2>1. \A b \in 1 .. N : bulk(b) \in Seq(Steps)
    BY <1>4, RunsTypes
  <2>2. seqs \in Seq(Seq(Steps)) /\ Len(seqs) = N /\ \A b \in 1 .. N : seqs[b] = bulk(b)
    BY <1>2, <2>1
  <2>3. A \in [0 .. N -> Accounts] /\ \A b \in 0 .. N : A[b] = at(b)
    BY <1>3
  <2> HIDE DEF seqs, A
  <2>4. \A b \in 1 .. N : Runs(t, seqs[b], A[b - 1], A[b])
    <3> TAKE b \in 1 .. N
    <3>1. b - 1 \in 0 .. N /\ b \in 0 .. N
      BY <1>2
    <3>2. A[b - 1] = at(b - 1) /\ A[b] = at(b)
      BY <2>3, <3>1
    <3> QED
      BY <1>4, <2>2, <3>2
  <2>5. Runs(t, FlattenSeq(seqs), A[0], A[N])
    BY <2>2, <2>3, <2>4, RunsFlat
  <2>6. A[0] = at(0) /\ A[N] = at(N)
    BY <1>2, <2>3
  <2> QED
    BY <2>5, <2>6 DEF at
<1>6. Settles(at(N), InFile(a))
  <2>1. CASE N = 0
    <3>1. n = 0
      BY <1>1, <2>1, LastBulk
    <3>2. a.wanted = {}
      BY <3>1 DEF RowsFrom, MayReadFile
    <3> QED
      BY <2>1, <3>2 DEF Settles, MayReadFile
  <2>2. CASE N # 0
    <3>1. Min({N * BulkSize, n}) = n
      BY <1>1, <2>2, LastBulk
    <3>2. at(N) = InBulksAt(t, a, db, r.lines, n)
      BY <2>2, <3>1
    <3> HIDE DEF at, N, n
    <3>3. /\ at(N).stage = "bulks" /\ at(N).got = at(N).wanted /\ ~ at(N).answered
          /\ InFile(at(N)) = InFile(a)
      BY <1>1, <3>2 DEF InBulksAt, MayReadFile, Accounts, InFile, n
    <3> QED
      BY <3>3 DEF Settles
  <2> QED
    BY <2>1, <2>2
<1> HIDE DEF at
<1>7. Runs(t, FlattenSeq(seqs), a, InFile(a))
  <2>1. at(N) \in Accounts
    BY <1>5, RunsTypes
  <2>2. Runs(t, <<>>, at(N), InFile(a))
    BY <1>6, <2>1, RunsNothing
  <2>3. FlattenSeq(seqs) \in Seq(Steps)
    BY <1>5, RunsTypes
  <2>4. Runs(t, FlattenSeq(seqs) \o <<>>, a, InFile(a))
    BY <1>5, <2>2, RunsJoin
  <2> QED
    BY <2>3, <2>4, ConcatEmptySeq
<1> HIDE DEF N, n
<1> DEFINE s1 == get_colnames_from_table(db) \o get_coltypes_from_table(db)
           s2 == s1 \o check_colnames(db, r)
<1>8. Runs(t, s1, a, a)
  BY <1>1, ChecksRun, RunsJoin
<1>9. Runs(t, s2, a, a)
  <2>1. Runs(t, check_colnames(db, r), a, a)
    BY <1>1, ChecksRun
  <2> QED
    BY <1>8, <2>1, RunsJoin
<1>10. Runs(t, s2 \o FlattenSeq(seqs), a, InFile(a))
  BY <1>7, <1>9, RunsJoin
<1> QED
  BY <1>10 DEF mysql_read, N, n

\* Postgres' read takes all rows of a file in one statement, or fails before it at
\* a bad line.
LEMMA PostgresRuns ==
  ASSUME NEW t \in Threads, NEW db \in DBs, Dialect[db] = "postgres", NEW r,
         r.lines \in Seq(Lines), NEW a, MayReadFile(t, a, r.lines)
  PROVE  \/ Runs(t, postgres_read(db, t, r), a, InFile(a))
         \/ /\ \E i \in DOMAIN r.lines : r.lines[i] = "bad"
            /\ Runs(t, postgres_read(db, t, r), a, a)
<1> DEFINE s1 == get_colnames_from_table(db) \o get_coltypes_from_table(db)
           s2 == s1 \o check_colnames(db, r)
           n == Len(r.lines)
           rows == RowsOf(t, r.lines, 1, n)
           s == Step("append", db, rows)
<1>1. a \in Accounts /\ CanFail(a) /\ n \in Nat /\ DOMAIN r.lines = 1 .. n
  BY DEF MayReadFile, CanFail
<1>2. Runs(t, s1, a, a)
  BY <1>1, ChecksRun, RunsJoin
<1>3. Runs(t, s2, a, a)
  <2>1. Runs(t, check_colnames(db, r), a, a)
    BY <1>1, ChecksRun
  <2> QED
    BY <1>2, <2>1, RunsJoin
<1>4. CASE \E i \in DOMAIN r.lines : r.lines[i] = "bad"
  <2>1. s2 \o <<>> = s2
    <3>1. s2 \in Seq(Steps)
      BY <1>3, RunsTypes
    <3> HIDE DEF s2
    <3> QED
      BY <3>1, ConcatEmptySeq
  <2>2. postgres_read(db, t, r) = s2
    BY <1>4, <2>1 DEF postgres_read
  <2> QED
    BY <1>3, <1>4, <2>2
<1>5. CASE ~ \E i \in DOMAIN r.lines : r.lines[i] = "bad"
  <2>1. rows \in Seq({t} \X Int) /\ Range(rows) = RowsFrom(t, r.lines, 1, n)
    <3>1. 1 \in Nat \ {0} /\ n \in 0 .. Len(r.lines) /\ 1 <= n + 1
      BY <1>1
    <3> QED
      BY <1>1, <1>5, <3>1, RowsOfIsRowsFrom
  <2>2. s \in Steps /\ s.op = "append" /\ s.db = db /\ s.what = rows
    <3>1. rows \in Seq(Rows)
      BY <2>1, RowSeqType
    <3> QED
      BY <3>1 DEF Step, Steps, Ops, Whats
  <2>3. Range(rows) = a.wanted
    BY <2>1 DEF MayReadFile
  <2> HIDE DEF rows, s
  <2>4. Appends(t, a, s, InFile(a))
    BY <2>1, <2>2, <2>3 DEF Appends, MayReadFile
  <2>5. Moves(t, a, s, InFile(a))
    BY <1>1, <2>2, <2>4 DEF Moves
  <2>6. Runs(t, <<s>>, a, InFile(a))
    BY <1>1, <2>2, <2>5, RunsOne, InFileType
  <2>7. Runs(t, s2 \o <<s>>, a, InFile(a))
    BY <1>3, <2>6, RunsJoin
  <2> QED
    BY <1>5, <2>7 DEF postgres_read, s, rows
<1> QED
  BY <1>4, <1>5

\* A file that is read is stored, or the thread need not have stored it.
LEMMA ReadRuns ==
  ASSUME NEW t \in Threads, NEW db \in DBs, NEW r, r.lines \in Seq(Lines), NEW a,
         MayReadFile(t, a, r.lines)
  PROVE  \/ Runs(t, read(db, t, r), a, InFile(a))
         \/ /\ Dialect[db] = "postgres" /\ \E i \in DOMAIN r.lines : r.lines[i] = "bad"
            /\ Runs(t, read(db, t, r), a, a)
<1>1. Dialect[db] \in {"sqlite3", "mysql", "postgres"}
  BY DatabasesAssumption
<1>2. CASE Dialect[db] = "sqlite3"
  BY <1>2, SqliteRuns DEF read
<1>3. CASE Dialect[db] = "mysql"
  BY <1>3, MysqlRuns DEF read
<1>4. CASE Dialect[db] = "postgres"
  BY <1>4, PostgresRuns DEF read
<1> QED
  BY <1>1, <1>2, <1>3, <1>4

-----------------------------------------------------------------------------
(* Every handler runs from the account of a thread that starts *)

Connects ==
  /\ connector_map \in [Connections -> DBs]
  /\ \A conn \in Connections : LeadsTo(conn, connector_map[conn])

\* Where thread t starts with request r, and that its handler runs from there.
Begun(t, r) == Start(Kind(r), Lax(r), Wanted(t, r))

HandlerRuns(t, r, s) ==
  \E b \in Accounts : b.reading = Nobody /\ Runs(t, s, Begun(t, r), b)

\* A request begins with an account that has nothing open and nothing answered.
LEMMA BegunType ==
  ASSUME NEW t \in Threads, NEW r, Kind(r) = "reads" => r.lines \in Seq(Lines)
  PROVE  /\ Begun(t, r) \in Accounts /\ CanFail(Begun(t, r)) /\ Begun(t, r).reading = Nobody
         /\ Begun(t, r).kind = Kind(r) /\ Begun(t, r).stage = "before"
         /\ Begun(t, r).lax = Lax(r) /\ ~ Begun(t, r).answered
         /\ Begun(t, r).trying = Nobody
<1>1. Kind(r) \in Kinds
  BY DEF Kind, Kinds
<1>2. Lax(r) \in BOOLEAN
  BY DEF Lax
<1>3. Wanted(t, r) \in SUBSET Rows
  <2>1. CASE r.cmd = "read_csv"
    <3>1. Wanted(t, r) \subseteq {Row(t, i) : i \in DOMAIN r.lines}
      BY <2>1 DEF Wanted
    <3>2. DOMAIN r.lines \subseteq Int
      BY <2>1 DEF Kind
    <3> QED
      BY <3>1, <3>2 DEF Row, Rows
  <2>2. CASE r.cmd # "read_csv"
    BY <2>2 DEF Wanted
  <2> QED
    BY <2>1, <2>2
<1>4. Begun(t, r) \in Accounts
  BY <1>1, <1>2, <1>3, StartType DEF Begun
<1> QED
  BY <1>4 DEF Begun, Start, CanFail

\* What changes nothing is followed by the answer.
LEMMA AnswerRuns ==
  ASSUME NEW t \in Threads, NEW r, Kind(r) \notin {"reads", "copies"}, NEW s,
         Runs(t, s, Begun(t, r), Begun(t, r))
  PROVE  HandlerRuns(t, r, s \o send("Success!"))
<1> DEFINE a == Begun(t, r)
           b == [a EXCEPT !.answered = TRUE]
<1>1. a \in Accounts /\ a.kind \notin {"reads", "copies"} /\ a.reading = Nobody
  BY BegunType
<1> HIDE DEF a
<1>2. b \in Accounts /\ Runs(t, send("Success!"), a, b)
  BY <1>1, SendRuns
<1>3. b.reading = Nobody
  BY <1>1 DEF Accounts
<1>4. Runs(t, s \o send("Success!"), a, b)
  BY <1>2, RunsJoin DEF a
<1> QED
  BY <1>2, <1>3, <1>4 DEF HandlerRuns, a

\* A handler that only answers may do so.
LEMMA OnlyAnswerRuns ==
  ASSUME NEW t \in Threads, NEW r, Kind(r) \notin {"reads", "copies"}
  PROVE  HandlerRuns(t, r, send("Success!"))
<1> DEFINE a == Begun(t, r)
           b == [a EXCEPT !.answered = TRUE]
<1>1. a \in Accounts /\ a.kind \notin {"reads", "copies"} /\ a.reading = Nobody
  BY BegunType
<1> HIDE DEF a
<1>2. b \in Accounts /\ Runs(t, send("Success!"), a, b)
  BY <1>1, SendRuns
<1>3. b.reading = Nobody
  BY <1>1 DEF Accounts
<1> QED
  BY <1>2, <1>3 DEF HandlerRuns, a

\* Reading a table to its end, and counting its rows, give back the read lock.
LEMMA SelectRuns ==
  ASSUME NEW t, NEW db \in DBs, NEW a \in Accounts, CanFail(a), a.reading = Nobody
  PROVE  /\ Runs(t, select(db) \o rest_of_iterator(db), a, a)
         /\ Runs(t, get_nrows_steps(db), a, a)
<1> DEFINE b == [a EXCEPT !.reading = db]
<1>1. b \in Accounts /\ Runs(t, select(db), a, b)
  BY IteratorRuns
<1>2. b.reading = db /\ a = [b EXCEPT !.reading = Nobody]
  BY DEF Accounts
<1> HIDE DEF b
<1>3. Runs(t, <<Step("fetch", db, "")>>, b, a) /\ Runs(t, <<Step("close", db, "")>>, b, a)
  BY <1>1, <1>2, CloseRuns
<1> QED
  BY <1>1, <1>3, RunsJoin DEF rest_of_iterator, get_nrows_steps

\* copy_table inserts into one connection what it reads from the other, and closes
\* its iterator.
LEMMA CopyTableRuns ==
  ASSUME NEW t \in Threads, NEW r, Connects, r.cmd = "copy_table",
         {r.source, r.conn} \subseteq Connections
  PROVE  HandlerRuns(t, r, copy_table(t, r))
<1> DEFINE a == Begun(t, r)
           source == connector(r.source)
           target == connector(r.conn)
           b == [a EXCEPT !.reading = source]
           c == InFile(b)
           d == [c EXCEPT !.reading = Nobody]
           e == [d EXCEPT !.answered = TRUE]
<1>1. source \in DBs /\ target \in DBs
  BY DEF Connects, connector
<1>2. a \in Accounts /\ CanFail(a) /\ a.reading = Nobody /\ a.kind = "copies" /\ a.stage = "before"
      /\ ~ a.answered /\ a.trying = Nobody
  BY BegunType DEF Kind
<1> HIDE DEF a
<1>3. CASE r.source = r.conn
  <2>1. Runs(t, <<Step("throw", source, "same")>>, a, a)
    BY <1>1, <1>2, ThrowRuns DEF Whats, Notes
  <2> QED
    BY <1>2, <1>3, <2>1 DEF copy_table, HandlerRuns, a
<1>4. CASE r.source # r.conn
  <2>1. Runs(t, sniff_table_steps(source), a, a)
    BY <1>1, <1>2, ChecksRun, RunsJoin DEF sniff_table_steps
  <2>2. Runs(t, create_statement(target), a, a)
    <3>1. Executes(a, Step("execute", target, "CREATE"), a)
      BY <1>2 DEF Executes, Creates, Step
    <3> QED
      BY <1>1, <1>2, <3>1, ExecuteRuns DEF create_statement, Statements
  <2>3. Runs(t, get_colnames_from_table(source), a, a)
    BY <1>1, <1>2, ChecksRun
  <2>4. b \in Accounts /\ Runs(t, select(source), a, b)
    BY <1>1, <1>2, IteratorRuns
  <2>5. b.kind = "copies" /\ b.stage = "before" /\ b.trying = Nobody /\ ~ b.answered
    BY <1>2 DEF Accounts
  <2>6. c \in Accounts /\ c.reading = source /\ c.kind = "copies" /\ c.stage = "stored"
        /\ c.trying = Nobody
    BY <1>1, <1>2, <2>4, InFileType DEF InFile, Accounts
  <2> HIDE DEF b, c
  <2>7. Runs(t, <<Step("copy", target, source)>>, b, c)
    <3>1. Moves(t, b, Step("copy", target, source), c)
      BY <1>1, <2>5 DEF Moves, Step, c
    <3>2. Step("copy", target, source) \in Steps
      BY <1>1 DEF Step, Steps, Ops, Whats
    <3> QED
      BY <2>4, <2>6, <3>1, <3>2, RunsOne
  <2>8. d \in Accounts /\ d.kind = "copies" /\ d.stage = "stored" /\ d.trying = Nobody
        /\ d.reading = Nobody
    BY <2>6 DEF Accounts, SomeDB
  <2>9. Runs(t, <<Step("close", source, "")>>, c, d)
    BY <1>1, <2>6, <2>8, CloseRuns
  <2> HIDE DEF d
  <2>10. e \in Accounts /\ Runs(t, send("Success!"), d, e)
    BY <2>8, SendRuns
  <2>11. e.reading = Nobody /\ CanFail(e)
    BY <2>8 DEF Accounts, CanFail
  <2> HIDE DEF e
  <2>12. Runs(t, post_tables, e, e)
    BY <2>10, <2>11, PostTablesRuns
  <2> DEFINE s1 == sniff_table_steps(source) \o create_statement(target)
             s2 == s1 \o get_colnames_from_table(source)
             s3 == s2 \o select(source)
             s4 == s3 \o <<Step("copy", target, source)>>
             s5 == s4 \o <<Step("close", source, "")>>
             s6 == s5 \o send("Success!")
  <2>13. Runs(t, s1, a, a)
    BY <2>1, <2>2, RunsJoin
  <2>14. Runs(t, s2, a, a)
    BY <2>3, <2>13, RunsJoin
  <2>15. Runs(t, s3, a, b)
    BY <2>4, <2>14, RunsJoin
  <2>16. Runs(t, s4, a, c)
    BY <2>7, <2>15, RunsJoin
  <2>17. Runs(t, s5, a, d)
    BY <2>9, <2>16, RunsJoin
  <2>18. Runs(t, s6, a, e)
    BY <2>10, <2>17, RunsJoin
  <2>19. Runs(t, s6 \o post_tables, a, e)
    BY <2>12, <2>18, RunsJoin
  <2> QED
    BY <1>4, <2>10, <2>11, <2>19 DEF copy_table, HandlerRuns, a
<1> QED
  BY <1>3, <1>4

\* read_csv, for each kind of database.
LEMMA ReadCSVRuns ==
  ASSUME NEW t \in Threads, NEW r, Connects, r.cmd = "read_csv", r.conn \in Connections,
         r.lines \in Seq(Lines)
  PROVE  HandlerRuns(t, r, read_csv(t, r))
<1> DEFINE a == Begun(t, r)
           db == connector(r.conn)
<1>1. db \in DBs /\ LeadsTo(r.conn, db)
  BY DEF Connects, connector
<1>2. a \in Accounts /\ a.reading = Nobody /\ a.kind = "reads" /\ a.stage = "before"
      /\ a.lax = Lax(r)
  BY BegunType DEF Kind
<1>3. MayReadFile(t, a, r.lines)
  <2>1. DOMAIN r.lines = 1 .. Len(r.lines)
    OBVIOUS
  <2>2. Wanted(t, r) = RowsFrom(t, r.lines, 1, Len(r.lines))
    BY <2>1 DEF Wanted, RowsFrom
  <2> QED
    BY <1>2, <2>2 DEF MayReadFile, Begun, Start
<1> HIDE DEF a
<1>4. ASSUME NEW b \in Accounts, b.reading = Nobody, b.stage = "stored" \/ b.lax,
             Runs(t, read(db, t, r), a, b)
      PROVE  HandlerRuns(t, r, read_csv(t, r))
  <2> DEFINE c == [b EXCEPT !.answered = TRUE]
  <2>1. c \in Accounts /\ Runs(t, send("Success!"), b, c)
    BY <1>4, SendRuns
  <2>2. c.reading = Nobody
    BY <1>4 DEF Accounts
  <2>3. Runs(t, read(db, t, r) \o send("Success!"), a, c)
    BY <1>4, <2>1, RunsJoin
  <2> QED
    BY <2>1, <2>2, <2>3 DEF read_csv, HandlerRuns, a
<1>5. CASE Runs(t, read(db, t, r), a, InFile(a))
  <2>1. InFile(a) \in Accounts /\ InFile(a).reading = Nobody /\ InFile(a).stage = "stored"
    BY <1>2, InFileType DEF InFile, Accounts
  <2> QED
    BY <1>4, <1>5, <2>1
<1>6. CASE Dialect[db] = "postgres" /\ Runs(t, read(db, t, r), a, a)
  <2>1. a.lax
    BY <1>1, <1>2, <1>6 DEF Lax
  <2> QED
    BY <1>2, <1>4, <1>6, <2>1
<1> QED
  BY <1>1, <1>3, <1>5, <1>6, ReadRuns

\* execute, statement by statement.
LEMMA ExecuteQueriesRuns ==
  ASSUME NEW t \in Threads, NEW r, Connects, r.cmd = "execute", r.conn \in Connections,
         r.queries \in Seq({"SELECT", "INSERT", "CREATE", "DROP"})
  PROVE  HandlerRuns(t, r, execute_queries(t, r))
<1> DEFINE a == Begun(t, r)
           db == connector(r.conn)
           n == Len(r.queries)
           seqs == [i \in DOMAIN r.queries |-> execute(connector(r.conn), r.queries[i])]
           A == [i \in 0 .. n |-> a]
<1>1. db \in DBs
  BY DEF Connects, connector
<1>2. a \in Accounts /\ CanFail(a) /\ a.reading = Nobody /\ a.kind = Kind(r)
  BY BegunType DEF Kind
<1>3. Kind(r) = IF Range(r.queries) \cap {"DROP", "CREATE"} # {} THEN "drops" ELSE "executes"
  BY DEF Kind
<1>4. n \in Nat /\ DOMAIN r.queries = 1 .. n
  OBVIOUS
<1> HIDE DEF a
<1>5. ASSUME NEW i \in 1 .. n PROVE Runs(t, execute(db, r.queries[i]), a, a)
  <2>1. r.queries[i] \in {"SELECT", "INSERT", "CREATE", "DROP"} /\ r.queries[i] \in Range(r.queries)
    BY <1>4 DEF Range
  <2>2. Executes(a, Step("execute", db, r.queries[i]), a)
    BY <1>2, <1>3, <2>1 DEF Executes, Creates, DropsIt, InsertsOne, Step
  <2> QED
    BY <1>1, <1>2, <2>1, <2>2, ExecuteRuns DEF Statements
<1> HIDE DEF db
<1>6. \A i \in 1 .. n : execute(db, r.queries[i]) \in Seq(Steps)
  BY <1>5, RunsTypes
<1>7. seqs \in Seq(Seq(Steps)) /\ Len(seqs) = n /\ \A i \in 1 .. n : seqs[i] = execute(db, r.queries[i])
  BY <1>4, <1>6 DEF db
<1>8. A \in [0 .. n -> Accounts] /\ \A i \in 0 .. n : A[i] = a
  BY <1>2
<1> HIDE DEF A, seqs, n
<1>9. \A i \in 1 .. n : Runs(t, seqs[i], A[i - 1], A[i])
  <2> TAKE i \in 1 .. n
  <2>1. i - 1 \in 0 .. n /\ i \in 0 .. n
    BY <1>4
  <2> QED
    BY <1>5, <1>7, <1>8, <2>1
<1>10. Runs(t, FlattenSeq(seqs), a, a)
  <2>1. A[0] = a /\ A[n] = a
    BY <1>4, <1>8
  <2>2. Runs(t, FlattenSeq(seqs), A[0], A[n])
    BY <1>7, <1>8, <1>9, RunsFlat
  <2> QED
    BY <2>1, <2>2
<1>11. Runs(t, FlattenSeq(seqs) \o post_tables, a, a)
  BY <1>2, <1>10, PostTablesRuns, RunsJoin
<1> QED
  BY <1>3, <1>11, AnswerRuns DEF execute_queries, a, seqs, db

\* The other requests on a connection.
LEMMA QueryRuns ==
  ASSUME NEW t \in Threads, NEW r, Connects, r.conn \in Connections, Kind(r) = "other"
  PROVE  /\ HandlerRuns(t, r, get(t, r)) /\ HandlerRuns(t, r, get_colnames(t, r))
         /\ HandlerRuns(t, r, get_content(t, r)) /\ HandlerRuns(t, r, get_nrows(t, r))
         /\ HandlerRuns(t, r, list_tables(t, r)) /\ HandlerRuns(t, r, sniff_query(t, r))
         /\ HandlerRuns(t, r, sniff_table(t, r)) /\ HandlerRuns(t, r, refresh(t, r))
<1> DEFINE a == Begun(t, r)
           db == connector(r.conn)
<1>1. db \in DBs
  BY DEF Connects, connector
<1>2. a \in Accounts /\ CanFail(a) /\ a.reading = Nobody
  BY BegunType
<1>3. ASSUME NEW s, Runs(t, s, a, a) PROVE HandlerRuns(t, r, s \o send("Success!"))
  BY <1>3, AnswerRuns
<1> HIDE DEF a, db
<1>4. Runs(t, select(db) \o rest_of_iterator(db), a, a) /\ Runs(t, get_nrows_steps(db), a, a)
  BY <1>1, <1>2, SelectRuns
<1>5. /\ Runs(t, get_colnames_from_table(db), a, a)
      /\ Runs(t, get_coltypes_from_table(db), a, a)
      /\ Runs(t, sniff_table_steps(db), a, a)
  BY <1>1, <1>2, ChecksRun, RunsJoin DEF sniff_table_steps
<1>6. Runs(t, <<>>, a, a)
  BY <1>2, RunsNothing DEF Settles
<1>7. HandlerRuns(t, r, get(t, r))
  BY <1>3, <1>4 DEF get, db
<1>8. HandlerRuns(t, r, get_colnames(t, r)) /\ HandlerRuns(t, r, sniff_table(t, r))
  BY <1>3, <1>5 DEF get_colnames, sniff_table, db
<1>9. HandlerRuns(t, r, get_nrows(t, r))
  BY <1>3, <1>4 DEF get_nrows, db
<1>10. HandlerRuns(t, r, get_content(t, r))
  <2> DEFINE checked == IF r.valid_page THEN <<>> ELSE <<Step("throw", db, "page")>>
             s1 == get_nrows_steps(db) \o checked
             s2 == s1 \o get_colnames_from_table(db)
             s3 == s2 \o select(db)
             s4 == s3 \o rest_of_iterator(db)
             b == [a EXCEPT !.reading = db]
  <2>1. Runs(t, checked, a, a)
    <3>1. Runs(t, <<Step("throw", db, "page")>>, a, a)
      BY <1>1, <1>2, ThrowRuns DEF Whats, Notes
    <3> QED
      BY <1>6, <3>1
  <2> HIDE DEF checked
  <2>2. Runs(t, s1, a, a)
    BY <1>4, <2>1, RunsJoin
  <2>3. Runs(t, s2, a, a)
    BY <1>5, <2>2, RunsJoin
  <2>4. b \in Accounts /\ Runs(t, select(db), a, b)
    BY <1>1, <1>2, IteratorRuns
  <2>5. b.reading = db /\ a = [b EXCEPT !.reading = Nobody]
    BY <1>2 DEF Accounts
  <2> HIDE DEF b
  <2>6. Runs(t, rest_of_iterator(db), b, a)
    BY <1>1, <1>2, <2>4, <2>5, CloseRuns DEF rest_of_iterator
  <2>7. Runs(t, s3, a, b)
    BY <2>3, <2>4, RunsJoin
  <2>8. Runs(t, s4, a, a)
    BY <2>6, <2>7, RunsJoin
  <2>9. get_content(t, r) = s4 \o send("Success!")
    BY DEF get_content, get_content_steps, db, checked
  <2> HIDE DEF s4
  <2> QED
    BY <1>3, <2>8, <2>9
<1>11. HandlerRuns(t, r, list_tables(t, r))
  <2>1. Moves(t, a, Step("list", r.conn, ""), a)
    BY <1>2 DEF Moves, Step
  <2>2. Step("list", r.conn, "") \in Steps
    BY DEF Step, Steps, Ops, Whats, Notes
  <2>3. Runs(t, list_tables_step(r.conn), a, a)
    BY <1>2, <2>1, <2>2, RunsOne DEF list_tables_step
  <2> QED
    BY <1>3, <2>3 DEF list_tables
<1>12. HandlerRuns(t, r, sniff_query(t, r))
  <2> DEFINE types == IF Dialect[db] = "sqlite3" THEN <<Step("throw", db, "types")>>
                      ELSE get_coltypes_from_table(db)
  <2>1. Runs(t, types, a, a)
    <3>1. Runs(t, <<Step("throw", db, "types")>>, a, a)
      BY <1>1, <1>2, ThrowRuns DEF Whats, Notes
    <3> QED
      BY <1>5, <3>1
  <2> HIDE DEF types
  <2>2. Runs(t, get_colnames_from_table(db) \o types, a, a)
    BY <1>5, <2>1, RunsJoin
  <2> QED
    BY <1>3, <2>2 DEF sniff_query, db, types
<1>13. HandlerRuns(t, r, refresh(t, r))
  <2>1. Runs(t, post_tables, a, a)
    BY <1>2, PostTablesRuns
  <2> QED
    BY <1>3, <2>1 DEF refresh
<1> QED
  BY <1>7, <1>8, <1>9, <1>10, <1>11, <1>12, <1>13

\* drop_table and the list of tables after it.
LEMMA DropTableRuns ==
  ASSUME NEW t \in Threads, NEW r, Connects, r.cmd = "drop_table", r.conn \in Connections
  PROVE  HandlerRuns(t, r, drop_table(t, r))
<1> DEFINE a == Begun(t, r)
           db == connector(r.conn)
<1>1. db \in DBs
  BY DEF Connects, connector
<1>2. a \in Accounts /\ CanFail(a) /\ a.kind = "drops" /\ Kind(r) = "drops"
  BY BegunType DEF Kind
<1> HIDE DEF a
<1>3. Runs(t, drop_table_statement(db), a, a)
  <2>1. Executes(a, Step("execute", db, "DROP"), a)
    BY <1>2 DEF Executes, DropsIt, Step
  <2> QED
    BY <1>1, <1>2, <2>1, ExecuteRuns DEF drop_table_statement, Statements
<1>4. Runs(t, drop_table_statement(db) \o post_tables, a, a)
  BY <1>2, <1>3, PostTablesRuns, RunsJoin
<1> QED
  BY <1>2, <1>4, AnswerRuns DEF drop_table, a

\* new_db and the list of tables after it.
LEMMA NewDBRuns ==
  ASSUME NEW t \in Threads, NEW r \in Requests[t], r.cmd = "new_db", r.conn \in Connections,
         r.db \in DBs
  PROVE  HandlerRuns(t, r, new_db(t, r))
<1> DEFINE a == Begun(t, r)
           s == Step("new_db", r.conn, r.db)
<1>1. a \in Accounts /\ CanFail(a) /\ Kind(r) = "other"
  BY BegunType DEF Kind
<1> HIDE DEF a
<1>2. LeadsTo(r.conn, r.db)
  BY DEF LeadsTo
<1>3. Moves(t, a, s, a)
  BY <1>2 DEF Moves, Step
<1>4. s \in Steps
  BY DEF Step, Steps, Ops, Whats
<1> HIDE DEF s
<1>5. Runs(t, <<s>>, a, a)
  BY <1>1, <1>3, <1>4, RunsOne
<1>6. Runs(t, <<s>> \o post_tables, a, a)
  BY <1>1, <1>5, PostTablesRuns, RunsJoin
<1> QED
  BY <1>1, <1>6, AnswerRuns DEF new_db, a, s

\* Whatever a thread is asked, its handler runs.
LEMMA CommandRuns ==
  ASSUME NEW t \in Threads, NEW r \in Requests[t], Connects
  PROVE  HandlerRuns(t, r, execute_command(t, r))
<1>1. WellFormed(r)
  BY DatabasesAssumption
<1>2. CASE r.cmd \in {"describe_connection", "list_connections", "sniff_csv"}
  <2>1. Kind(r) = "other"
    BY <1>2 DEF Kind
  <2>2. HandlerRuns(t, r, send("Success!"))
    BY <2>1, OnlyAnswerRuns
  <2> QED
    BY <1>2, <2>2 DEF execute_command, describe_connection, list_connections, sniff_csv
<1>3. CASE r.cmd = "refresh"
  <2>1. Begun(t, r) \in Accounts /\ CanFail(Begun(t, r)) /\ Kind(r) = "other"
    BY <1>3, BegunType DEF Kind
  <2>2. Runs(t, post_tables, Begun(t, r), Begun(t, r))
    BY <2>1, PostTablesRuns
  <2> QED
    BY <1>3, <2>1, <2>2, AnswerRuns DEF execute_command, refresh
<1>4. CASE r.cmd = "copy_table"
  BY <1>1, <1>4, CopyTableRuns DEF execute_command, WellFormed
<1>5. CASE r.cmd = "execute"
  BY <1>1, <1>5, ExecuteQueriesRuns DEF execute_command, WellFormed
<1>6. CASE r.cmd = "new_db"
  BY <1>1, <1>6, NewDBRuns DEF execute_command, WellFormed
<1>7. CASE r.cmd = "read_csv"
  BY <1>1, <1>7, ReadCSVRuns DEF execute_command, WellFormed, Lines
<1>8. CASE r.cmd = "drop_table"
  BY <1>1, <1>8, DropTableRuns DEF execute_command, WellFormed
<1>9. CASE r.cmd \in {"get", "get_colnames", "get_content", "get_nrows", "list_tables",
                      "sniff_query", "sniff_table"}
  <2>1. Kind(r) = "other" /\ r.conn \in Connections
    BY <1>1, <1>9 DEF Kind, WellFormed
  <2> QED
    BY <1>9, <2>1, QueryRuns DEF execute_command
<1> QED
  BY <1>1, <1>2, <1>3, <1>4, <1>5, <1>6, <1>7, <1>8, <1>9 DEF WellFormed

-----------------------------------------------------------------------------
(* What a step leaves *)

\* The rows of a thread are accounted for as before when the tables stay as they
\* are.
LEMMA RowsSame ==
  ASSUME NEW t \in Threads, NEW a, RowsAgree(t, a), tables' = tables, tx' = tx, req'[t] = req[t],
         answers'[t] = answers[t], NobodyDrops(t)' => NobodyDrops(t)
  PROVE  RowsAgree(t, a)'
<1>1. \A db : NoneThere(t, db)' <=> NoneThere(t, db)
  BY DEF NoneThere, Mine
<1>2. /\ Reads(t)' <=> Reads(t)
      /\ RowsWanted(t)' = RowsWanted(t)
  BY DEF Reads, RowsWanted
<1>3. a.stage = "before" => RowsBefore(t, a)'
  BY <1>1 DEF RowsAgree, RowsBefore
<1>4. a.stage = "bulks" => RowsInBulks(t, a)'
  BY <1>1 DEF RowsAgree, RowsInBulks, Mine
<1>5. a.stage = "inside" => RowsInside(t, a)'
  BY <1>1 DEF RowsAgree, RowsInside, Mine
<1>6. a.stage = "stored" /\ Reads(t)' => RowsStored(t, a)'
  BY <1>1, <1>2 DEF RowsAgree, RowsStored, Mine
<1> QED
  BY <1>2, <1>3, <1>4, <1>5, <1>6 DEF RowsAgree

\* Who may drop a table goes by the requests alone.
LEMMA DropsSame ==
  ASSUME NEW t \in Threads, req' = req
  PROVE  NobodyDrops(t)' <=> NobodyDrops(t)
BY DEF NobodyDrops, Drops

\* The accounts of the threads that do not take a step that changes no table.
LEMMA OthersKeep ==
  ASSUME NEW u \in Threads, NEW a, Agrees(u, a), tables' = tables, tx' = tx,
         req'[u] = req[u], answers'[u] = answers[u], seen'[u] = seen[u], catch'[u] = catch[u],
         NobodyDrops(u)' => NobodyDrops(u),
         \A db \in DBs : (writer'[db] = u <=> writer[db] = u)
                         /\ (u \in readers'[db] <=> u \in readers[db])
  PROVE  Agrees(u, a)'
<1>1. AnswersAgree(u, a)'
  BY DEF Agrees, AnswersAgree, Reads
<1>2. LocksAgree(u, a)'
  BY DEF Agrees, LocksAgree, SeesOneTable
<1>3. a.kind \notin {"drops", "executes"} => RowsAgree(u, a)'
  BY RowsSame DEF Agrees
<1> QED
  BY <1>1, <1>2, <1>3 DEF Agrees

\* What is settled agrees as well.
LEMMA SettledAgrees ==
  ASSUME Types, Exclusion, NEW t \in Threads, NEW a \in Accounts, Agrees(t, a), NEW b, Settles(a, b)
  PROVE  Agrees(t, b)
<1>1. CASE b = a
  BY <1>1
<1>2. CASE b # a
  <2>1. /\ a.stage \in {"before", "bulks"} /\ a.got = a.wanted /\ ~ a.answered
        /\ b = InFile(a)
    BY <1>2 DEF Settles
  <2>2. /\ b.kind = a.kind /\ b.lax = a.lax /\ b.answered = a.answered
        /\ b.reading = a.reading /\ b.writing = a.writing /\ b.trying = a.trying
        /\ b.own = Nobody /\ b.stage = "stored"
    BY <2>1 DEF InFile, Accounts
  <2>3. a.own = Nobody
    BY <2>1 DEF Agrees, LocksAgree
  <2>4. answers[t] = <<>>
    BY <2>1 DEF Agrees, AnswersAgree
  <2>5. AnswersAgree(t, b)
    BY <2>2, <2>4 DEF Agrees, AnswersAgree
  <2>6. LocksAgree(t, b)
    BY <2>2, <2>3 DEF Agrees, LocksAgree
  <2>7. ASSUME b.kind \notin {"drops", "executes"}, Reads(t) PROVE RowsStored(t, b)
    <3>1. RowsAgree(t, a) /\ a.wanted = RowsWanted(t)
      BY <2>1, <2>2, <2>7 DEF Agrees, RowsAgree
    <3>2. CASE a.stage = "before"
      <4>1. RowsWanted(t) = {} /\ \A db \in DBs : NoneThere(t, db)
        BY <2>1, <3>1, <3>2 DEF RowsAgree, RowsBefore
      <4>2. DBs # {}
        BY DatabasesAssumption
      <4> QED
        BY <4>1, <4>2 DEF RowsStored, NoneThere
    <3>3. CASE a.stage = "bulks"
      <4>1. RowsInBulks(t, a) /\ a.got = RowsWanted(t)
        BY <2>1, <3>1, <3>3 DEF RowsAgree
      <4> QED
        BY <4>1 DEF RowsInBulks, RowsStored, NoneThere, Exclusion, locked
    <3> QED
      BY <2>1, <3>2, <3>3
  <2> QED
    BY <2>2, <2>5, <2>6, <2>7 DEF Agrees, RowsAgree
<1> QED
  BY <1>1, <1>2

\* The accounts before a step of thread t that leads to account d.
AloneOnTheirOwn(A) ==
  \A t, u \in Threads : A[t].own # Nobody /\ A[t].own = A[u].own => t = u

GoesOn(u, a) ==
  /\ \E b \in Accounts : b.reading = Nobody /\ Runs(u, steps[u], a, b)
  /\ req[u] = NotAsked => Idle(a) /\ steps[u] = <<>>

Acting(t, A, d) ==
  /\ A \in [Threads -> Accounts] /\ d \in Accounts
  /\ \A u \in Threads : Agrees(u, A[u])
  /\ AloneOnTheirOwn(A)
  /\ \A u \in Threads \ {t} : GoesOn(u, A[u])
  /\ Head(steps[t]) \in Steps /\ Tail(steps[t]) \in Seq(Steps)
  /\ Moves(t, A[t], Head(steps[t]), d)
  /\ \E b \in Accounts : b.reading = Nobody /\ Runs(t, Tail(steps[t]), d, b)
  /\ req[t] # NotAsked

\* By the invariant each thread has an account from which its remaining steps run.
LEMMA ActingExists ==
  ASSUME Inv, NEW t \in Threads, steps[t] # <<>>
  PROVE  \E A, d : Acting(t, A, d)
<1>1. PICK a \in [Threads -> Accounts] : Accounted(a)
  BY DEF Inv
<1>2. PICK b \in Accounts : b.reading = Nobody /\ Runs(t, steps[t], a[t], b)
  BY <1>1 DEF Accounted
<1>3. PICK c, d \in Accounts : /\ Settles(a[t], c) /\ Moves(t, c, Head(steps[t]), d)
                               /\ Runs(t, Tail(steps[t]), d, b)
  BY <1>2, RunsTail
<1>4. Head(steps[t]) \in Steps /\ Tail(steps[t]) \in Seq(Steps)
  <2>1. steps[t] \in Seq(Steps)
    BY DEF Inv, Types
  <2> QED
    BY <2>1, HeadTailProperties
<1> DEFINE A == [a EXCEPT ![t] = c]
<1>5. A \in [Threads -> Accounts] /\ A[t] = c /\ \A u \in Threads \ {t} : A[u] = a[u]
  OBVIOUS
<1>6. c.own = a[t].own
  <2>1. Agrees(t, a[t]) /\ a[t] \in Accounts
    BY <1>1 DEF Accounted
  <2>2. c # a[t] => c.own = Nobody /\ a[t].own = Nobody
    BY <1>3, <2>1 DEF Settles, InFile, Accounts, Agrees, LocksAgree
  <2> QED
    BY <2>2
<1> HIDE DEF A
<1>7. \A u \in Threads : Agrees(u, A[u])
  <2>1. Agrees(t, c)
    BY <1>1, <1>3, SettledAgrees DEF Accounted, Inv
  <2> QED
    BY <1>1, <1>5, <2>1 DEF Accounted
<1>8. AloneOnTheirOwn(A)
  BY <1>1, <1>5, <1>6 DEF Accounted, AloneOnTheirOwn
<1>9. \A u \in Threads \ {t} : GoesOn(u, A[u])
  BY <1>1, <1>5 DEF Accounted, GoesOn
<1>10. req[t] # NotAsked
  BY <1>1 DEF Accounted
<1> QED
  BY <1>2, <1>3, <1>4, <1>5, <1>7, <1>8, <1>9, <1>10 DEF Acting

\* The invariant holds again if thread t has account e and runs from there.
LEMMA StepKeeps ==
  ASSUME Types', Exclusion', NEW t \in Threads, NEW A, NEW d, Acting(t, A, d), NEW e \in Accounts,
         NEW left, steps' = [steps EXCEPT ![t] = left], Types,
         \E b \in Accounts : b.reading = Nobody /\ Runs(t, left, e, b),
         Agrees(t, e)', \A u \in Threads \ {t} : Agrees(u, A[u])',
         req'[t] # NotAsked, \A u \in Threads \ {t} : req'[u] = req[u],
         \/ e.own \in {Nobody, A[t].own}
         \/ \A u \in Threads \ {t} : A[u].own # e.own
  PROVE  Inv'
<1>1. PICK a \in [Threads -> Accounts] : a[t] = e /\ \A u \in Threads \ {t} : a[u] = A[u]
  <2>1. [A EXCEPT ![t] = e] \in [Threads -> Accounts]
    BY DEF Acting
  <2> QED
    BY <2>1 DEF Acting
<1>2. steps'[t] = left /\ \A u \in Threads \ {t} : steps'[u] = steps[u]
  BY DEF Types
<1>3. AloneOnTheirOwn(a)
  <2>1. AloneOnTheirOwn(A)
    BY DEF Acting
  <2> QED
    BY <1>1, <2>1 DEF AloneOnTheirOwn
<1>4. ASSUME NEW u \in Threads PROVE Agrees(u, a[u])' /\ GoesOn(u, a[u])'
  <2>1. CASE u = t
    <3>1. Agrees(t, e)'
      OBVIOUS
    <3>2. GoesOn(t, e)'
      BY <1>2 DEF GoesOn
    <3> QED
      BY <1>1, <2>1, <3>1, <3>2
  <2>2. CASE u # t
    <3>1. GoesOn(u, A[u])
      BY <2>2 DEF Acting
    <3>2. GoesOn(u, A[u])'
      BY <1>2, <2>2, <3>1 DEF GoesOn
    <3>3. Agrees(u, A[u])'
      BY <2>2
    <3> QED
      BY <1>1, <2>2, <3>2, <3>3
  <2> QED
    BY <2>1, <2>2
<1> QED
  BY <1>1, <1>3, <1>4 DEF Inv, Accounted, AloneOnTheirOwn, GoesOn

-----------------------------------------------------------------------------
(* Steps that change no table *)

\* What is left of a handler that failed is the error, and it ends with nothing
\* open.
LEMMA ThrowsRun ==
  ASSUME NEW t, NEW db \in DBs, NEW what \in Whats, NEW a \in Accounts, CanFail(a)
  PROVE  /\ <<Step("throw", db, what)>> \in Seq(Steps)
         /\ \E b \in Accounts : b.reading = Nobody /\ Runs(t, <<Step("throw", db, what)>>, a, b)
<1> DEFINE b == [a EXCEPT !.reading = Nobody]
<1>1. b \in Accounts /\ b.reading = Nobody
  BY DEF Accounts, SomeDB
<1> HIDE DEF b
<1>2. Runs(t, <<Step("throw", db, what)>>, a, b)
  BY <1>1, ThrowRuns
<1> QED
  BY <1>1, <1>2, RunsTypes

\* The step leaves what the thread has, or fails.
LEMMA QuietStep ==
  ASSUME Inv, NEW t \in Threads, NEW A, NEW d, Acting(t, A, d),
         UNCHANGED <<tables, tx, readers, writer, catch, seen, answers, req>>,
         connector_map' \in [Connections -> DBs],
         \A conn \in Connections : LeadsTo(conn, connector_map'[conn]),
         posting' \subseteq Threads,
         NEW left, steps' = [steps EXCEPT ![t] = left],
         \E b \in Accounts : b.reading = Nobody /\ Runs(t, left, A[t], b)
  PROVE  Inv'
<1>1. left \in Seq(Steps)
  BY RunsTypes
<1>2. Types' /\ Exclusion' /\ Types
  BY <1>1 DEF Inv, Types, Exclusion, locked
<1>3. \A u \in Threads : Agrees(u, A[u])'
  <2> TAKE u \in Threads
  <2>1. Agrees(u, A[u])
    BY DEF Acting
  <2> QED
    BY <2>1, OthersKeep, DropsSame
<1>4. A[t] \in Accounts /\ req[t] # NotAsked
  BY DEF Acting
<1> QED
  BY <1>2, <1>3, <1>4, StepKeeps

\* Looking up a connection keeps the invariant.
LEMMA LookKeeps ==
  ASSUME Inv, NEW t \in Threads, steps[t] # <<>>, Look(t)
  PROVE  Inv'
<1>1. PICK A, d : Acting(t, A, d)
  BY ActingExists
<1> DEFINE s == Head(steps[t])
<1>2. s.op = "look" /\ s \in Steps /\ Moves(t, A[t], s, d)
  BY <1>1 DEF Look, Acting
<1> HIDE DEF s
<1>3. s.db \in DBs /\ CanFail(A[t]) /\ d = A[t] /\ s.what \in Whats /\ A[t] \in Accounts
  BY <1>1, <1>2 DEF Moves, Steps, Inserts, Appends, Acting
<1>4. UNCHANGED <<tables, tx, readers, writer, catch, seen, answers, req, connector_map, posting>>
  BY DEF Look, locks
<1>5. connector_map' \in [Connections -> DBs] /\ posting' \subseteq Threads
      /\ \A conn \in Connections : LeadsTo(conn, connector_map'[conn])
  BY <1>4 DEF Inv, Types
<1>6. CASE exists(s.db)
  <2>1. steps' = [steps EXCEPT ![t] = Tail(steps[t])]
    BY <1>6 DEF Look, Advance, Goto, s
  <2> QED
    BY <1>1, <1>3, <1>4, <1>5, <2>1, QuietStep DEF Acting
<1>7. CASE ~ exists(s.db)
  <2>1. steps' = [steps EXCEPT ![t] = <<Step("throw", s.db, s.what)>>]
    BY <1>7 DEF Look, Goto, s
  <2> QED
    BY <1>1, <1>3, <1>4, <1>5, <2>1, QuietStep, ThrowsRun
<1> QED
  BY <1>6, <1>7

\* The account of a thread that has released what it holds.
LEMMA ThrowKeeps ==
  ASSUME Inv, NEW t \in Threads, NEW A, NEW d, Acting(t, A, d), CanFail(A[t]), Throw(t)
  PROVE  Inv'
<1> DEFINE a == A[t]
<1>1. a \in Accounts /\ Agrees(t, a) /\ CanFail(a) /\ req[t] # NotAsked
  BY DEF Acting
<1>2. UNCHANGED <<connector_map, tables, tx, seen, answers, req>> /\ catch \in [Threads -> SomeDB]
      /\ Types /\ Exclusion
  BY DEF Throw, Inv, Types
<1>3. /\ catch' = [catch EXCEPT ![t] = Nobody]
      /\ writer' = [db \in DBs |-> IF writer[db] = t THEN Nobody ELSE writer[db]]
  BY DEF Throw
<1>4. Nobody \notin Threads /\ Nobody \notin DBs
  BY DatabasesAssumption
<1>5. a.trying = catch[t]
  BY <1>1 DEF Agrees, LocksAgree
<1> HIDE DEF a
<1>6. readers' \in [DBs -> SUBSET Threads] /\ posting' \subseteq Threads
      /\ \A db \in DBs : readers'[db] \in {readers[db], readers[db] \ {t}}
  BY <1>2 DEF Throw, Without, Types
<1>7. Exclusion'
  BY <1>2, <1>3, <1>4, <1>6 DEF Exclusion, locked, Types
<1>8. \A u \in Threads \ {t} : Agrees(u, A[u])'
  <2> TAKE u \in Threads \ {t}
  <2>1. Agrees(u, A[u])
    BY DEF Acting
  <2>2. \A db \in DBs : (writer'[db] = u <=> writer[db] = u)
                        /\ (u \in readers'[db] <=> u \in readers[db])
    BY <1>3, <1>4, <1>6
  <2>3. catch'[u] = catch[u]
    BY <1>2, <1>3
  <2> QED
    BY <1>2, <2>1, <2>2, <2>3, OthersKeep, DropsSame
<1>9. ASSUME NEW left \in Seq(Steps), steps' = [steps EXCEPT ![t] = left] PROVE Types'
  BY <1>2, <1>3, <1>6, <1>9 DEF Types, SomeDB
<1>10. ASSUME NEW e, e \in {[a EXCEPT !.trying = Nobody, !.writing = Nobody],
                            [a EXCEPT !.trying = Nobody, !.writing = Nobody, !.reading = Nobody]},
              \A db \in DBs : t \in readers'[db] <=> e.reading = db /\ locked(db)
       PROVE  /\ e \in Accounts /\ e.own = a.own /\ Agrees(t, e)' /\ e.kind = a.kind
              /\ e.stage = a.stage /\ e.trying = Nobody /\ e.writing = Nobody
  <2>1. /\ e \in Accounts /\ e.kind = a.kind /\ e.lax = a.lax /\ e.stage = a.stage /\ e.at = a.at
        /\ e.own = a.own
        /\ e.got = a.got /\ e.wanted = a.wanted /\ e.answered = a.answered
        /\ e.trying = Nobody /\ e.writing = Nobody /\ e.reading \in {Nobody, a.reading}
    <3>1. CASE e = [a EXCEPT !.trying = Nobody, !.writing = Nobody]
      BY <1>1, <3>1 DEF Accounts, SomeDB
    <3>2. CASE e = [a EXCEPT !.trying = Nobody, !.writing = Nobody, !.reading = Nobody]
      BY <1>1, <3>2 DEF Accounts, SomeDB
    <3> QED
      BY <1>10, <3>1, <3>2
  <2>2. AnswersAgree(t, e)'
    BY <1>1, <1>2, <2>1 DEF Agrees, AnswersAgree, Reads
  <2>3. LocksAgree(t, e)'
    <3>1. \A db \in DBs : writer'[db] = t <=> e.writing = db
      BY <1>3, <1>4, <2>1
    <3>2. e.trying = catch'[t]
      BY <1>2, <1>3, <2>1
    <3> QED
      BY <1>1, <1>2, <1>10, <2>1, <3>1, <3>2 DEF Agrees, LocksAgree, SeesOneTable, locked
  <2>4. a.kind \notin {"drops", "executes"} => RowsAgree(t, e)'
    <3>1. RowsAgree(t, a) => RowsAgree(t, e)
      BY <2>1 DEF RowsAgree, RowsBefore, RowsInBulks, RowsInside, RowsStored
    <3>2. RowsAgree(t, e) => RowsAgree(t, e)'
      BY <1>2, RowsSame, DropsSame
    <3> QED
      BY <1>1, <3>1, <3>2 DEF Agrees
  <2> QED
    BY <2>1, <2>2, <2>3, <2>4 DEF Agrees
<1>11. CASE catch[t] # Nobody
  <2> DEFINE e == [a EXCEPT !.trying = Nobody, !.writing = Nobody]
             f == [e EXCEPT !.own = Nobody, !.stage = "before", !.got = {}]
             db == catch[t]
             left == execute(db, "ROLLBACK") \o <<Step("throw", db, "again")>>
  <2>1. readers' = readers /\ steps' = [steps EXCEPT ![t] = left] /\ db \in DBs
    BY <1>2, <1>11 DEF Throw, Goto, SomeDB
  <2>2. e.reading = a.reading
    BY <1>1 DEF Accounts
  <2>3. \A x \in DBs : t \in readers'[x] <=> e.reading = x /\ locked(x)
    BY <1>1, <2>1, <2>2 DEF Agrees, LocksAgree
  <2>4. /\ e \in Accounts /\ e.own = a.own /\ Agrees(t, e)' /\ e.kind = a.kind
        /\ e.stage = a.stage /\ e.trying = Nobody /\ e.writing = Nobody
    <3> HIDE DEF e
    <3>1. e \in {[a EXCEPT !.trying = Nobody, !.writing = Nobody],
                 [a EXCEPT !.trying = Nobody, !.writing = Nobody, !.reading = Nobody]}
      BY DEF e
    <3> QED
      BY <1>10, <2>3, <3>1
  <2>5. CanFail(e) /\ e.own = db
    BY <1>1, <1>5, <1>11, <2>4 DEF CanFail
  <2> HIDE DEF e
  <2>6. f \in Accounts /\ f.trying = Nobody /\ f.stage = "before"
    BY <2>4 DEF Accounts, SomeDB
  <2>7. Executes(e, Step("execute", db, "ROLLBACK"), f)
    BY <2>4, <2>5 DEF Executes, RollsBack, Step
  <2> HIDE DEF f
  <2>8. Runs(t, execute(db, "ROLLBACK"), e, f)
    BY <2>1, <2>4, <2>5, <2>6, <2>7, ExecuteRuns DEF Statements
  <2>9. CanFail(f)
    BY <2>6 DEF CanFail
  <2>10. PICK b \in Accounts : b.reading = Nobody /\ Runs(t, <<Step("throw", db, "again")>>, f, b)
    BY <2>1, <2>6, <2>9, ThrowsRun DEF Whats, Notes
  <2>11. Runs(t, left, e, b)
    BY <2>8, <2>10, RunsJoin
  <2>12. Types'
    <3>1. left \in Seq(Steps)
      BY <2>11, RunsTypes
    <3> QED
      BY <1>9, <2>1, <3>1
  <2> HIDE DEF left
  <2> QED
    BY <1>1, <1>2, <1>7, <1>8, <2>1, <2>4, <2>10, <2>11, <2>12, StepKeeps DEF a
<1>12. CASE catch[t] = Nobody
  <2> DEFINE e == [a EXCEPT !.trying = Nobody, !.writing = Nobody, !.reading = Nobody]
             f == [e EXCEPT !.answered = TRUE]
  <2>1. readers' = Without(t) /\ steps' = [steps EXCEPT ![t] = send("error")]
    BY <1>12 DEF Throw, Goto
  <2>2. e.reading = Nobody
    BY <1>1 DEF Accounts
  <2>3. \A x \in DBs : t \in readers'[x] <=> e.reading = x /\ locked(x)
    BY <1>4, <2>1, <2>2 DEF Without
  <2>4. /\ e \in Accounts /\ e.own = a.own /\ Agrees(t, e)' /\ e.kind = a.kind
        /\ e.stage = a.stage /\ e.trying = Nobody /\ e.writing = Nobody
    <3> HIDE DEF e
    <3>1. e \in {[a EXCEPT !.trying = Nobody, !.writing = Nobody],
                 [a EXCEPT !.trying = Nobody, !.writing = Nobody, !.reading = Nobody]}
      BY DEF e
    <3> QED
      BY <1>10, <2>3, <3>1
  <2> HIDE DEF e
  <2>5. f \in Accounts /\ f.reading = Nobody
    BY <2>2, <2>4 DEF Accounts
  <2>6. Moves(t, e, Step("send", "", "error"), f)
    BY <1>1, <2>4 DEF Moves, Sends, Step, CanFail
  <2>7. Step("send", "", "error") \in Steps
    BY DEF Step, Steps, Ops, Whats, Notes
  <2> HIDE DEF f
  <2>8. Runs(t, send("error"), e, f)
    BY <2>4, <2>5, <2>6, <2>7, RunsOne DEF send
  <2>9. Types'
    <3>1. send("error") \in Seq(Steps)
      BY <2>8, RunsTypes
    <3> QED
      BY <1>9, <2>1, <3>1
  <2> QED
    BY <1>1, <1>2, <1>7, <1>8, <2>1, <2>4, <2>5, <2>8, <2>9, StepKeeps DEF a
<1> QED
  BY <1>11, <1>12

\* So does a step that fails, or a lock that is not given in time: the rest of the
\* handler closes what is open.
LEMMA FailsKeeps ==
  ASSUME Inv, NEW t \in Threads, steps[t] # <<>>, Fails(t) \/ TimeOut(t)
  PROVE  Inv'
<1>1. PICK A, d : Acting(t, A, d)
  BY ActingExists
<1> DEFINE s == Head(steps[t])
<1>2. s \in Steps /\ Moves(t, A[t], s, d)
  BY <1>1 DEF Acting
<1>3. s.op \in {"throw", "look", "select", "list", "execute"}
  BY DEF Fails, TimeOut, may_go, patient
<1> HIDE DEF s
<1>4. CanFail(A[t])
  BY <1>2, <1>3 DEF Moves, Inserts, Appends
<1>5. Throw(t)
  BY DEF Fails, TimeOut
<1> QED
  BY <1>1, <1>4, <1>5, ThrowKeeps

\* So do entering and leaving post_tables, listing a connection, and adding one.
LEMMA EnterKeeps ==
  ASSUME Inv, NEW t \in Threads, steps[t] # <<>>, Enter(t) \/ List(t) \/ NewDB(t)
  PROVE  Inv'
<1>1. PICK A, d : Acting(t, A, d)
  BY ActingExists
<1> DEFINE s == Head(steps[t])
<1>2. s.op \in {"enter", "leave", "list", "new_db"} /\ Moves(t, A[t], s, d)
  BY <1>1 DEF Enter, List, NewDB, Acting
<1>3. UNCHANGED <<tables, tx, readers, writer, catch, seen, answers, req>>
      /\ steps' = [steps EXCEPT ![t] = Tail(steps[t])]
  BY DEF Enter, List, NewDB, locks, Advance, Goto
<1>4. posting' \subseteq Threads
  BY DEF Enter, List, NewDB, locks, Inv, Types
<1>5. connector_map' = connector_map
      \/ (s.op = "new_db" /\ connector_map' = [connector_map EXCEPT ![s.db] = s.what])
  BY DEF Enter, List, NewDB
<1> HIDE DEF s
<1>6. d = A[t]
  BY <1>2 DEF Moves, Inserts, Appends
<1>7. s.op = "new_db" => s.db \in Connections /\ s.what \in DBs /\ LeadsTo(s.db, s.what)
  BY <1>2 DEF Moves, Inserts, Appends
<1>8. connector_map' \in [Connections -> DBs]
      /\ \A conn \in Connections : LeadsTo(conn, connector_map'[conn])
  BY <1>5, <1>7 DEF Inv, Types
<1> QED
  BY <1>1, <1>3, <1>4, <1>6, <1>8, QuietStep DEF Acting

-----------------------------------------------------------------------------
(* Steps on locks and iterators *)

SameFile(a, e) ==
  /\ e.kind = a.kind /\ e.lax = a.lax /\ e.answered = a.answered
  /\ e.stage = a.stage /\ e.own = a.own /\ e.at = a.at /\ e.got = a.got /\ e.wanted = a.wanted
  /\ e.writing # Nobody => a.writing # Nobody \/ a.got = {}

\* What is known of a thread's rows does not depend on its locks.
LEMMA FileKeeps ==
  ASSUME NEW t \in Threads, NEW a, NEW e, RowsAgree(t, a), SameFile(a, e)
  PROVE  RowsAgree(t, e)
<1>1. a.stage = "inside" => RowsInside(t, e)
  BY DEF RowsAgree, RowsInside, SameFile
<1>2. a.stage = "before" => RowsBefore(t, e)
  BY DEF RowsAgree, RowsBefore, SameFile
<1>3. a.stage = "bulks" => RowsInBulks(t, e)
  BY DEF RowsAgree, RowsInBulks, SameFile
<1>4. a.stage = "stored" /\ Reads(t) => RowsStored(t, e)
  BY DEF RowsAgree, RowsStored, SameFile
<1> QED
  BY <1>1, <1>2, <1>3, <1>4 DEF RowsAgree, SameFile

\* What a step that moves only locks has to keep.
LEMMA LockStep ==
  ASSUME Inv, NEW t \in Threads, NEW A, NEW d, Acting(t, A, d),
         UNCHANGED <<connector_map, tables, tx, posting, answers, req>>,
         readers' \in [DBs -> SUBSET Threads], writer' \in [DBs -> Threads \cup {Nobody}],
         catch' \in [Threads -> SomeDB], seen' \in [Threads -> [at : Seq(Rows), rows : Seq(Rows)]],
         \A db \in DBs : writer'[db] # Nobody => readers'[db] = {} /\ locked(db),
         \A u \in Threads \ {t} :
           /\ seen'[u] = seen[u] /\ catch'[u] = catch[u]
           /\ \A db \in DBs : (writer'[db] = u <=> writer[db] = u)
                              /\ (u \in readers'[db] <=> u \in readers[db]),
         NEW e \in Accounts, SameFile(A[t], e),
         e.trying = catch'[t], e.writing # Nobody => e.own = e.writing,
         \A db \in DBs : writer'[db] = t <=> e.writing = db,
         \A db \in DBs : t \in readers'[db] <=> e.reading = db /\ locked(db),
         e.reading # Nobody /\ locked(e.reading) => seen'[t].at = tables[e.reading],
         SeesOneTable(t)',
         NEW left, steps' = [steps EXCEPT ![t] = left],
         \E b \in Accounts : b.reading = Nobody /\ Runs(t, left, e, b)
  PROVE  Inv'
<1> DEFINE a == A[t]
<1>1. Agrees(t, a) /\ req[t] # NotAsked /\ SameFile(a, e)
  BY DEF Acting
<1>2. Types /\ Exclusion
  BY DEF Inv
<1> HIDE DEF a
<1>3. AnswersAgree(t, e)'
  BY <1>1 DEF Agrees, AnswersAgree, Reads, SameFile
<1>4. LocksAgree(t, e)'
  BY <1>1 DEF Agrees, LocksAgree, SameFile, locked
<1>5. e.kind \notin {"drops", "executes"} => RowsAgree(t, e)'
  <2>1. RowsAgree(t, a) => RowsAgree(t, e)
    BY <1>1, FileKeeps
  <2>2. RowsAgree(t, e) => RowsAgree(t, e)'
    BY RowsSame, DropsSame
  <2> QED
    BY <1>1, <2>1, <2>2 DEF Agrees, SameFile
<1>6. Agrees(t, e)'
  BY <1>3, <1>4, <1>5 DEF Agrees
<1>7. \A u \in Threads \ {t} : Agrees(u, A[u])'
  <2> TAKE u \in Threads \ {t}
  <2>1. Agrees(u, A[u])
    BY DEF Acting
  <2>2. NobodyDrops(u)' <=> NobodyDrops(u)
    BY DropsSame
  <2>3. /\ tables' = tables /\ tx' = tx /\ req'[u] = req[u] /\ answers'[u] = answers[u]
        /\ seen'[u] = seen[u] /\ catch'[u] = catch[u]
        /\ \A db \in DBs : (writer'[db] = u <=> writer[db] = u)
                           /\ (u \in readers'[db] <=> u \in readers[db])
    OBVIOUS
  <2> QED
    BY <2>1, <2>2, <2>3, OthersKeep
<1>8. left \in Seq(Steps)
  BY RunsTypes
<1>9. Types'
  BY <1>2, <1>8 DEF Types
<1>10. Exclusion'
  BY <1>2 DEF Exclusion, locked
<1>11. e.own \in {Nobody, A[t].own}
  BY DEF SameFile
<1>12. req'[t] # NotAsked /\ \A u \in Threads \ {t} : req'[u] = req[u]
  BY <1>1
<1> QED
  BY <1>2, <1>6, <1>7, <1>9, <1>10, <1>11, <1>12, StepKeeps

\* Entering or leaving a try block keeps the invariant.
LEMMA TryKeeps ==
  ASSUME Inv, NEW t \in Threads, steps[t] # <<>>, Try(t)
  PROVE  Inv'
<1>1. PICK A, d : Acting(t, A, d)
  BY ActingExists
<1> DEFINE s == Head(steps[t])  a == A[t]
<1>2. s.op \in {"try", "end try"} /\ Moves(t, a, s, d)
  BY <1>1 DEF Try, Acting
<1>3. catch' = [catch EXCEPT ![t] = IF s.op = "try" THEN s.db ELSE Nobody]
      /\ steps' = [steps EXCEPT ![t] = Tail(steps[t])]
      /\ UNCHANGED <<connector_map, tables, tx, posting, answers, req, readers, writer, seen>>
  BY DEF Try, Advance, Goto, locks
<1>4. a \in Accounts /\ Agrees(t, a) /\ d \in Accounts
  BY <1>1 DEF Acting
<1> HIDE DEF s, a
<1>5. \/ s.op = "try" /\ s.db \in DBs /\ d = [a EXCEPT !.trying = s.db]
      \/ s.op = "end try" /\ d = [a EXCEPT !.trying = Nobody]
  BY <1>2 DEF Moves, Inserts, Appends
<1>6. Types /\ Exclusion /\ LocksAgree(t, a)
  BY <1>4 DEF Inv, Agrees
<1>7. catch' \in [Threads -> SomeDB] /\ d.trying = catch'[t]
      /\ \A u \in Threads \ {t} : catch'[u] = catch[u]
  BY <1>3, <1>4, <1>5, <1>6 DEF Types, SomeDB, Accounts
<1>8. SameFile(a, d) /\ d.writing = a.writing /\ d.reading = a.reading /\ d.own = a.own
  BY <1>4, <1>5 DEF SameFile, Accounts
<1>9. SeesOneTable(t)'
  BY <1>3, <1>6 DEF LocksAgree, SeesOneTable
<1>10. \E b \in Accounts : b.reading = Nobody /\ Runs(t, Tail(steps[t]), d, b)
  BY <1>1 DEF Acting
<1>11. /\ readers' \in [DBs -> SUBSET Threads] /\ writer' \in [DBs -> Threads \cup {Nobody}]
       /\ seen' \in [Threads -> [at : Seq(Rows), rows : Seq(Rows)]]
       /\ \A db \in DBs : writer'[db] # Nobody => readers'[db] = {} /\ locked(db)
  BY <1>3, <1>6 DEF Types, Exclusion
<1>12. /\ d.writing # Nobody => d.own = d.writing
       /\ \A db \in DBs : writer'[db] = t <=> d.writing = db
       /\ \A db \in DBs : t \in readers'[db] <=> d.reading = db /\ locked(db)
       /\ d.reading # Nobody /\ locked(d.reading) => seen'[t].at = tables[d.reading]
  BY <1>3, <1>6, <1>8 DEF LocksAgree
<1> QED
  BY <1>1, <1>3, <1>4, <1>7, <1>8, <1>9, <1>10, <1>11, <1>12, LockStep DEF a

\* Taking and releasing a lock keeps it.
LEMMA LockKeeps ==
  ASSUME Inv, NEW t \in Threads, steps[t] # <<>>, Lock(t) \/ Unlock(t)
  PROVE  Inv'
<1>1. PICK A, d : Acting(t, A, d)
  BY ActingExists
<1> DEFINE s == Head(steps[t])  a == A[t]
<1>2. s.op \in {"lock", "unlock"} /\ Moves(t, a, s, d)
  BY <1>1 DEF Lock, Unlock, Acting
<1>3. /\ writer' = [writer EXCEPT ![s.db] = IF s.op = "lock" THEN t ELSE Nobody]
      /\ s.op = "lock" => may_write(s.db)
      /\ steps' = [steps EXCEPT ![t] = Tail(steps[t])]
      /\ UNCHANGED <<connector_map, tables, tx, posting, answers, req, readers, catch, seen>>
  BY DEF Lock, Unlock, Advance, Goto, may_go
<1>4. a \in Accounts /\ Agrees(t, a) /\ d \in Accounts
  BY <1>1 DEF Acting
<1> HIDE DEF s, a
<1>5. \/ /\ s.op = "lock" /\ s.db \in DBs /\ a.own = s.db /\ a.writing = Nobody /\ a.got = {}
         /\ d = [a EXCEPT !.writing = s.db]
      \/ s.op = "unlock" /\ s.db \in DBs /\ a.writing = s.db /\ d = [a EXCEPT !.writing = Nobody]
  BY <1>2 DEF Moves, Inserts, Appends
<1>6. Types /\ Exclusion /\ LocksAgree(t, a)
  BY <1>4 DEF Inv, Agrees
<1>7. Nobody \notin Threads /\ Nobody \notin DBs
  BY DatabasesAssumption
<1>8. SameFile(a, d) /\ d.trying = a.trying /\ d.reading = a.reading /\ d.own = a.own
  BY <1>4, <1>5 DEF SameFile, Accounts
<1>9. d.writing = IF s.op = "lock" THEN s.db ELSE Nobody
  BY <1>4, <1>5 DEF Accounts
<1>10. writer' \in [DBs -> Threads \cup {Nobody}]
       /\ \A db \in DBs : writer'[db] = IF db = s.db THEN IF s.op = "lock" THEN t ELSE Nobody
                                        ELSE writer[db]
  BY <1>3, <1>6 DEF Types
<1>11. s.op = "lock" => locked(s.db) /\ readers[s.db] = {} /\ writer[s.db] = Nobody
  <2>1. s.op = "lock" => locked(s.db)
    BY <1>5, <1>6, <1>7 DEF LocksAgree, Exclusion
  <2> QED
    BY <1>3, <2>1 DEF may_write
<1>12. s.op = "unlock" => writer[s.db] = t
  BY <1>5, <1>6 DEF LocksAgree
<1>13. \A db \in DBs : writer'[db] # Nobody => readers'[db] = {} /\ locked(db)
  BY <1>3, <1>5, <1>6, <1>10, <1>11 DEF Exclusion
<1>14. \A u \in Threads \ {t} : \A db \in DBs : writer'[db] = u <=> writer[db] = u
  BY <1>5, <1>7, <1>10, <1>11, <1>12
<1>15. \A db \in DBs : writer'[db] = t <=> d.writing = db
  BY <1>5, <1>6, <1>7, <1>9, <1>10 DEF LocksAgree
<1>16. SeesOneTable(t)'
  BY <1>3, <1>6 DEF LocksAgree, SeesOneTable
<1>17. \E b \in Accounts : b.reading = Nobody /\ Runs(t, Tail(steps[t]), d, b)
  BY <1>1 DEF Acting
<1>18. /\ readers' \in [DBs -> SUBSET Threads] /\ catch' \in [Threads -> SomeDB]
       /\ seen' \in [Threads -> [at : Seq(Rows), rows : Seq(Rows)]]
  BY <1>3, <1>6 DEF Types
<1>19. /\ d.writing # Nobody => d.own = d.writing
       /\ d.trying = catch'[t]
       /\ \A db \in DBs : t \in readers'[db] <=> d.reading = db /\ locked(db)
       /\ d.reading # Nobody /\ locked(d.reading) => seen'[t].at = tables[d.reading]
  BY <1>3, <1>5, <1>6, <1>8, <1>9 DEF LocksAgree
<1>20. \A u \in Threads \ {t} :
         /\ seen'[u] = seen[u] /\ catch'[u] = catch[u]
         /\ \A db \in DBs : (writer'[db] = u <=> writer[db] = u)
                            /\ (u \in readers'[db] <=> u \in readers[db])
  BY <1>3, <1>14
<1>21. SameFile(A[t], d)
  BY <1>8 DEF a
<1> QED
  BY <1>1, <1>3, <1>4, <1>10, <1>13, <1>15, <1>16, <1>17, <1>18, <1>19, <1>20, <1>21, LockStep

\* So does closing an iterator, or reading it to the end.
LEMMA CloseKeeps ==
  ASSUME Inv, NEW t \in Threads, steps[t] # <<>>,
         NEW s, s = Head(steps[t]), s.op \in {"fetch", "close"},
         readers' = [readers EXCEPT ![s.db] = @ \ {t}], Advance(t),
         UNCHANGED <<connector_map, tables, tx, writer, posting, catch, seen, answers, req>>
  PROVE  Inv'
<1>1. PICK A, d : Acting(t, A, d)
  BY ActingExists
<1> DEFINE a == A[t]
<1>2. Moves(t, a, s, d)
  BY <1>1 DEF Acting
<1>3. steps' = [steps EXCEPT ![t] = Tail(steps[t])]
  BY DEF Advance, Goto
<1>4. a \in Accounts /\ Agrees(t, a) /\ d \in Accounts
  BY <1>1 DEF Acting
<1> HIDE DEF a
<1>5. s.db \in DBs /\ a.reading = s.db /\ d = [a EXCEPT !.reading = Nobody]
  BY <1>2 DEF Moves, Inserts, Appends
<1>6. Types /\ Exclusion /\ LocksAgree(t, a)
  BY <1>4 DEF Inv, Agrees
<1>7. SameFile(a, d) /\ d.trying = a.trying /\ d.reading = Nobody /\ d.own = a.own
      /\ d.writing = a.writing
  BY <1>4, <1>5 DEF SameFile, Accounts
<1>8. readers' \in [DBs -> SUBSET Threads]
      /\ \A db \in DBs : readers'[db] = IF db = s.db THEN readers[db] \ {t} ELSE readers[db]
  BY <1>5, <1>6 DEF Types
<1>9. Nobody \notin DBs
  BY DatabasesAssumption
<1>10. \A db \in DBs : t \notin readers'[db]
  BY <1>5, <1>6, <1>8 DEF LocksAgree
<1>11. \A db \in DBs : writer'[db] # Nobody => readers'[db] = {} /\ locked(db)
  BY <1>6, <1>8 DEF Exclusion
<1>12. SeesOneTable(t)'
  BY <1>6 DEF LocksAgree, SeesOneTable
<1>13. \E b \in Accounts : b.reading = Nobody /\ Runs(t, Tail(steps[t]), d, b)
  BY <1>1 DEF Acting
<1>14. /\ writer' \in [DBs -> Threads \cup {Nobody}] /\ catch' \in [Threads -> SomeDB]
       /\ seen' \in [Threads -> [at : Seq(Rows), rows : Seq(Rows)]]
  BY <1>6 DEF Types
<1>15. /\ d.writing # Nobody => d.own = d.writing
       /\ d.trying = catch'[t]
       /\ \A db \in DBs : writer'[db] = t <=> d.writing = db
       /\ \A db \in DBs : t \in readers'[db] <=> d.reading = db /\ locked(db)
  BY <1>6, <1>7, <1>9, <1>10 DEF LocksAgree
<1>16. \A u \in Threads \ {t} : \A db \in DBs : u \in readers'[db] <=> u \in readers[db]
  BY <1>8
<1> QED
  BY <1>1, <1>3, <1>4, <1>7, <1>8, <1>11, <1>12, <1>13, <1>14, <1>15, <1>16, LockStep DEF a

\* Another row: one of the table the iterator was made on.
LEMMA FetchKeeps ==
  ASSUME Inv, NEW t \in Threads, steps[t] # <<>>, Fetch(t)
  PROVE  Inv'
<1> DEFINE s == Head(steps[t])
           rows == IF locked(s.db) THEN tables[s.db] ELSE seen[t].at
           i == Len(seen[t].rows) + 1
<1>1. CASE i > Len(rows)
  BY <1>1, CloseKeeps DEF Fetch
<1>2. CASE ~ (i > Len(rows))
  <2>1. PICK A, d : Acting(t, A, d)
    BY ActingExists
  <2> DEFINE a == A[t]
  <2>2. s.op = "fetch" /\ Moves(t, a, s, d)
    BY <2>1 DEF Fetch, Acting
  <2>3. a \in Accounts /\ Agrees(t, a) /\ steps[t] \in Seq(Steps) /\ steps \in [Threads -> Seq(Steps)]
    BY <2>1 DEF Acting, Inv, Types
  <2>4. Types /\ Exclusion /\ LocksAgree(t, a) /\ Nobody \notin DBs
    BY <2>3, DatabasesAssumption DEF Inv, Agrees
  <2> HIDE DEF s
  <2>5. s.db \in DBs /\ a.reading = s.db /\ d = [a EXCEPT !.reading = Nobody]
    BY <2>2 DEF Moves, Inserts, Appends
  <2>6. rows = seen[t].at /\ rows \in Seq(Rows) /\ seen[t].rows \in Seq(Rows)
        /\ seen \in [Threads -> [at : Seq(Rows), rows : Seq(Rows)]]
    BY <2>4, <2>5 DEF LocksAgree, Types
  <2>7. PICK row \in get_value(s.db, rows, i) :
             seen' = [seen EXCEPT ![t].rows = Append(@, row)]
    BY <1>2 DEF Fetch, s
  <2> HIDE DEF rows
  <2>8. i \in 1 .. Len(rows)
    BY <1>2, <2>6
  <2>9. row \in {rows[i], Row(Nobody, 0)}
    BY <2>7 DEF get_value
  <2>10. row \in Rows
    <3>1. rows[i] \in Rows
      BY <2>6, <2>8
    <3> QED
      BY <2>9, <3>1 DEF Row, Rows
  <2>11. seen'[t].rows = Append(seen[t].rows, row) /\ seen'[t].at = rows
         /\ seen' \in [Threads -> [at : Seq(Rows), rows : Seq(Rows)]]
         /\ \A u \in Threads \ {t} : seen'[u] = seen[u]
    <3>1. Append(seen[t].rows, row) \in Seq(Rows)
      BY <2>6, <2>10
    <3>2. seen' = [seen EXCEPT ![t] = [seen[t] EXCEPT !.rows = Append(seen[t].rows, row)]]
      BY <2>6, <2>7
    <3>3. seen[t] \in [at : Seq(Rows), rows : Seq(Rows)]
      BY <2>6
    <3>4. [seen[t] EXCEPT !.rows = Append(seen[t].rows, row)] \in [at : Seq(Rows), rows : Seq(Rows)]
          /\ [seen[t] EXCEPT !.rows = Append(seen[t].rows, row)].rows = Append(seen[t].rows, row)
          /\ [seen[t] EXCEPT !.rows = Append(seen[t].rows, row)].at = seen[t].at
      BY <3>1, <3>3
    <3> QED
      BY <2>6, <3>2, <3>4
  <2>12. SeesOneTable(t)'
    <3>1. SeesOneTable(t)
      BY <2>4 DEF LocksAgree
    <3> SUFFICES ASSUME NEW j \in 1 .. Len(seen'[t].rows)
                 PROVE  \/ seen'[t].rows[j] = Row(Nobody, 0)
                        \/ j \in DOMAIN seen'[t].at /\ seen'[t].rows[j] = seen'[t].at[j]
      BY <2>6, <2>10, <2>11 DEF SeesOneTable
    <3>2. CASE j = i
      BY <2>6, <2>8, <2>9, <2>10, <2>11, <3>2
    <3>3. CASE j # i
      <4>1. j \in 1 .. Len(seen[t].rows) /\ seen'[t].rows[j] = seen[t].rows[j]
        BY <2>6, <2>10, <2>11, <3>3
      <4> QED
        BY <2>6, <2>11, <3>1, <4>1 DEF SeesOneTable
    <3> QED
      BY <3>2, <3>3
  <2>13. UNCHANGED <<readers, steps, connector_map, tables, tx, writer, posting, catch, answers, req>>
    BY <1>2 DEF Fetch, s, rows
  <2>14. steps' = [steps EXCEPT ![t] = steps[t]]
    BY <2>3, <2>13
  <2>15. \E b \in Accounts : b.reading = Nobody /\ Runs(t, steps[t], a, b)
    <3>1. PICK b \in Accounts : b.reading = Nobody /\ Runs(t, Tail(steps[t]), d, b)
      BY <2>1 DEF Acting
    <3>2. d \in Accounts /\ s \in Steps
      BY <2>1 DEF Acting, s
    <3>3. Runs(t, <<s>>, a, d)
      BY <2>2, <2>3, <3>2, RunsOne
    <3>4. Runs(t, <<s>> \o Tail(steps[t]), a, b)
      BY <3>1, <3>3, RunsJoin
    <3>5. <<s>> \o Tail(steps[t]) = steps[t]
      BY <2>3, HeadTailProperties, <3>2 DEF s
    <3> QED
      BY <3>1, <3>4, <3>5
  <2>16. SameFile(a, a)
    BY DEF SameFile
  <2>17. /\ readers' \in [DBs -> SUBSET Threads] /\ writer' \in [DBs -> Threads \cup {Nobody}]
         /\ catch' \in [Threads -> SomeDB]
         /\ \A db \in DBs : writer'[db] # Nobody => readers'[db] = {} /\ locked(db)
    BY <2>4, <2>13 DEF Types, Exclusion
  <2>18. /\ a.writing # Nobody => a.own = a.writing
         /\ a.trying = catch'[t]
         /\ \A db \in DBs : writer'[db] = t <=> a.writing = db
         /\ \A db \in DBs : t \in readers'[db] <=> a.reading = db /\ locked(db)
         /\ a.reading # Nobody /\ locked(a.reading) => seen'[t].at = tables[a.reading]
    BY <2>4, <2>6, <2>11, <2>13 DEF LocksAgree
  <2>19. \A u \in Threads \ {t} :
           /\ seen'[u] = seen[u] /\ catch'[u] = catch[u]
           /\ \A db \in DBs : (writer'[db] = u <=> writer[db] = u)
                              /\ (u \in readers'[db] <=> u \in readers[db])
    BY <2>11, <2>13
  <2>20. seen' \in [Threads -> [at : Seq(Rows), rows : Seq(Rows)]]
    BY <2>11
  <2>21. UNCHANGED <<connector_map, tables, tx, posting, answers, req>>
    BY <2>13
  <2> HIDE DEF i
  <2> QED
    BY <2>1, <2>3, <2>12, <2>14, <2>15, <2>16, <2>17, <2>18, <2>19, <2>20, <2>21, LockStep
<1> QED
  BY <1>1, <1>2

\* So does opening an iterator, under the read lock.
LEMMA SelectKeeps ==
  ASSUME Inv, NEW t \in Threads, steps[t] # <<>>, Select(t)
  PROVE  Inv'
<1>1. PICK A, d : Acting(t, A, d)
  BY ActingExists
<1> DEFINE s == Head(steps[t])  a == A[t]
<1>2. s.op = "select" /\ s \in Steps /\ Moves(t, a, s, d) /\ may_read(s.db)
  BY <1>1 DEF Select, Acting, may_go
<1>3. a \in Accounts /\ Agrees(t, a) /\ d \in Accounts
  BY <1>1 DEF Acting
<1>4. Types /\ Exclusion /\ LocksAgree(t, a)
  BY <1>3 DEF Inv, Agrees
<1>5. UNCHANGED <<connector_map, tables, tx, writer, posting, catch, posted, answers, req>>
  BY DEF Select
<1>6. CASE ~ exists(s.db)
  <2>1. steps' = [steps EXCEPT ![t] = <<Step("throw", s.db, "select")>>]
        /\ UNCHANGED <<readers, seen>>
    BY <1>6 DEF Select, Goto, s
  <2> HIDE DEF s
  <2>2. s.db \in DBs /\ CanFail(a)
    BY <1>2 DEF Moves, Inserts, Appends
  <2>3. "select" \in Whats
    BY DEF Whats, Notes
  <2>4. connector_map' \in [Connections -> DBs] /\ posting' \subseteq Threads
        /\ \A conn \in Connections : LeadsTo(conn, connector_map'[conn])
    BY <1>4, <1>5 DEF Types
  <2> QED
    BY <1>1, <1>3, <1>5, <2>1, <2>2, <2>3, <2>4, QuietStep, ThrowsRun
<1>7. CASE exists(s.db)
  <2>1. /\ readers' = [readers EXCEPT ![s.db] = IF locked(s.db) THEN @ \cup {t} ELSE @]
        /\ seen' = [seen EXCEPT ![t] = [at |-> tables[s.db], rows |-> <<>>]]
        /\ steps' = [steps EXCEPT ![t] = Tail(steps[t])]
    BY <1>7 DEF Select, Advance, Goto, s
  <2> HIDE DEF s, a
  <2>2. s.db \in DBs /\ a.reading = Nobody /\ d = [a EXCEPT !.reading = s.db]
    BY <1>2 DEF Moves, Inserts, Appends
  <2>3. SameFile(a, d) /\ d.trying = a.trying /\ d.reading = s.db /\ d.own = a.own
        /\ d.writing = a.writing
    BY <1>3, <2>2 DEF SameFile, Accounts
  <2>4. Nobody \notin DBs
    BY DatabasesAssumption
  <2>5. readers' \in [DBs -> SUBSET Threads]
        /\ \A db \in DBs : readers'[db] = IF db = s.db /\ locked(db) THEN readers[db] \cup {t}
                                          ELSE readers[db]
    BY <1>4, <2>1, <2>2 DEF Types
  <2>6. \A db \in DBs : writer'[db] # Nobody => readers'[db] = {} /\ locked(db)
    BY <1>2, <1>4, <1>5, <2>5 DEF Exclusion, may_read
  <2>7. /\ seen' \in [Threads -> [at : Seq(Rows), rows : Seq(Rows)]]
        /\ seen'[t] = [at |-> tables[s.db], rows |-> <<>>]
        /\ \A u \in Threads \ {t} : seen'[u] = seen[u]
    <3>1. tables[s.db] \in Seq(Rows)
      BY <1>4, <2>2 DEF Types
    <3>2. <<>> \in Seq(Rows)
      OBVIOUS
    <3>3. [at |-> tables[s.db], rows |-> <<>>] \in [at : Seq(Rows), rows : Seq(Rows)]
      BY <3>1, <3>2
    <3> QED
      BY <1>4, <2>1, <3>3 DEF Types
  <2>8. \A db \in DBs : t \in readers'[db] <=> d.reading = db /\ locked(db)
    BY <1>4, <2>2, <2>3, <2>4, <2>5 DEF LocksAgree
  <2>9. SeesOneTable(t)'
    BY <2>7 DEF SeesOneTable
  <2>10. \E b \in Accounts : b.reading = Nobody /\ Runs(t, Tail(steps[t]), d, b)
    BY <1>1 DEF Acting
  <2>11. /\ writer' \in [DBs -> Threads \cup {Nobody}] /\ catch' \in [Threads -> SomeDB]
         /\ d.writing # Nobody => d.own = d.writing
         /\ d.trying = catch'[t]
         /\ \A db \in DBs : writer'[db] = t <=> d.writing = db
         /\ d.reading # Nobody /\ locked(d.reading) => seen'[t].at = tables[d.reading]
    BY <1>4, <1>5, <2>3, <2>7 DEF Types, LocksAgree
  <2>12. \A u \in Threads \ {t} :
           /\ seen'[u] = seen[u] /\ catch'[u] = catch[u]
           /\ \A db \in DBs : (writer'[db] = u <=> writer[db] = u)
                              /\ (u \in readers'[db] <=> u \in readers[db])
    BY <1>5, <2>5, <2>7
  <2>13. SameFile(A[t], d)
    BY <2>3 DEF a
  <2> QED
    BY <1>1, <1>3, <1>5, <2>1, <2>5, <2>6, <2>7, <2>8, <2>9, <2>10, <2>11, <2>12, <2>13, LockStep
<1> QED
  BY <1>6, <1>7

\* So does an answer.
LEMMA SendKeeps ==
  ASSUME Inv, NEW t \in Threads, steps[t] # <<>>, Send(t)
  PROVE  Inv'
<1>1. PICK A, d : Acting(t, A, d)
  BY ActingExists
<1> DEFINE s == Head(steps[t])  a == A[t]
<1>2. s.op = "send" /\ s \in Steps /\ Moves(t, a, s, d)
  BY <1>1 DEF Send, Acting
<1>3. a \in Accounts /\ Agrees(t, a) /\ d \in Accounts /\ req[t] # NotAsked
  BY <1>1 DEF Acting
<1>4. /\ answers' = [answers EXCEPT ![t] = Append(@, s.what)]
      /\ steps' = [steps EXCEPT ![t] = Tail(steps[t])]
      /\ UNCHANGED <<connector_map, tables, tx, readers, writer, posting, catch, seen, req>>
  BY DEF Send, Advance, Goto, locks
<1>5. Types /\ Exclusion /\ LocksAgree(t, a) /\ AnswersAgree(t, a)
  BY <1>3 DEF Inv, Agrees
<1> HIDE DEF s, a
<1>6. Sends(a, s, d)
  BY <1>2 DEF Moves, Inserts, Appends
<1>7. /\ d.kind = a.kind /\ d.lax = a.lax /\ d.stage = a.stage /\ d.own = a.own /\ d.at = a.at
      /\ d.got = a.got /\ d.wanted = a.wanted /\ d.reading = a.reading /\ d.writing = a.writing
      /\ d.trying = a.trying /\ d.answered = TRUE
  BY <1>3, <1>6 DEF Sends, Accounts
<1>8. s.what \in {"Success!", "error"}
  BY <1>6 DEF Sends
<1>9. answers \in [Threads -> Seq({"Success!", "error"})]
  BY <1>5 DEF Types
<1>10. answers'[t] = Append(answers[t], s.what) /\ answers[t] \in Seq({"Success!", "error"})
       /\ \A u \in Threads \ {t} : answers'[u] = answers[u]
  BY <1>4, <1>9
<1>11. answers' \in [Threads -> Seq({"Success!", "error"})]
  BY <1>4, <1>8, <1>9, <1>10
<1>12. /\ answers'[t] # <<>>
       /\ answers[t] = <<>> => answers'[t][1] = s.what
       /\ answers[t] # <<>> => answers'[t][1] = answers[t][1]
       /\ answers'[t] = <<"error">> => s.what = "error"
  <2> DEFINE x == answers[t]  y == answers'[t]
  <2>1. x \in Seq({"Success!", "error"}) /\ y = Append(x, s.what)
    BY <1>10
  <2> HIDE DEF x, y
  <2>2. /\ Len(y) = Len(x) + 1 /\ Len(x) \in Nat /\ y[Len(x) + 1] = s.what
        /\ Len(x) > 0 => y[1] = x[1]
        /\ x = <<>> <=> Len(x) = 0
    BY <1>8, <2>1, AppendProperties
  <2>3. y = <<"error">> => Len(x) = 0 /\ y[1] = "error"
    BY <2>2
  <2>4. y # <<>>
    BY <2>2
  <2> QED
    BY <2>2, <2>3, <2>4 DEF x, y
<1>13. AnswersAgree(t, d)'
  <2>1. Kind(req[t]) \in {"reads", "copies"} \/ ~ Reads(t)
    BY DEF Kind, Reads
  <2>2. Reads(t)' <=> Reads(t)
    BY <1>4 DEF Reads
  <2>3. Reads(t)' /\ answers'[t][1] = "Success!" => d.stage = "stored" \/ d.lax
    BY <1>5, <1>6, <1>7, <1>12, <2>1, <2>2 DEF AnswersAgree, Sends
  <2> QED
    BY <1>4, <1>5, <1>7, <1>12, <2>2, <2>3 DEF AnswersAgree
<1>14. LocksAgree(t, d)'
  BY <1>4, <1>5, <1>7 DEF LocksAgree, SeesOneTable
<1>15. d.kind \notin {"drops", "executes"} => RowsAgree(t, d)'
  <2> SUFFICES ASSUME d.kind \notin {"drops", "executes"} PROVE RowsAgree(t, d)'
    OBVIOUS
  <2>1. RowsAgree(t, a)
    BY <1>3, <1>7 DEF Agrees
  <2>2. /\ Reads(t)' <=> Reads(t)
        /\ RowsWanted(t)' = RowsWanted(t)
        /\ NobodyDrops(t)' <=> NobodyDrops(t)
        /\ \A db : NoneThere(t, db)' <=> NoneThere(t, db)
    BY <1>4 DEF Reads, RowsWanted, NobodyDrops, Drops, NoneThere, Mine
  <2>3. d.stage = "before" => RowsBefore(t, d)'
    BY <1>7, <2>1, <2>2 DEF RowsAgree, RowsBefore
  <2>4. d.stage = "bulks" => RowsInBulks(t, d)'
    BY <1>4, <1>7, <2>1, <2>2 DEF RowsAgree, RowsInBulks, Mine
  <2>5. d.stage = "inside" => RowsInside(t, d)'
    BY <1>4, <1>7, <2>1, <2>2 DEF RowsAgree, RowsInside, Mine
  <2>6. d.stage = "stored" /\ Reads(t)' => RowsStored(t, d)'
    BY <1>4, <1>6, <1>7, <1>12, <2>1, <2>2 DEF RowsAgree, RowsStored, Mine, Sends
  <2> QED
    BY <1>7, <2>1, <2>2, <2>3, <2>4, <2>5, <2>6 DEF RowsAgree
<1>16. Agrees(t, d)'
  BY <1>13, <1>14, <1>15 DEF Agrees
<1>17. \A u \in Threads \ {t} : Agrees(u, A[u])'
  <2> TAKE u \in Threads \ {t}
  <2>1. Agrees(u, A[u])
    BY <1>1 DEF Acting
  <2> QED
    BY <1>4, <1>10, <2>1, OthersKeep, DropsSame
<1>18. Tail(steps[t]) \in Seq(Steps) /\ \E b \in Accounts : b.reading = Nobody /\ Runs(t, Tail(steps[t]), d, b)
  BY <1>1 DEF Acting
<1>19. Types'
  BY <1>4, <1>5, <1>11, <1>18 DEF Types
<1>20. Exclusion'
  BY <1>4, <1>5 DEF Exclusion, locked
<1>21. req'[t] # NotAsked /\ \A u \in Threads \ {t} : req'[u] = req[u]
  BY <1>3, <1>4
<1>22. d.own \in {Nobody, A[t].own}
  BY <1>7 DEF a
<1> QED
  BY <1>1, <1>3, <1>4, <1>5, <1>16, <1>17, <1>18, <1>19, <1>20, <1>21, <1>22, StepKeeps

-----------------------------------------------------------------------------
(* Steps that change a table *)

\* How a step of another thread may change the rows of thread u in database db: it
\* may drop them, roll them back or start a transaction from them.
Touches(u, a, db) ==
  /\ Mine(u, tables'[db]) \in {Mine(u, tables[db]), Mine(u, tx[db].saved), {}}
  /\ Mine(u, tx'[db].saved) \in {Mine(u, tx[db].saved), Mine(u, tables[db]), {}}
  /\ a.own = db => /\ tx'[db].open
                   /\ Mine(u, tables'[db]) \in {Mine(u, tables[db]), {}}
                   /\ Mine(u, tx'[db].saved) = Mine(u, tx[db].saved)
  /\ a.writing = db => Mine(u, tables'[db]) = Mine(u, tables[db])
  /\ NobodyDrops(u) =>
       /\ a.own = db \/ ~ tx[db].open => Mine(u, tables'[db]) = Mine(u, tables[db])
       /\ \/ Mine(u, tables'[db]) = Mine(u, tables[db])
          \/ tx[db].open /\ Mine(u, tables'[db]) = Mine(u, tx[db].saved)
       /\ tx'[db].open => \/ tx[db].open /\ Mine(u, tx'[db].saved) = Mine(u, tx[db].saved)
                          \/ Mine(u, tx'[db].saved) = Mine(u, tables[db])

\* What is known of a thread stays true when others touch only what they may.
LEMMA TouchedKeeps ==
  ASSUME Types, Exclusion, NEW u \in Threads, NEW a \in Accounts, Agrees(u, a),
         UNCHANGED <<req, answers, seen, catch, readers, writer>>,
         \A db \in DBs : Touches(u, a, db) /\ (u \in readers[db] => tables'[db] = tables[db])
  PROVE  Agrees(u, a)'
<1>1. /\ Reads(u)' <=> Reads(u)
      /\ RowsWanted(u)' = RowsWanted(u)
      /\ NobodyDrops(u)' <=> NobodyDrops(u)
  BY DEF Reads, RowsWanted, NobodyDrops, Drops
<1>2. AnswersAgree(u, a)'
  BY <1>1 DEF Agrees, AnswersAgree
<1>3. LocksAgree(u, a) /\ Nobody \notin DBs
  BY DatabasesAssumption DEF Agrees
<1>4. a.own \in DBs \cup {Nobody} /\ a.writing \in DBs \cup {Nobody} /\ a.reading \in DBs \cup {Nobody}
  BY DEF Accounts, SomeDB
<1>5. LocksAgree(u, a)'
  <2>1. a.own # Nobody => tx'[a.own].open
    BY <1>4 DEF Touches
  <2>2. a.reading # Nobody /\ locked(a.reading) => tables'[a.reading] = tables[a.reading]
    BY <1>3, <1>4 DEF LocksAgree
  <2> QED
    BY <1>3, <2>1, <2>2 DEF LocksAgree, SeesOneTable, locked
<1>6. ASSUME a.kind \notin {"drops", "executes"} PROVE RowsAgree(u, a)'
  <2>1. RowsAgree(u, a)
    BY <1>6 DEF Agrees
  <2>2. ASSUME NEW db \in DBs, NoneThere(u, db) PROVE NoneThere(u, db)'
    <3>1. Touches(u, a, db)
      OBVIOUS
    <3>2. Mine(u, tables'[db]) = {} /\ Mine(u, tx'[db].saved) = {}
      BY <2>2, <3>1 DEF Touches, NoneThere
    <3> QED
      BY <3>2 DEF NoneThere, Mine
  <2>3. a.stage = "before" => RowsBefore(u, a)'
    BY <2>1, <2>2 DEF RowsAgree, RowsBefore
  <2>4. ASSUME a.stage = "bulks" PROVE RowsInBulks(u, a)'
    <3>1. RowsInBulks(u, a)
      BY <2>1, <2>4 DEF RowsAgree
    <3>2. a.at \in DBs /\ ~ tx[a.at].open
      BY <3>1 DEF RowsInBulks, Exclusion, locked
    <3>3. Touches(u, a, a.at)
      BY <3>2
    <3>4. NobodyDrops(u) => a.got \subseteq Mine(u, tables'[a.at])
      BY <3>1, <3>2, <3>3 DEF Touches, RowsInBulks
    <3> QED
      BY <1>1, <2>2, <3>1, <3>4 DEF RowsInBulks, Mine
  <2>5. ASSUME a.stage = "inside" PROVE RowsInside(u, a)'
    <3>1. RowsInside(u, a) /\ a.own \in DBs
      BY <1>3, <1>4, <2>1, <2>5 DEF RowsAgree, LocksAgree
    <3>2. Touches(u, a, a.own) /\ (a.writing # Nobody => a.own = a.writing)
      BY <1>3, <3>1 DEF LocksAgree
    <3> DEFINE M == Mine(u, tables[a.own])   N == Mine(u, tables'[a.own])
               S == Mine(u, tx[a.own].saved) R == Mine(u, tx'[a.own].saved)
    <3>3. /\ N \in {M, {}} /\ R = S
          /\ a.writing # Nobody => N = M
          /\ NobodyDrops(u) => N = M
      BY <3>1, <3>2 DEF Touches
    <3>4. /\ S = {} /\ M \in {{}, a.got}
          /\ a.writing # Nobody \/ NobodyDrops(u) => M = a.got
      BY <3>1 DEF RowsInside
    <3> HIDE DEF M, N, R, S
    <3>5. /\ R = {} /\ N \in {{}, a.got}
          /\ a.writing # Nobody \/ NobodyDrops(u) => N = a.got
      BY <3>3, <3>4
    <3>6. \A db \in DBs \ {a.own} : NoneThere(u, db)'
      BY <2>2, <3>1 DEF RowsInside
    <3> QED
      BY <1>1, <3>5, <3>6 DEF RowsInside, Mine, R, N
  <2>6. ASSUME a.stage = "stored", Reads(u)' PROVE RowsStored(u, a)'
    <3>1. RowsStored(u, a)
      BY <1>1, <2>1, <2>6 DEF RowsAgree
    <3> DEFINE W == RowsWanted(u)
               M(db) == Mine(u, tables[db])   N(db) == Mine(u, tables'[db])
               S(db) == Mine(u, tx[db].saved) R(db) == Mine(u, tx'[db].saved)
    <3>2. ASSUME NEW db \in DBs, Dialect[db] # "mysql"
          PROVE  /\ N(db) \in {{}, W} /\ R(db) \in {{}, W}
                 /\ answers[u] = <<"error">> /\ a.kind = "reads" => NoneThere(u, db)'
      <4>1. M(db) \in {{}, W} /\ S(db) \in {{}, W}
        BY <3>1, <3>2 DEF RowsStored
      <4>2. N(db) \in {M(db), S(db), {}} /\ R(db) \in {S(db), M(db), {}}
        BY DEF Touches
      <4>3. answers[u] = <<"error">> /\ a.kind = "reads" => NoneThere(u, db)
        BY <3>1, <3>2 DEF RowsStored
      <4> HIDE DEF M, N, R, S, W
      <4> QED
        BY <2>2, <4>1, <4>2, <4>3
    <3>3. ASSUME NobodyDrops(u)
          PROVE  \E db \in DBs : W \subseteq N(db) /\ (tx'[db].open => W \subseteq R(db))
      <4>1. PICK db \in DBs : W \subseteq M(db) /\ (tx[db].open => W \subseteq S(db))
        BY <3>1, <3>3 DEF RowsStored
      <4>2. /\ N(db) = M(db) \/ (tx[db].open /\ N(db) = S(db))
            /\ tx'[db].open => (tx[db].open /\ R(db) = S(db)) \/ R(db) = M(db)
        BY <3>3 DEF Touches
      <4> HIDE DEF M, N, R, S, W
      <4> QED
        BY <4>1, <4>2
    <3>4. \A db : Mine(u, tables[db])' = N(db) /\ Mine(u, tx[db].saved)' = R(db)
      BY DEF Mine
    <3>5. W' = W
      BY <1>1
    <3> HIDE DEF M, N, R, S
    <3> QED
      BY <1>1, <3>2, <3>3, <3>4, <3>5 DEF RowsStored
  <2> QED
    BY <1>1, <2>1, <2>3, <2>4, <2>5, <2>6 DEF RowsAgree
<1> QED
  BY <1>2, <1>5, <1>6 DEF Agrees

\* What a step that changes a table has to keep.
LEMMA TableStep ==
  ASSUME Inv, NEW t \in Threads, NEW A, NEW d, Acting(t, A, d),
         UNCHANGED <<connector_map, readers, writer, posting, catch, seen, answers, req>>,
         tables' \in [DBs -> Seq(Rows)], tx' \in [DBs -> [open : BOOLEAN, saved : Seq(Rows)]],
         \A db \in DBs : tx'[db].open => locked(db),
         \A u \in Threads \ {t} : \A db \in DBs :
           Touches(u, A[u], db) /\ (u \in readers[db] => tables'[db] = tables[db]),
         NEW e \in Accounts, Agrees(t, e)',
         \/ e.own \in {Nobody, A[t].own}
         \/ \A u \in Threads \ {t} : A[u].own # e.own,
         NEW left, steps' = [steps EXCEPT ![t] = left],
         \E b \in Accounts : b.reading = Nobody /\ Runs(t, left, e, b)
  PROVE  Inv'
<1>1. Types /\ Exclusion
  BY DEF Inv
<1>2. left \in Seq(Steps)
  BY RunsTypes
<1>3. Types' /\ Exclusion'
  BY <1>1, <1>2 DEF Types, Exclusion, locked
<1>4. \A u \in Threads \ {t} : Agrees(u, A[u])'
  <2> TAKE u \in Threads \ {t}
  <2>1. Agrees(u, A[u]) /\ A[u] \in Accounts
    BY DEF Acting
  <2> QED
    BY <1>1, <2>1, TouchedKeeps
<1>5. req'[t] # NotAsked /\ \A u \in Threads \ {t} : req'[u] = req[u]
  BY DEF Acting
<1> QED
  BY <1>1, <1>3, <1>4, <1>5, StepKeeps

\* Inserted rows are added to those of their thread and to no others.
LEMMA MineAdded ==
  ASSUME NEW t \in Threads, NEW u, NEW x \in Seq(Rows), NEW y \in Seq({t} \X Int)
  PROVE  /\ x \o y \in Seq(Rows)
         /\ Mine(u, x \o y) = IF u = t THEN Mine(t, x) \cup Range(y) ELSE Mine(u, x)
<1>1. y \in Seq(Rows)
  BY DEF Rows
<1>2. Range(x \o y) = Range(x) \cup Range(y)
  BY <1>1, RangeJoin
<1>3. \A row \in Range(y) : row[1] = t
  BY DEF Range
<1> QED
  BY <1>1, <1>2, <1>3 DEF Mine

\* Inserting rows keeps the invariant.
LEMMA InsertKeeps ==
  ASSUME Inv, NEW t \in Threads, steps[t] # <<>>, Insert(t)
  PROVE  Inv'
<1>1. PICK A, d : Acting(t, A, d)
  BY ActingExists
<1> DEFINE s == Head(steps[t])  a == A[t]
<1>2. s.op \in {"insert", "append"} /\ Moves(t, a, s, d)
  BY <1>1 DEF Insert, Acting
<1>3. a \in Accounts /\ Agrees(t, a) /\ d \in Accounts
  BY <1>1 DEF Acting
<1>4. Types /\ Exclusion /\ LocksAgree(t, a) /\ AnswersAgree(t, a)
  BY <1>3 DEF Inv, Agrees
<1>5. UNCHANGED <<connector_map, tx, readers, writer, posting, catch, seen, answers, req>>
  BY DEF Insert, locks
<1>6. s.db \in DBs /\ CanFail(a) /\ (Inserts(t, a, s, d) \/ Appends(t, a, s, d))
  BY <1>2 DEF Moves
<1>7. CASE ~ exists(s.db)
  <2>1. steps' = [steps EXCEPT ![t] = <<Step("throw", s.db, "insert")>>] /\ tables' = tables
    BY <1>7 DEF Insert, Goto, s
  <2> HIDE DEF s
  <2>2. "insert" \in Whats
    BY DEF Whats, Notes
  <2>3. connector_map' \in [Connections -> DBs] /\ posting' \subseteq Threads
        /\ \A conn \in Connections : LeadsTo(conn, connector_map'[conn])
    BY <1>4, <1>5 DEF Types
  <2> QED
    BY <1>1, <1>3, <1>5, <1>6, <2>1, <2>2, <2>3, QuietStep, ThrowsRun
<1>8. CASE exists(s.db)
  <2>1. /\ tables' = [tables EXCEPT ![s.db] = @ \o s.what]
        /\ steps' = [steps EXCEPT ![t] = Tail(steps[t])]
    BY <1>8 DEF Insert, Advance, Goto, s
  <2>2. s.what \in Seq({t} \X Int) /\ tables \in [DBs -> Seq(Rows)] /\ Nobody \notin DBs
    BY <1>4, <1>6, DatabasesAssumption DEF Inserts, Appends, Types
  <2> HIDE DEF s, a
  <2>3. tables' = [tables EXCEPT ![s.db] = tables[s.db] \o s.what]
        /\ \A db \in DBs : tables[db] \in Seq(Rows)
    BY <2>1, <2>2
  <2>4. tables' \in [DBs -> Seq(Rows)]
        /\ \A db \in DBs : tables'[db] = IF db = s.db THEN tables[db] \o s.what ELSE tables[db]
    BY <1>6, <2>2, <2>3, MineAdded
  <2>5. \A db \in DBs : Mine(t, tables'[db]) = IF db = s.db THEN Mine(t, tables[db]) \cup Range(s.what)
                                               ELSE Mine(t, tables[db])
    <3> TAKE db \in DBs
    <3>1. Mine(t, tables[db] \o s.what) = Mine(t, tables[db]) \cup Range(s.what)
      BY <2>2, <2>3, MineAdded
    <3> QED
      BY <2>4, <3>1
  <2>6. \A u \in Threads \ {t} : \A db \in DBs : Mine(u, tables'[db]) = Mine(u, tables[db])
    <3> TAKE u \in Threads \ {t}
    <3> TAKE db \in DBs
    <3>1. Mine(u, tables[db] \o s.what) = Mine(u, tables[db])
      BY <2>2, <2>3, MineAdded
    <3> QED
      BY <2>4, <3>1
  <2>7. readers[s.db] = {}
    <3>1. CASE Inserts(t, a, s, d)
      <4>1. writer[s.db] = t
        BY <1>4, <1>6, <3>1 DEF Inserts, LocksAgree
      <4>2. t # Nobody
        BY DatabasesAssumption
      <4> QED
        BY <1>4, <1>6, <4>1, <4>2 DEF Exclusion
    <3>2. CASE Appends(t, a, s, d)
      <4>1. ~ locked(s.db)
        BY <3>2 DEF Appends, locked
      <4>2. \A u \in Threads : u \notin readers[s.db]
        <5> TAKE u \in Threads
        <5>1. LocksAgree(u, A[u])
          BY <1>1 DEF Acting, Agrees
        <5> QED
          BY <1>6, <4>1, <5>1 DEF LocksAgree
      <4> QED
        BY <1>4, <1>6, <4>2 DEF Types
    <3> QED
      BY <1>6, <3>1, <3>2
  <2>8. ASSUME NEW u \in Threads \ {t}, NEW db \in DBs
        PROVE  Touches(u, A[u], db) /\ (u \in readers[db] => tables'[db] = tables[db])
    <3>1. LocksAgree(u, A[u])
      BY <1>1 DEF Acting, Agrees
    <3>2. Mine(u, tables'[db]) = Mine(u, tables[db]) /\ tx'[db] = tx[db]
      BY <1>5, <2>6
    <3>3. A[u].own = db => tx[db].open
      BY <2>2, <3>1 DEF LocksAgree
    <3> QED
      BY <2>4, <2>7, <3>2, <3>3 DEF Touches
  <2>9. /\ d.kind = a.kind /\ d.lax = a.lax /\ d.answered = a.answered /\ d.own = a.own
        /\ d.reading = a.reading /\ d.writing = a.writing /\ d.trying = a.trying
        /\ a.kind \in {"reads", "copies"}
        /\ d.stage = "inside" <=> a.stage = "inside"
        /\ a.stage # "stored"
    <3>1. CASE Inserts(t, a, s, d)
      <4>1. d.stage = a.stage
        BY <1>3, <3>1 DEF Inserts, Accounts
      <4> QED
        BY <1>3, <1>4, <1>6, <2>2, <3>1, <4>1 DEF Inserts, Accounts, LocksAgree
    <3>2. CASE Appends(t, a, s, d)
      BY <1>3, <1>4, <3>2 DEF Appends, InFile, Accounts, LocksAgree
    <3> QED
      BY <1>6, <3>1, <3>2
  <2>10. AnswersAgree(t, d)'
    BY <1>4, <1>5, <2>9 DEF AnswersAgree, Reads
  <2>11. LocksAgree(t, d)'
    <3>1. a.reading # Nobody /\ locked(a.reading) => a.reading # s.db /\ a.reading \in DBs
      BY <1>3, <1>4, <1>6, <2>7 DEF LocksAgree, Accounts, SomeDB
    <3>2. a.reading # Nobody /\ locked(a.reading) => seen'[t].at = tables'[a.reading]
      BY <1>4, <1>5, <2>4, <3>1 DEF LocksAgree
    <3> QED
      BY <1>4, <1>5, <2>9, <3>2 DEF LocksAgree, SeesOneTable, locked
  <2>12. RowsAgree(t, d)'
    <3>1. RowsAgree(t, a)
      BY <1>3, <2>9 DEF Agrees
    <3>2. /\ Reads(t)' <=> Reads(t)
          /\ RowsWanted(t)' = RowsWanted(t)
          /\ NobodyDrops(t)' <=> NobodyDrops(t)
          /\ \A db \in DBs : Mine(t, tables[db])' = Mine(t, tables'[db])
                             /\ Mine(t, tx[db].saved)' = Mine(t, tx[db].saved)
      BY <1>5 DEF Reads, RowsWanted, NobodyDrops, Drops, Mine
    <3>3. \A db \in DBs \ {s.db} : NoneThere(t, db)' <=> NoneThere(t, db)
      BY <2>5, <3>2 DEF NoneThere
    <3>4. Reads(t) => a.wanted = RowsWanted(t)
      BY <2>9, <3>1 DEF RowsAgree
    <3>5. CASE Inserts(t, a, s, d)
      <4>1. a.own = s.db /\ a.writing = s.db /\ a.stage = "inside" /\ a.writing # Nobody
        BY <1>4, <1>6, <2>2, <3>5 DEF Inserts, LocksAgree
      <4>2. d.got = a.got \cup Range(s.what) /\ d.wanted = a.wanted /\ d.stage = "inside"
        BY <1>3, <3>5, <4>1 DEF Inserts, Accounts
      <4>3. RowsInside(t, a)
        BY <3>1, <4>1 DEF RowsAgree
      <4>4. Mine(t, tables'[s.db]) = d.got /\ Mine(t, tx[s.db].saved) = {}
        BY <1>6, <2>5, <4>1, <4>2, <4>3 DEF RowsInside
      <4>5. RowsInside(t, d)'
        BY <1>6, <2>9, <3>2, <3>3, <4>1, <4>3, <4>4 DEF RowsInside
      <4> QED
        BY <3>2, <3>4, <4>2, <4>5 DEF RowsAgree
    <3>6. CASE Appends(t, a, s, d) /\ Dialect[s.db] = "postgres"
      <4>1. a.stage = "before" /\ Range(s.what) = a.wanted /\ d = InFile(a) /\ ~ a.answered
        BY <3>6 DEF Appends
      <4>2. d.stage = "stored" /\ answers[t] = <<>> /\ RowsBefore(t, a)
        BY <1>3, <1>4, <3>1, <4>1 DEF InFile, Accounts, AnswersAgree, RowsAgree
      <4>3. ASSUME Reads(t) PROVE RowsStored(t, d)'
        <5>1. Mine(t, tables'[s.db]) = RowsWanted(t) /\ Mine(t, tx[s.db].saved) = {}
          <6>1. Mine(t, tables[s.db]) = {} /\ Mine(t, tx[s.db].saved) = {}
            BY <1>6, <4>2 DEF RowsBefore, NoneThere
          <6>2. Range(s.what) = RowsWanted(t)
            BY <3>4, <4>1, <4>3
          <6> QED
            BY <1>6, <2>5, <6>1, <6>2
        <5>2. ~ tx[s.db].open
          BY <1>4, <1>6, <3>6 DEF Exclusion, locked
        <5>3. \A db \in DBs \ {s.db} : NoneThere(t, db)'
          BY <3>3, <4>2 DEF RowsBefore
        <5>4. \A db \in DBs : /\ Mine(t, tables[db])' \in {{}, RowsWanted(t)}
                              /\ Mine(t, tx[db].saved)' \in {{}, RowsWanted(t)}
          BY <3>2, <5>1, <5>3 DEF NoneThere
        <5>5. answers'[t] # <<"error">>
          BY <1>5, <4>2
        <5>6. RowsWanted(t) \subseteq Mine(t, tables'[s.db]) /\ ~ tx'[s.db].open
          BY <1>5, <5>1, <5>2
        <5>7. \E db \in DBs : RowsWanted(t) \subseteq Mine(t, tables[db])' /\ ~ tx'[db].open
          BY <1>6, <3>2, <5>6
        <5> QED
          BY <3>2, <5>4, <5>5, <5>7 DEF RowsStored
      <4> QED
        BY <3>2, <4>2, <4>3 DEF RowsAgree
    <3>7. CASE Appends(t, a, s, d) /\ Dialect[s.db] # "postgres"
      <4>1. /\ Dialect[s.db] = "mysql"
            /\ a.stage = "before" \/ (a.stage = "bulks" /\ a.at = s.db)
            /\ d.stage = "bulks" /\ d.at = s.db /\ d.got = a.got \cup Range(s.what)
            /\ d.wanted = a.wanted
        BY <1>3, <1>6, <3>7 DEF Appends, Accounts, SomeDB
      <4>2. a.stage = "before" => RowsBefore(t, a)
        BY <3>1 DEF RowsAgree
      <4>3. a.stage = "bulks" => RowsInBulks(t, a)
        BY <3>1 DEF RowsAgree
      <4>4. NobodyDrops(t) => d.got \subseteq Mine(t, tables'[s.db])
        BY <1>6, <2>5, <4>1, <4>2, <4>3 DEF RowsBefore, RowsInBulks
      <4>5. \A db \in DBs : Dialect[db] # "mysql" => NoneThere(t, db)'
        BY <3>3, <4>1, <4>2, <4>3 DEF RowsBefore, RowsInBulks
      <4>6. RowsInBulks(t, d)'
        BY <1>6, <3>2, <4>1, <4>4, <4>5 DEF RowsInBulks
      <4> QED
        BY <3>2, <3>4, <4>1, <4>6 DEF RowsAgree
    <3> QED
      BY <1>6, <3>5, <3>6, <3>7
  <2>13. Agrees(t, d)'
    BY <2>10, <2>11, <2>12 DEF Agrees
  <2>14. \E b \in Accounts : b.reading = Nobody /\ Runs(t, Tail(steps[t]), d, b)
    BY <1>1 DEF Acting
  <2>15. tx' \in [DBs -> [open : BOOLEAN, saved : Seq(Rows)]] /\ \A db \in DBs : tx'[db].open => locked(db)
    BY <1>4, <1>5 DEF Types, Exclusion
  <2>16. d.own \in {Nobody, A[t].own}
    BY <2>9 DEF a
  <2> QED
    BY <1>1, <1>3, <1>5, <2>1, <2>4, <2>8, <2>13, <2>14, <2>15, <2>16, TableStep
<1> QED
  BY <1>7, <1>8

\* What a statement that does not fail does to the rows of a thread and to the
\* transaction.
Effects(t, s) ==
  LET M(u) == Mine(u, tables[s.db])         N(u) == Mine(u, tables'[s.db])
      S(u) == Mine(u, tx[s.db].saved)       R(u) == Mine(u, tx'[s.db].saved)
      was == tx[s.db].open                  is == tx'[s.db].open
  IN \A u \in Threads :
       /\ s.what = "BEGIN" => ~ was /\ is /\ N(u) = M(u) /\ R(u) = M(u)
       /\ s.what = "COMMIT" => was /\ ~ is /\ N(u) = M(u) /\ R(u) = {}
       /\ s.what = "ROLLBACK" => was /\ ~ is /\ N(u) = S(u) /\ R(u) = {}
       /\ s.what \in {"CREATE", "DROP"} => is = was /\ N(u) = {} /\ R(u) = S(u)
       /\ s.what = "INSERT" => is = was /\ (u # t => N(u) = M(u)) /\ R(u) = S(u)
       /\ s.what = "SELECT" => is = was /\ N(u) = M(u) /\ R(u) = S(u)

\* What a statement does to the table and the transaction of its database.
LEMMA ExecuteEffects ==
  ASSUME Types, NEW t \in Threads, NEW s, s = Head(steps[t]), s.db \in DBs, s.what \in Statements,
         Execute(t), ~ fails(s.db, s.what)
  PROVE  /\ tables' \in [DBs -> Seq(Rows)] /\ tx' \in [DBs -> [open : BOOLEAN, saved : Seq(Rows)]]
         /\ \A db \in DBs \ {s.db} : tables'[db] = tables[db] /\ tx'[db] = tx[db]
         /\ tx'[s.db].open => tx[s.db].open \/ s.what = "BEGIN"
         /\ Effects(t, s)
<1> DEFINE after0 == after(s.db, s.what, t)
           tx0 == CASE s.what = "BEGIN" -> [open |-> TRUE, saved |-> tables[s.db]]
                    [] s.what \in {"COMMIT", "ROLLBACK"} -> [open |-> FALSE, saved |-> <<>>]
                    [] OTHER -> tx[s.db]
<1>1. tables' = [tables EXCEPT ![s.db] = after0] /\ tx' = [tx EXCEPT ![s.db] = tx0]
  BY DEF Execute
<1>2. tables[s.db] \in Seq(Rows) /\ tx[s.db] \in [open : BOOLEAN, saved : Seq(Rows)]
      /\ tables \in [DBs -> Seq(Rows)] /\ tx \in [DBs -> [open : BOOLEAN, saved : Seq(Rows)]]
  BY DEF Types
<1>3. Row(t, 0) \in Rows /\ Row(Nobody, -1) \in Rows /\ Row(t, 0)[1] = t /\ Row(Nobody, -1)[1] = Nobody
  BY DEF Row, Rows
<1>4. NoTable \in Seq(Rows) /\ <<>> \in Seq(Rows) /\ Append(tables[s.db], Row(t, 0)) \in Seq(Rows)
  BY <1>2, <1>3 DEF NoTable
<1>5. /\ s.what = "BEGIN" => after0 = tables[s.db] /\ tx0 = [open |-> TRUE, saved |-> tables[s.db]]
      /\ s.what = "COMMIT" => after0 = tables[s.db] /\ tx0 = [open |-> FALSE, saved |-> <<>>]
      /\ s.what = "ROLLBACK" => after0 = tx[s.db].saved /\ tx0 = [open |-> FALSE, saved |-> <<>>]
      /\ s.what = "CREATE" => after0 = <<>> /\ tx0 = tx[s.db]
      /\ s.what = "DROP" => after0 = NoTable /\ tx0 = tx[s.db]
      /\ s.what = "INSERT" => after0 = Append(tables[s.db], Row(t, 0)) /\ tx0 = tx[s.db]
      /\ s.what = "SELECT" => after0 = tables[s.db] /\ tx0 = tx[s.db]
  BY DEF after
<1>6. /\ s.what = "BEGIN" => ~ tx[s.db].open
      /\ s.what \in {"COMMIT", "ROLLBACK"} => tx[s.db].open
  BY DEF fails
<1> HIDE DEF after0, tx0
<1>7. after0 \in Seq(Rows) /\ tx0 \in [open : BOOLEAN, saved : Seq(Rows)]
  <2>1. tx[s.db].saved \in Seq(Rows)
    BY <1>2
  <2>2. after0 \in Seq(Rows)
    BY <1>2, <1>4, <1>5, <2>1 DEF Statements
  <2>3. [open |-> TRUE, saved |-> tables[s.db]] \in [open : BOOLEAN, saved : Seq(Rows)]
        /\ [open |-> FALSE, saved |-> <<>>] \in [open : BOOLEAN, saved : Seq(Rows)]
    BY <1>2, <1>4
  <2>4. tx0 \in {[open |-> TRUE, saved |-> tables[s.db]], [open |-> FALSE, saved |-> <<>>], tx[s.db]}
    BY <1>5 DEF Statements
  <2> QED
    BY <1>2, <2>2, <2>3, <2>4
<1>8. tables'[s.db] = after0 /\ tx'[s.db] = tx0
      /\ \A db \in DBs \ {s.db} : tables'[db] = tables[db] /\ tx'[db] = tx[db]
  BY <1>1, <1>2
<1>9. tables' \in [DBs -> Seq(Rows)] /\ tx' \in [DBs -> [open : BOOLEAN, saved : Seq(Rows)]]
  BY <1>1, <1>2, <1>7
<1>10. \A u \in Threads : Mine(u, <<>>) = {} /\ Mine(u, NoTable) = {}
  <2> TAKE u \in Threads
  <2>1. Nobody # u
    BY DatabasesAssumption
  <2>2. Range(NoTable) = {Row(Nobody, -1)} /\ Range(<<>>) = {}
    BY DEF NoTable, Range
  <2> QED
    BY <1>3, <2>1, <2>2 DEF Mine
<1>11. \A u \in Threads \ {t} : Mine(u, Append(tables[s.db], Row(t, 0))) = Mine(u, tables[s.db])
  <2> TAKE u \in Threads \ {t}
  <2>1. Append(tables[s.db], Row(t, 0)) = tables[s.db] \o <<Row(t, 0)>>
    BY <1>2, <1>3, AppendIsConcat
  <2> DEFINE x == tables[s.db]  y == <<Row(t, 0)>>
  <2>2. Row(t, 0) \in {t} \X Int
    BY DEF Row
  <2>3. y \in Seq({t} \X Int)
    BY <2>2
  <2>4. u # t /\ x \in Seq(Rows)
    BY <1>2
  <2> HIDE DEF x, y
  <2>5. Mine(u, x \o y) = Mine(u, x)
    BY <2>3, <2>4, MineAdded
  <2> QED
    BY <2>1, <2>5 DEF x, y
<1>12. tx'[s.db].open => tx[s.db].open \/ s.what = "BEGIN"
  BY <1>5, <1>8 DEF Statements
<1>13. Effects(t, s)
  <2>1. /\ s.what = "BEGIN" => tx'[s.db].open /\ tx'[s.db].saved = tables[s.db]
        /\ s.what \in {"COMMIT", "ROLLBACK"} => ~ tx'[s.db].open /\ tx'[s.db].saved = <<>>
        /\ s.what \in {"CREATE", "DROP", "INSERT", "SELECT"} => tx'[s.db] = tx[s.db]
    BY <1>5, <1>8
  <2>2. /\ s.what \in {"BEGIN", "COMMIT", "SELECT"} => tables'[s.db] = tables[s.db]
        /\ s.what = "ROLLBACK" => tables'[s.db] = tx[s.db].saved
        /\ s.what \in {"CREATE", "DROP"} => tables'[s.db] \in {<<>>, NoTable}
        /\ s.what = "INSERT" => tables'[s.db] = Append(tables[s.db], Row(t, 0))
    BY <1>5, <1>8
  <2> SUFFICES ASSUME NEW u \in Threads
               PROVE  LET M == Mine(u, tables[s.db])         N == Mine(u, tables'[s.db])
                          S == Mine(u, tx[s.db].saved)       R == Mine(u, tx'[s.db].saved)
                          was == tx[s.db].open               is == tx'[s.db].open
                      IN  /\ s.what = "BEGIN" => ~ was /\ is /\ N = M /\ R = M
                          /\ s.what = "COMMIT" => was /\ ~ is /\ N = M /\ R = {}
                          /\ s.what = "ROLLBACK" => was /\ ~ is /\ N = S /\ R = {}
                          /\ s.what \in {"CREATE", "DROP"} => is = was /\ N = {} /\ R = S
                          /\ s.what = "INSERT" => is = was /\ (u # t => N = M) /\ R = S
                          /\ s.what = "SELECT" => is = was /\ N = M /\ R = S
    BY DEF Effects
  <2> QED
    BY <1>6, <1>10, <1>11, <2>1, <2>2
<1> QED
  BY <1>8, <1>9, <1>12, <1>13

\* A statement touches what is known of others only as they allow.
LEMMA ExecuteTouches ==
  ASSUME NEW t \in Threads, NEW s, s.db \in DBs, s.what \in Statements, Effects(t, s),
         \A db \in DBs \ {s.db} : tables'[db] = tables[db] /\ tx'[db] = tx[db],
         NEW a, Executes(a, s, a) \/ \E d : Executes(a, s, d),
         a.kind = "drops" => Drops(t), a.kind = "copies" => Drops(t),
         NEW u \in Threads \ {t}, NEW b, LocksAgree(u, b), a.own = s.db => b.own # s.db,
         b.writing # s.db, NEW db \in DBs
  PROVE  Touches(u, b, db)
<1>1. Nobody \notin DBs
  BY DatabasesAssumption
<1>2. b.own = db => tx[db].open
  BY <1>1 DEF LocksAgree
<1>3. CASE db # s.db
  BY <1>2, <1>3 DEF Touches
<1>4. CASE db = s.db
  <2> DEFINE M == Mine(u, tables[db])       N == Mine(u, tables'[db])
             S == Mine(u, tx[db].saved)     R == Mine(u, tx'[db].saved)
             was == tx[db].open             is == tx'[db].open
  <2>1. /\ s.what = "BEGIN" => ~ was /\ is /\ N = M /\ R = M
        /\ s.what = "COMMIT" => was /\ ~ is /\ N = M /\ R = {}
        /\ s.what = "ROLLBACK" => was /\ ~ is /\ N = S /\ R = {}
        /\ s.what \in {"CREATE", "DROP"} => is = was /\ N = {} /\ R = S
        /\ s.what = "INSERT" => is = was /\ N = M /\ R = S
        /\ s.what = "SELECT" => is = was /\ N = M /\ R = S
    BY <1>4 DEF Effects
  <2>2. s.what \in {"COMMIT", "ROLLBACK"} => b.own # db
    BY <1>4 DEF Executes, Begins, Commits, RollsBack, Creates, DropsIt, InsertsOne
  <2>3. s.what \in {"CREATE", "DROP"} => ~ NobodyDrops(u)
    <3>1. s.what \in {"CREATE", "DROP"} => Drops(t)
      BY DEF Executes, Begins, Commits, RollsBack, Creates, DropsIt, InsertsOne
    <3> QED
      BY <3>1 DEF NobodyDrops
  <2>4. /\ N \in {M, S, {}} /\ R \in {S, M, {}}
        /\ b.own = db => is /\ N \in {M, {}} /\ R = S
        /\ NobodyDrops(u) =>
             /\ b.own = db \/ ~ was => N = M
             /\ N = M \/ (was /\ N = S)
             /\ is => (was /\ R = S) \/ R = M
    <3> HIDE DEF M, N, R, S, was, is
    <3>1. b.own = db => was
      BY <1>2 DEF was
    <3> QED
      BY <2>1, <2>2, <2>3, <3>1 DEF Statements
  <2> QED
    BY <1>4, <2>4 DEF Touches
<1> QED
  BY <1>3, <1>4

\* The account of the thread whose statement it is.
LEMMA ExecuteAgrees ==
  ASSUME Types, Exclusion, NEW t \in Threads, NEW a \in Accounts, NEW d \in Accounts,
         Agrees(t, a), NEW s, s.db \in DBs, s.what \in Statements, Effects(t, s),
         Executes(a, s, d), readers[s.db] = {},
         UNCHANGED <<readers, writer, catch, seen, answers, req>>,
         \A db \in DBs \ {s.db} : tables'[db] = tables[db] /\ tx'[db] = tx[db]
  PROVE  Agrees(t, d)'
<1>1. AnswersAgree(t, a) /\ LocksAgree(t, a) /\ Nobody \notin DBs
  BY DatabasesAssumption DEF Agrees
<1>2. /\ d.kind = a.kind /\ d.lax = a.lax /\ d.answered = a.answered /\ d.reading = a.reading
      /\ d.writing = a.writing /\ d.trying = a.trying
  <2>1. CASE d = a
    BY <2>1
  <2>2. CASE d = [a EXCEPT !.own = s.db, !.stage = "inside"]
    BY <2>2 DEF Accounts
  <2>3. CASE d = InFile(a)
    BY <2>3 DEF InFile, Accounts
  <2>4. CASE d = [a EXCEPT !.own = Nobody, !.stage = "before", !.got = {}]
    BY <2>4 DEF Accounts
  <2> QED
    BY <2>1, <2>2, <2>3, <2>4
       DEF Executes, Begins, Commits, RollsBack, Creates, DropsIt, InsertsOne
<1>3. \/ /\ s.what = "BEGIN" /\ a.stage = "before" /\ a.kind \in {"reads", "copies"}
         /\ d.own = s.db /\ d.stage = "inside" /\ d.got = a.got /\ d.wanted = a.wanted
      \/ /\ s.what = "COMMIT" /\ a.own = s.db /\ a.writing = Nobody /\ a.got = a.wanted
         /\ ~ a.answered /\ d.own = Nobody /\ d.stage = "stored"
      \/ /\ s.what = "ROLLBACK" /\ a.own = s.db /\ a.writing = Nobody
         /\ d.own = Nobody /\ d.stage = "before" /\ d.got = {} /\ d.wanted = a.wanted
      \/ /\ s.what = "CREATE" /\ d = a
         /\ a.kind = "drops" \/ (a.kind = "copies" /\ a.stage = "before")
      \/ s.what = "DROP" /\ a.kind = "drops" /\ d = a
      \/ s.what = "INSERT" /\ a.kind \in {"drops", "executes"} /\ d = a
      \/ s.what = "SELECT" /\ d = a
  BY DEF Executes, Begins, Commits, RollsBack, Creates, DropsIt, InsertsOne, InFile, Accounts, SomeDB
<1>4. a.stage = "inside" <=> a.own # Nobody
  BY <1>1 DEF LocksAgree
<1>5. AnswersAgree(t, d)'
  <2>1. a.stage = "stored" => d.stage = "stored"
    BY <1>1, <1>3, <1>4
  <2> QED
    BY <1>1, <1>2, <2>1 DEF AnswersAgree, Reads
<1>6. LocksAgree(t, d)'
  <2>1. d.own # Nobody <=> d.stage = "inside"
    BY <1>1, <1>3, <1>4
  <2>2. d.own # Nobody => tx'[d.own].open
    <3>1. d.own # Nobody => d.own \in DBs
      BY DEF Accounts, SomeDB
    <3>2. s.what # "BEGIN" => d.own \in {Nobody, a.own}
      BY <1>3
    <3>3. s.what = "BEGIN" => d.own = s.db
      BY <1>3
    <3>4. a.own # Nobody => tx[a.own].open
      BY <1>1 DEF LocksAgree
    <3>5. d.own = s.db => tx'[s.db].open
      <4>1. /\ s.what = "BEGIN" => tx'[s.db].open
            /\ s.what \in {"CREATE", "DROP", "INSERT", "SELECT"} => tx'[s.db].open = tx[s.db].open
        BY DEF Effects
      <4>2. s.what \in {"COMMIT", "ROLLBACK"} => d.own = Nobody
        BY <1>3
      <4> QED
        BY <1>1, <3>2, <3>4, <4>1, <4>2 DEF Statements
    <3> QED
      BY <3>1, <3>2, <3>3, <3>4, <3>5
  <2>3. d.own # Nobody => d.kind \in {"reads", "copies"}
    BY <1>1, <1>2, <1>3 DEF LocksAgree
  <2>4. d.writing # Nobody => d.own = d.writing
    BY <1>1, <1>2, <1>3, <1>4 DEF LocksAgree
  <2>5. a.reading # Nobody /\ locked(a.reading) => a.reading # s.db /\ a.reading \in DBs
    BY <1>1 DEF LocksAgree, Accounts, SomeDB
  <2>6. a.reading # Nobody /\ locked(a.reading) => seen'[t].at = tables'[a.reading]
    BY <1>1, <2>5 DEF LocksAgree
  <2> QED
    BY <1>1, <1>2, <2>1, <2>2, <2>3, <2>4, <2>6 DEF LocksAgree, SeesOneTable, locked
<1>7. ASSUME d.kind \notin {"drops", "executes"} PROVE RowsAgree(t, d)'
  <2>1. RowsAgree(t, a)
    BY <1>2, <1>7 DEF Agrees
  <2> DEFINE M == Mine(t, tables[s.db])         N == Mine(t, tables'[s.db])
             S == Mine(t, tx[s.db].saved)       R == Mine(t, tx'[s.db].saved)
  <2>2. /\ Reads(t)' <=> Reads(t)
        /\ RowsWanted(t)' = RowsWanted(t)
        /\ NobodyDrops(t)' <=> NobodyDrops(t)
        /\ \A db : Mine(t, tables[db])' = Mine(t, tables'[db])
                   /\ Mine(t, tx[db].saved)' = Mine(t, tx'[db].saved)
    BY DEF Reads, RowsWanted, NobodyDrops, Drops, Mine
  <2>3. \A db \in DBs \ {s.db} : NoneThere(t, db)' <=> NoneThere(t, db)
    BY <2>2 DEF NoneThere, Mine
  <2>4. /\ s.what = "BEGIN" => N = M /\ R = M
        /\ s.what = "COMMIT" => ~ tx'[s.db].open /\ N = M /\ R = {}
        /\ s.what = "ROLLBACK" => N = S /\ R = {}
        /\ s.what = "CREATE" => N = {} /\ R = S
    BY DEF Effects
  <2>5. NoneThere(t, s.db)' <=> N = {} /\ R = {}
    BY DEF NoneThere, Mine
  <2>6. NoneThere(t, s.db) <=> M = {} /\ S = {}
    BY DEF NoneThere
  <2>7. a.stage = "before" => RowsBefore(t, a)
    BY <2>1 DEF RowsAgree
  <2>8. a.own = s.db => a.stage = "inside" /\ RowsInside(t, a)
    BY <1>1, <1>4, <2>1 DEF RowsAgree
  <2>9. CASE s.what = "BEGIN"
    <3>1. a.stage = "before" /\ d.own = s.db /\ d.stage = "inside" /\ d.got = {}
          /\ d.wanted = a.wanted
      BY <1>3, <2>7, <2>9 DEF RowsBefore
    <3>2. M = {} /\ \A db \in DBs \ {s.db} : NoneThere(t, db)
      BY <2>6, <2>7, <3>1 DEF RowsBefore
    <3>3. N = {} /\ R = {}
      BY <2>4, <2>9, <3>2
    <3>4. RowsInside(t, d)'
      BY <2>2, <2>3, <3>1, <3>2, <3>3 DEF RowsInside, Mine
    <3> QED
      BY <2>1, <2>2, <3>1, <3>4 DEF RowsAgree
  <2>10. CASE s.what = "COMMIT"
    <3>1. a.own = s.db /\ a.got = a.wanted /\ answers[t] = <<>> /\ d.stage = "stored"
      BY <1>1, <1>3, <2>10 DEF AnswersAgree
    <3>2. RowsInside(t, a) /\ a.stage = "inside"
      BY <2>8, <3>1
    <3>3. ASSUME Reads(t) PROVE RowsStored(t, d)'
      <4>1. a.wanted = RowsWanted(t)
        BY <2>1, <3>2, <3>3 DEF RowsAgree
      <4>2. /\ M \in {{}, RowsWanted(t)} /\ (NobodyDrops(t) => M = RowsWanted(t))
            /\ \A db \in DBs \ {s.db} : NoneThere(t, db)
        BY <3>1, <3>2, <4>1 DEF RowsInside
      <4>3. N = M /\ R = {} /\ ~ tx'[s.db].open
        BY <2>4, <2>10
      <4>4. \A db \in DBs : /\ Mine(t, tables'[db]) \in {{}, RowsWanted(t)}
                            /\ Mine(t, tx'[db].saved) \in {{}, RowsWanted(t)}
        <5> TAKE db \in DBs
        <5>1. CASE db = s.db
          BY <4>2, <4>3, <5>1
        <5>2. CASE db # s.db
          BY <4>2, <5>2 DEF NoneThere
        <5> QED
          BY <5>1, <5>2
      <4>5. NobodyDrops(t) => \E db \in DBs : /\ RowsWanted(t) \subseteq Mine(t, tables'[db])
                                              /\ ~ tx'[db].open
        BY <4>2, <4>3
      <4>6. answers'[t] # <<"error">>
        BY <3>1
      <4> QED
        BY <2>2, <4>4, <4>5, <4>6 DEF RowsStored
    <3> QED
      BY <2>2, <3>1, <3>3 DEF RowsAgree
  <2>11. CASE s.what = "ROLLBACK"
    <3>1. a.own = s.db /\ d.stage = "before" /\ d.got = {} /\ d.wanted = a.wanted
      BY <1>3, <2>11
    <3>2. RowsInside(t, a) /\ a.stage = "inside"
      BY <2>8, <3>1
    <3>3. S = {} /\ \A db \in DBs \ {s.db} : NoneThere(t, db)
      BY <3>1, <3>2 DEF RowsInside
    <3>4. N = {} /\ R = {}
      BY <2>4, <2>11, <3>3
    <3>5. RowsBefore(t, d)'
      BY <2>3, <2>5, <3>1, <3>3, <3>4 DEF RowsBefore
    <3> QED
      BY <2>1, <2>2, <3>1, <3>2, <3>5 DEF RowsAgree
  <2>12. CASE s.what = "CREATE"
    <3>1. a.stage = "before" /\ d = a
      BY <1>2, <1>3, <1>7, <2>12
    <3>2. S = {} /\ \A db \in DBs \ {s.db} : NoneThere(t, db)
      BY <2>6, <2>7, <3>1 DEF RowsBefore
    <3>3. N = {} /\ R = {}
      BY <2>4, <2>12, <3>2
    <3>4. RowsBefore(t, d)'
      BY <2>3, <2>5, <2>7, <3>1, <3>2, <3>3 DEF RowsBefore
    <3> QED
      BY <2>1, <2>2, <3>1, <3>4 DEF RowsAgree
  <2>13. CASE s.what \in {"DROP", "INSERT"}
    BY <1>2, <1>3, <1>7, <2>13
  <2>14. CASE s.what = "SELECT"
    <3>1. d = a
      BY <1>3, <2>14
    <3>2. \A db \in DBs : Touches(t, a, db)
      <4> TAKE db \in DBs
      <4>1. Mine(t, tables'[db]) = Mine(t, tables[db]) /\ Mine(t, tx'[db].saved) = Mine(t, tx[db].saved)
            /\ tx'[db].open = tx[db].open
        <5>1. CASE db = s.db
          BY <2>14, <5>1 DEF Effects
        <5>2. CASE db # s.db
          BY <5>2
        <5> QED
          BY <5>1, <5>2
      <4>2. a.own = db => tx[db].open
        BY <1>1 DEF LocksAgree
      <4> QED
        BY <4>1, <4>2 DEF Touches
    <3>3. \A db \in DBs : t \in readers[db] => tables'[db] = tables[db]
      OBVIOUS
    <3>4. Agrees(t, a)'
      BY <3>2, <3>3, TouchedKeeps
    <3> QED
      BY <1>7, <3>1, <3>4 DEF Agrees
  <2> QED
    BY <2>9, <2>10, <2>11, <2>12, <2>13, <2>14 DEF Statements
<1> QED
  BY <1>5, <1>6, <1>7 DEF Agrees

\* Executing a statement keeps the invariant.
LEMMA ExecuteKeeps ==
  ASSUME Inv, NEW t \in Threads, steps[t] # <<>>, Execute(t)
  PROVE  Inv'
<1>1. PICK A, d : Acting(t, A, d)
  BY ActingExists
<1>2. PICK s : s = Head(steps[t])
  OBVIOUS
<1>3. PICK a : a = A[t]
  OBVIOUS
<1>4. s.op = "execute" /\ may_write(s.db) /\ s \in Steps /\ Moves(t, a, s, d)
  BY <1>1, <1>2, <1>3 DEF Execute, Acting, may_go
<1>5. a \in Accounts /\ Agrees(t, a) /\ d \in Accounts
  BY <1>1, <1>3 DEF Acting
<1>6. Types /\ Exclusion /\ LocksAgree(t, a) /\ AnswersAgree(t, a)
  BY <1>5 DEF Inv, Agrees
<1>7. s.db \in DBs /\ CanFail(a) /\ Executes(a, s, d) /\ s.what \in Whats
  BY <1>4 DEF Moves, Inserts, Appends, Steps
<1>8. s.what \in Statements
  BY <1>7 DEF Executes, Begins, Commits, RollsBack, Creates, DropsIt, InsertsOne, Statements
<1>9. UNCHANGED <<connector_map, readers, writer, posting, catch, seen, answers, req>>
      /\ steps' = [steps EXCEPT ![t] = IF throws(s.db, s.what) THEN <<Step("throw", s.db, s.what)>>
                                       ELSE Tail(steps[t])]
  BY <1>2 DEF Execute, locks, Advance, Goto
<1>10. CASE fails(s.db, s.what)
  <2>1. tables' = [tables EXCEPT ![s.db] = tables[s.db]] /\ tx' = [tx EXCEPT ![s.db] = tx[s.db]]
    BY <1>2, <1>10 DEF Execute, after
  <2>2. tables' = tables /\ tx' = tx
    BY <1>6, <2>1 DEF Types
  <2>3. throws(s.db, s.what)
    BY <1>10 DEF throws
  <2>4. connector_map' \in [Connections -> DBs] /\ posting' \subseteq Threads
        /\ \A conn \in Connections : LeadsTo(conn, connector_map'[conn])
    BY <1>6, <1>9 DEF Types
  <2>5. steps' = [steps EXCEPT ![t] = <<Step("throw", s.db, s.what)>>]
    BY <1>9, <2>3
  <2> QED
    BY <1>1, <1>3, <1>5, <1>7, <1>9, <2>2, <2>4, <2>5, QuietStep, ThrowsRun
<1>11. CASE ~ fails(s.db, s.what)
  <2>1. /\ tables' \in [DBs -> Seq(Rows)] /\ tx' \in [DBs -> [open : BOOLEAN, saved : Seq(Rows)]]
        /\ \A db \in DBs \ {s.db} : tables'[db] = tables[db] /\ tx'[db] = tx[db]
        /\ tx'[s.db].open => tx[s.db].open \/ s.what = "BEGIN"
        /\ Effects(t, s)
    BY <1>2, <1>6, <1>7, <1>8, <1>11, ExecuteEffects
  <2>2. readers[s.db] = {} /\ writer[s.db] = Nobody
    <3>1. CASE locked(s.db)
      BY <1>4, <3>1 DEF may_write
    <3>2. CASE ~ locked(s.db)
      <4>1. \A u \in Threads : u \notin readers[s.db]
        <5> TAKE u \in Threads
        <5>1. LocksAgree(u, A[u])
          BY <1>1 DEF Acting, Agrees
        <5> QED
          BY <1>7, <3>2, <5>1 DEF LocksAgree
      <4>2. readers[s.db] \subseteq Threads
        BY <1>6, <1>7 DEF Types
      <4> QED
        BY <1>6, <1>7, <3>2, <4>1, <4>2 DEF Exclusion
    <3> QED
      BY <3>1, <3>2
  <2>3. s.what = "BEGIN" => locked(s.db) /\ ~ tx[s.db].open
    BY <1>7, <1>11 DEF Executes, Begins, Commits, RollsBack, Creates, DropsIt, InsertsOne, fails
  <2>4. \A db \in DBs : tx'[db].open => locked(db)
    BY <1>6, <1>7, <2>1, <2>3 DEF Exclusion
  <2>5. (a.kind = "drops" => Drops(t)) /\ (a.kind = "copies" => Drops(t))
    BY <1>6 DEF AnswersAgree, Kind, Drops
  <2>6. ASSUME NEW u \in Threads \ {t}, NEW db \in DBs
        PROVE  Touches(u, A[u], db) /\ (u \in readers[db] => tables'[db] = tables[db])
    <3>1. LocksAgree(u, A[u]) /\ u # Nobody
      BY <1>1, DatabasesAssumption DEF Acting, Agrees
    <3>2. A[u].writing # s.db
      BY <1>7, <2>2, <3>1 DEF LocksAgree
    <3>3. a.own = s.db => A[u].own # s.db
      BY <1>1, <1>3, <1>7, DatabasesAssumption DEF Acting, AloneOnTheirOwn
    <3>4. Touches(u, A[u], db)
      BY <1>7, <1>8, <2>1, <2>5, <3>1, <3>2, <3>3, ExecuteTouches
    <3> QED
      BY <2>1, <2>2, <3>4
  <2>7. Agrees(t, d)'
    BY <1>5, <1>6, <1>7, <1>8, <1>9, <2>1, <2>2, ExecuteAgrees
  <2>8. d.own \in {Nobody, a.own} \/ (s.what = "BEGIN" /\ d.own = s.db)
    BY <1>5, <1>7 DEF Executes, Begins, Commits, RollsBack, Creates, DropsIt, InsertsOne, InFile,
                      Accounts, SomeDB
  <2>9. \/ d.own \in {Nobody, A[t].own}
        \/ \A u \in Threads \ {t} : A[u].own # d.own
    <3>1. ASSUME s.what = "BEGIN", d.own = s.db, NEW u \in Threads PROVE A[u].own # d.own
      <4>1. LocksAgree(u, A[u]) /\ Nobody \notin DBs
        BY <1>1, DatabasesAssumption DEF Acting, Agrees
      <4> QED
        BY <1>7, <2>3, <3>1, <4>1 DEF LocksAgree
    <3> QED
      BY <1>3, <2>8, <3>1
  <2>10. PICK left : /\ steps' = [steps EXCEPT ![t] = left]
                     /\ \E b \in Accounts : b.reading = Nobody /\ Runs(t, left, d, b)
    <3>1. CASE throws(s.db, s.what)
      <4>1. s.what = "DROP"
        BY <1>11, <3>1 DEF throws
      <4>2. d = a
        BY <1>7, <4>1 DEF Executes, Begins, Commits, RollsBack, Creates, DropsIt, InsertsOne
      <4> QED
        BY <1>5, <1>7, <1>9, <3>1, <4>2, ThrowsRun
    <3>2. CASE ~ throws(s.db, s.what)
      <4>1. \E b \in Accounts : b.reading = Nobody /\ Runs(t, Tail(steps[t]), d, b)
        BY <1>1 DEF Acting
      <4> QED
        BY <1>9, <3>2, <4>1
    <3> QED
      BY <3>1, <3>2
  <2> QED
    BY <1>1, <1>5, <1>9, <2>1, <2>4, <2>6, <2>7, <2>9, <2>10, TableStep
<1> QED
  BY <1>10, <1>11

\* The thread starts over with what it reads.
LEMMA CopyKeeps ==
  ASSUME Inv, NEW t \in Threads, steps[t] # <<>>, Copy(t)
  PROVE  Inv'
<1>1. PICK A, d : Acting(t, A, d)
  BY ActingExists
<1>2. PICK s : s = Head(steps[t])
  OBVIOUS
<1>3. PICK a : a = A[t]
  OBVIOUS
<1>4. PICK r : r = [cmd |-> "copy_table", header |-> TRUE,
                    lines |-> [i \in DOMAIN seen[t].at |-> "row"]]
  OBVIOUS
<1>5. /\ s.op = "copy" /\ req' = [req EXCEPT ![t] = r]
      /\ steps' = [steps EXCEPT ![t] = read(s.db, t, r) \o Tail(steps[t])]
      /\ UNCHANGED <<connector_map, tables, tx, readers, writer, posting, catch, seen, answers>>
  BY <1>2, <1>4 DEF Copy, Goto, locks
<1>6. a \in Accounts /\ Agrees(t, a) /\ d \in Accounts /\ Moves(t, a, s, d) /\ req[t] # NotAsked
  BY <1>1, <1>2, <1>3 DEF Acting
<1>7. Types /\ Exclusion /\ LocksAgree(t, a) /\ AnswersAgree(t, a) /\ Nobody \notin DBs
  BY <1>6, DatabasesAssumption DEF Inv, Agrees
<1>8. /\ s.db \in DBs /\ a.kind = "copies" /\ a.stage = "before" /\ a.trying = Nobody
      /\ ~ a.answered /\ d = InFile(a)
  BY <1>5, <1>6 DEF Moves, Inserts, Appends
<1>9. RowsBefore(t, a) /\ a.got = {} /\ a.own = Nobody /\ a.writing = Nobody
  BY <1>6, <1>7, <1>8 DEF Agrees, RowsAgree, RowsBefore, LocksAgree
<1>10. r.lines \in Seq({"row"}) /\ r.lines \in Seq(Lines)
       /\ \A i \in DOMAIN r.lines : r.lines[i] # "bad"
  <2>1. seen[t].at \in Seq(Rows)
    BY <1>7 DEF Types
  <2>2. r.lines = [i \in 1 .. Len(seen[t].at) |-> "row"] /\ Len(seen[t].at) \in Nat
    BY <1>4, <2>1
  <2> QED
    BY <2>2 DEF Lines
<1>11. r \in Asked
  <2>1. r \in Copied
    BY <1>4, <1>10 DEF Copied
  <2> QED
    BY <2>1 DEF Asked
<1>12. PICK e : e = [a EXCEPT !.wanted = RowsFrom(t, r.lines, 1, Len(r.lines))]
  OBVIOUS
<1>13. /\ e \in Accounts /\ e.kind = a.kind /\ e.lax = a.lax /\ e.answered = a.answered
       /\ e.reading = a.reading /\ e.writing = a.writing /\ e.trying = a.trying /\ e.own = a.own
       /\ e.stage = "before" /\ e.at = a.at /\ e.got = {}
       /\ e.wanted = RowsFrom(t, r.lines, 1, Len(r.lines))
       /\ InFile(e) = d
  <2>1. RowsFrom(t, r.lines, 1, Len(r.lines)) \in SUBSET Rows
    BY <1>10, RowsFromType
  <2>2. e \in Accounts
    BY <1>6, <1>12, <2>1 DEF Accounts
  <2> QED
    BY <1>6, <1>8, <1>9, <1>12, <2>1, <2>2 DEF Accounts, InFile
<1>14. MayReadFile(t, e, r.lines)
  BY <1>8, <1>9, <1>13 DEF MayReadFile
<1>15. Runs(t, read(s.db, t, r), e, d)
  BY <1>8, <1>10, <1>13, <1>14, ReadRuns
<1>16. PICK b \in Accounts : b.reading = Nobody /\ Runs(t, Tail(steps[t]), d, b)
  BY <1>1 DEF Acting
<1>17. Runs(t, read(s.db, t, r) \o Tail(steps[t]), e, b)
  BY <1>15, <1>16, RunsJoin
<1>18. /\ req' \in [Threads -> Asked] /\ req'[t] = r /\ \A u \in Threads \ {t} : req'[u] = req[u]
  BY <1>5, <1>7, <1>11 DEF Types
<1>19. Types' /\ Exclusion'
  <2>1. read(s.db, t, r) \o Tail(steps[t]) \in Seq(Steps)
    BY <1>17, RunsTypes
  <2> QED
    BY <1>5, <1>7, <1>18, <2>1 DEF Types, Exclusion, locked
<1>20. r.cmd = "copy_table" /\ r # NotAsked
  BY <1>4 DEF NotAsked
<1>21. Drops(t)'
  BY <1>18, <1>20 DEF Drops
<1>22. \A u \in Threads \ {t} : Agrees(u, A[u])'
  <2> TAKE u \in Threads \ {t}
  <2>1. Agrees(u, A[u])
    BY <1>1 DEF Acting
  <2>2. ~ NobodyDrops(u)'
    BY <1>21 DEF NobodyDrops
  <2> QED
    BY <1>5, <1>18, <2>1, <2>2, OthersKeep
<1>23. Agrees(t, e)'
  <2>1. AnswersAgree(t, e)'
    <3>1. Kind(req[t]) = "copies"
      BY <1>7, <1>8 DEF AnswersAgree
    <3>2. req[t].cmd = "copy_table"
      BY <3>1 DEF Kind
    <3>3. ~ Lax(req[t]) /\ ~ Lax(r) /\ Kind(r) = "copies"
      BY <1>20, <3>2 DEF Lax, Kind
    <3> QED
      BY <1>5, <1>7, <1>8, <1>13, <1>18, <3>3 DEF AnswersAgree
  <2>2. LocksAgree(t, e)'
    BY <1>5, <1>7, <1>8, <1>13 DEF LocksAgree, SeesOneTable
  <2>3. RowsBefore(t, e)'
    BY <1>5, <1>9, <1>13 DEF RowsBefore, NoneThere, Mine
  <2>4. e.wanted = RowsWanted(t)'
    <3>1. DOMAIN r.lines = 1 .. Len(r.lines)
      BY <1>10
    <3> QED
      BY <1>13, <1>18, <3>1 DEF RowsWanted, RowsFrom
  <2> QED
    BY <1>13, <2>1, <2>2, <2>3, <2>4 DEF Agrees, RowsAgree
<1>24. req'[t] # NotAsked
  BY <1>18, <1>20
<1>25. e.own \in {Nobody, A[t].own}
  BY <1>9, <1>13
<1> QED
  BY <1>1, <1>5, <1>7, <1>13, <1>16, <1>17, <1>18, <1>19, <1>22, <1>23, <1>24, <1>25, StepKeeps

\* A request.
LEMMA BeginKeeps ==
  ASSUME Inv, NEW t \in Threads, Begin(t)
  PROVE  Inv'
<1>1. PICK A \in [Threads -> Accounts] : Accounted(A)
  BY DEF Inv
<1>2. PICK r \in Requests[t] : /\ req' = [req EXCEPT ![t] = r]
                               /\ steps' = [steps EXCEPT ![t] = execute_command(t, r)]
  BY DEF Begin, Goto
<1>3. req[t] = NotAsked
      /\ UNCHANGED <<connector_map, tables, tx, readers, writer, posting, catch, seen, answers>>
  BY DEF Begin, locks
<1>4. Types /\ Exclusion
  BY DEF Inv
<1>5. Idle(A[t]) /\ Agrees(t, A[t])
  BY <1>1, <1>3 DEF Accounted
<1>6. Connects
  BY <1>4 DEF Types, Connects
<1>7. PICK e, b : e = Begun(t, r) /\ b \in Accounts /\ b.reading = Nobody
                  /\ Runs(t, execute_command(t, r), e, b)
  BY <1>2, <1>6, CommandRuns DEF HandlerRuns
<1>8. WellFormed(r)
  BY <1>2, DatabasesAssumption
<1>9. e \in Accounts /\ execute_command(t, r) \in Seq(Steps)
  BY <1>7, RunsTypes
<1>10. /\ e.kind = Kind(r) /\ e.lax = Lax(r) /\ e.wanted = Wanted(t, r) /\ e.stage = "before"
       /\ e.reading = Nobody /\ e.writing = Nobody /\ e.trying = Nobody /\ e.own = Nobody
       /\ e.got = {} /\ e.answered = FALSE
  BY <1>7 DEF Begun, Start
<1>11. /\ req'[t] = r /\ steps'[t] = execute_command(t, r)
       /\ \A u \in Threads \ {t} : req'[u] = req[u] /\ steps'[u] = steps[u]
  BY <1>2, <1>4 DEF Types
<1>12. Types' /\ Exclusion'
  <2>1. r \in Asked
    <3>1. r \in UNION {Requests[u] : u \in Threads}
      BY <1>2
    <3> QED
      BY <3>1 DEF Asked
  <2> QED
    BY <1>2, <1>3, <1>4, <1>9, <2>1 DEF Types, Exclusion, locked
<1>13. r # NotAsked
  BY <1>8 DEF WellFormed, NotAsked
<1>14. \A u \in Threads : ~ Drops(t) /\ (Drops(u) => Drops(u)' \/ u = t)
  BY <1>3, <1>11 DEF Drops, NotAsked
<1>15. \A u \in Threads : NobodyDrops(u)' => NobodyDrops(u)
  BY <1>14 DEF NobodyDrops
<1>16. \A u \in Threads \ {t} : Agrees(u, A[u])'
  <2> TAKE u \in Threads \ {t}
  <2>1. Agrees(u, A[u])
    BY <1>1 DEF Accounted
  <2> QED
    BY <1>3, <1>11, <1>15, <2>1, OthersKeep
<1>17. Agrees(t, e)'
  <2>1. /\ A[t].kind = "other" /\ A[t].stage = "before" /\ ~ A[t].answered
        /\ A[t].reading = Nobody /\ A[t].writing = Nobody /\ A[t].trying = Nobody
        /\ A[t].own = Nobody
    BY <1>5 DEF Idle, Start
  <2>2. answers[t] = <<>>
    BY <1>5, <2>1 DEF Agrees, AnswersAgree
  <2>3. AnswersAgree(t, e)'
    BY <1>3, <1>10, <1>11, <2>2 DEF AnswersAgree
  <2>4. LocksAgree(t, e)'
    <3>1. LocksAgree(t, A[t])
      BY <1>5 DEF Agrees
    <3> QED
      BY <1>3, <1>10, <2>1, <3>1 DEF LocksAgree, SeesOneTable
  <2>5. RowsBefore(t, e)'
    <3>1. \A db \in DBs : NoneThere(t, db)
      BY <1>5, <2>1 DEF Agrees, RowsAgree, RowsBefore
    <3> QED
      BY <1>3, <1>10, <3>1 DEF RowsBefore, NoneThere, Mine
  <2>6. Reads(t)' => e.wanted = RowsWanted(t)'
    <3>1. Reads(t)' => r.cmd = "read_csv"
      BY <1>8, <1>11 DEF Reads, WellFormed
    <3> QED
      BY <1>10, <1>11, <3>1 DEF Wanted, RowsWanted
  <2> QED
    BY <1>10, <2>3, <2>4, <2>5, <2>6 DEF Agrees, RowsAgree
<1>18. PICK a : a = [A EXCEPT ![t] = e]
  OBVIOUS
<1>19. a \in [Threads -> Accounts] /\ a[t] = e /\ \A u \in Threads \ {t} : a[u] = A[u]
  BY <1>9, <1>18
<1>20. ASSUME NEW u \in Threads
       PROVE  /\ Agrees(u, a[u])'
              /\ \E c \in Accounts : c.reading = Nobody /\ Runs(u, steps'[u], a[u], c)
              /\ req'[u] = NotAsked => Idle(a[u]) /\ steps'[u] = <<>>
  <2>1. CASE u = t
    BY <1>7, <1>11, <1>13, <1>17, <1>19, <2>1
  <2>2. CASE u # t
    BY <1>1, <1>11, <1>16, <1>19, <2>2 DEF Accounted
  <2> QED
    BY <2>1, <2>2
<1>21. \A u, v \in Threads : a[u].own # Nobody /\ a[u].own = a[v].own => u = v
  BY <1>1, <1>10, <1>19 DEF Accounted
<1> QED
  BY <1>12, <1>19, <1>20, <1>21 DEF Inv, Accounted

-----------------------------------------------------------------------------
(* The theorems *)

\* Before any request the invariant holds.
LEMMA InitInv ==
  ASSUME DatabaseInit
  PROVE  Inv
<1>1. PICK a : a = [t \in Threads |-> Start("other", FALSE, {})]
  OBVIOUS
<1>2. \A t \in Threads : /\ a[t] \in Accounts /\ Idle(a[t])
                         /\ a[t] = Start("other", FALSE, {})
  BY <1>1, StartType DEF Idle, Kinds
<1>3. a \in [Threads -> Accounts]
  BY <1>1, <1>2
<1>4. Nobody \notin Threads /\ Nobody \notin DBs
  BY DatabasesAssumption
<1>5. Types
  <2>1. tables \in [DBs -> Seq(Rows)]
    <3>1. tables \in [DBs -> Seq(OldRows)]
      BY DatabasesAssumption DEF DatabaseInit
    <3>2. Seq(OldRows) \subseteq Seq(Rows)
      BY DEF Rows
    <3> QED
      BY <3>1, <3>2
  <2>2. connector_map \in [Connections -> DBs]
        /\ \A conn \in Connections : LeadsTo(conn, connector_map[conn])
    BY DatabasesAssumption DEF DatabaseInit, LeadsTo
  <2>3. tx \in [DBs -> [open : BOOLEAN, saved : Seq(Rows)]]
    <3>1. <<>> \in Seq(Rows)
      OBVIOUS
    <3>2. [open |-> FALSE, saved |-> <<>>] \in [open : BOOLEAN, saved : Seq(Rows)]
      BY <3>1
    <3> QED
      BY <3>2 DEF DatabaseInit
  <2>4. seen \in [Threads -> [at : Seq(Rows), rows : Seq(Rows)]]
    <3>1. <<>> \in Seq(Rows)
      OBVIOUS
    <3>2. Closed \in [at : Seq(Rows), rows : Seq(Rows)]
      BY <3>1 DEF Closed
    <3> QED
      BY <3>2 DEF DatabaseInit
  <2>5. steps \in [Threads -> Seq(Steps)] /\ answers \in [Threads -> Seq({"Success!", "error"})]
    BY DEF DatabaseInit
  <2>6. req \in [Threads -> Asked]
    BY DEF DatabaseInit, Asked
  <2>7. /\ readers \in [DBs -> SUBSET Threads] /\ writer \in [DBs -> Threads \cup {Nobody}]
        /\ posting \subseteq Threads /\ catch \in [Threads -> SomeDB]
    BY DEF DatabaseInit, SomeDB
  <2> QED
    BY <2>1, <2>2, <2>3, <2>4, <2>5, <2>6, <2>7 DEF Types
<1>6. Exclusion
  BY DEF DatabaseInit, Exclusion
<1>7. ASSUME NEW t \in Threads
      PROVE  /\ Agrees(t, a[t])
             /\ \E b \in Accounts : b.reading = Nobody /\ Runs(t, steps[t], a[t], b)
             /\ Idle(a[t]) /\ steps[t] = <<>> /\ a[t].own = Nobody
  <2>1. /\ a[t].kind = "other" /\ a[t].lax = FALSE /\ a[t].stage = "before" /\ a[t].got = {}
        /\ a[t].reading = Nobody /\ a[t].writing = Nobody /\ a[t].trying = Nobody
        /\ a[t].own = Nobody /\ a[t].answered = FALSE
    BY <1>2 DEF Start
  <2>2. /\ steps[t] = <<>> /\ req[t] = NotAsked /\ answers[t] = <<>> /\ catch[t] = Nobody
        /\ seen[t].rows = <<>>
        /\ \A db \in DBs : /\ writer[db] = Nobody /\ readers[db] = {} /\ tables[db] = Stored[db]
                           /\ tx[db].saved = <<>>
    BY DEF DatabaseInit, Closed
  <2>3. AnswersAgree(t, a[t])
    BY <2>1, <2>2 DEF AnswersAgree, Kind, Lax, NotAsked
  <2>4. LocksAgree(t, a[t])
    BY <1>4, <2>1, <2>2 DEF LocksAgree, SeesOneTable
  <2>5. \A db \in DBs : NoneThere(t, db)
    <3> TAKE db \in DBs
    <3>1. Range(Stored[db]) \subseteq OldRows
      BY DEF OldRows
    <3>2. Mine(t, Stored[db]) = {}
      BY <3>1, DatabasesAssumption DEF Mine
    <3>3. Mine(t, <<>>) = {}
      BY DEF Mine, Range
    <3> QED
      BY <2>2, <3>2, <3>3 DEF NoneThere
  <2>6. ~ Reads(t)
    BY <2>2 DEF Reads, NotAsked
  <2>7. RowsAgree(t, a[t])
    BY <2>1, <2>5, <2>6 DEF RowsAgree, RowsBefore
  <2>8. Runs(t, steps[t], a[t], a[t])
    BY <1>2, <2>2, RunsNothing DEF Settles
  <2> QED
    BY <1>2, <2>1, <2>2, <2>3, <2>4, <2>7, <2>8 DEF Agrees
<1>8. Accounted(a)
  BY <1>7 DEF Accounted
<1> QED
  BY <1>3, <1>5, <1>6, <1>8 DEF Inv

\* No step breaks the invariant.
LEMMA NextKeeps ==
  ASSUME Inv, [DatabaseNext]_databaseVars
  PROVE  Inv'
<1>1. ASSUME NEW t \in Threads, Begin(t) PROVE Inv'
  BY <1>1, BeginKeeps
<1>2. ASSUME NEW t \in Threads, Act(t) PROVE Inv'
  <2>1. steps[t] # <<>>
    BY <1>2 DEF Act
  <2>2. CASE Execute(t)
    BY <2>1, <2>2, ExecuteKeeps
  <2>3. CASE Look(t)
    BY <2>1, <2>3, LookKeeps
  <2>4. CASE Fails(t) \/ TimeOut(t)
    BY <2>1, <2>4, FailsKeeps
  <2>5. CASE Try(t)
    BY <2>1, <2>5, TryKeeps
  <2>6. CASE Lock(t) \/ Unlock(t)
    BY <2>1, <2>6, LockKeeps
  <2>7. CASE Insert(t)
    BY <2>1, <2>7, InsertKeeps
  <2>8. CASE Copy(t)
    BY <2>1, <2>8, CopyKeeps
  <2>9. CASE Select(t)
    BY <2>1, <2>9, SelectKeeps
  <2>10. CASE Fetch(t)
    BY <2>1, <2>10, FetchKeeps
  <2>11. CASE Close(t)
    BY <2>1, <2>11, CloseKeeps DEF Close
  <2>12. CASE Enter(t) \/ List(t) \/ NewDB(t)
    BY <2>1, <2>12, EnterKeeps
  <2>13. CASE Send(t)
    BY <2>1, <2>13, SendKeeps
  <2> QED
    BY <1>2, <2>2, <2>3, <2>4, <2>5, <2>6, <2>7, <2>8, <2>9, <2>10, <2>11, <2>12, <2>13 DEF Act
<1>3. CASE UNCHANGED databaseVars
  <2>1. UNCHANGED <<connector_map, tables, tx, readers, writer, posting, catch, seen, answers, req,
                    steps>>
    BY <1>3 DEF databaseVars
  <2>2. Types' /\ Exclusion'
    BY <2>1 DEF Inv, Types, Exclusion, locked
  <2>3. PICK a \in [Threads -> Accounts] : Accounted(a)
    BY DEF Inv
  <2>4. \A t \in Threads : Agrees(t, a[t])'
    <3> TAKE t \in Threads
    <3>1. Agrees(t, a[t])
      BY <2>3 DEF Accounted
    <3> QED
      BY <2>1, <3>1, OthersKeep, DropsSame
  <2>5. Accounted(a)'
    BY <2>1, <2>3, <2>4 DEF Accounted
  <2> QED
    BY <2>2, <2>3, <2>5 DEF Inv
<1> QED
  BY <1>1, <1>2, <1>3 DEF DatabaseNext

\* By the invariant, the locks exclude and the variables have their types.
LEMMA InvType ==
  ASSUME Inv
  PROVE  DatabaseTypeOK
<1>1. PICK a \in [Threads -> Accounts] : Accounted(a)
  BY DEF Inv
<1>2. ASSUME NEW t \in Threads, steps[t] = <<>>, NEW db \in DBs PROVE t \notin readers[db]
  <2>1. PICK b \in Accounts : b.reading = Nobody /\ Runs(t, <<>>, a[t], b)
    BY <1>1, <1>2 DEF Accounted
  <2>2. Settles(a[t], b)
    <3>1. PICK W \in [0 .. Len(<<>>) -> Accounts] : W[0] = a[t] /\ Settles(W[Len(<<>>)], b)
      BY <2>1 DEF Runs
    <3>2. Len(<<>>) = 0
      OBVIOUS
    <3> QED
      BY <3>1, <3>2
  <2>3. b.reading = a[t].reading
    BY <2>2 DEF Settles, InFile, Accounts
  <2>4. LocksAgree(t, a[t]) /\ Nobody \notin DBs
    BY <1>1, DatabasesAssumption DEF Accounted, Agrees
  <2> QED
    BY <2>1, <2>3, <2>4 DEF LocksAgree
<1>3. Types /\ Exclusion
  BY DEF Inv
<1> QED
  BY <1>2, <1>3 DEF Types, Exclusion, DatabaseTypeOK

\* By the invariant, an iterator is of one table.
LEMMA InvIterators ==
  ASSUME Inv
  PROVE  IteratorsSeeOneTable
BY DEF Inv, Accounted, Agrees, LocksAgree, SeesOneTable, IteratorsSeeOneTable

\* By the invariant, a file is in its table as a whole or not at all.
LEMMA InvReads ==
  ASSUME Inv
  PROVE  ReadsAreAllOrNothing
<1>1. PICK a \in [Threads -> Accounts] : Accounted(a)
  BY DEF Inv
<1>2. Types /\ Exclusion
  BY DEF Inv
<1>3. ASSUME NEW t \in Threads, Reads(t)
      PROVE  /\ a[t] \in Accounts /\ AnswersAgree(t, a[t]) /\ LocksAgree(t, a[t])
             /\ RowsAgree(t, a[t]) /\ a[t].kind \in {"reads", "copies"}
             /\ a[t].kind = "reads" <=> req[t].cmd = "read_csv"
  <2>1. Agrees(t, a[t])
    BY <1>1 DEF Accounted
  <2>2. a[t].kind \in {"reads", "copies"} /\ (a[t].kind = "reads" <=> req[t].cmd = "read_csv")
    BY <1>3, <2>1 DEF Agrees, AnswersAgree, Kind, Reads
  <2> QED
    BY <2>1, <2>2 DEF Agrees
<1>4. \A t \in Threads : \A db \in DBs :
        RowsThere(t, db) = IF tx[db].open THEN Mine(t, tx[db].saved) ELSE Mine(t, tables[db])
  BY DEF RowsThere, committed, Mine
<1>5. FailedReadsLeaveNothing
  <2> SUFFICES ASSUME NEW t \in Threads, Reads(t), NEW db \in DBs, Dialect[db] # "mysql"
               PROVE  /\ RowsThere(t, db) \in {{}, RowsWanted(t)}
                      /\ answers[t] = <<"error">> /\ req[t].cmd = "read_csv" => RowsThere(t, db) = {}
    BY DEF FailedReadsLeaveNothing
  <2>1. RowsAgree(t, a[t]) /\ a[t] \in Accounts /\ LocksAgree(t, a[t])
    BY <1>3
  <2>2. CASE a[t].stage \in {"before", "bulks"}
    <3>1. NoneThere(t, db)
      BY <2>1, <2>2 DEF RowsAgree, RowsBefore, RowsInBulks
    <3> QED
      BY <1>4, <3>1 DEF NoneThere
  <2>3. CASE a[t].stage = "inside"
    <3>1. RowsInside(t, a[t]) /\ tx[a[t].own].open
      BY <2>1, <2>3 DEF RowsAgree, LocksAgree
    <3>2. CASE db = a[t].own
      BY <1>4, <3>1, <3>2 DEF RowsInside
    <3>3. CASE db # a[t].own
      BY <1>4, <3>1, <3>3 DEF RowsInside, NoneThere
    <3> QED
      BY <3>2, <3>3
  <2>4. CASE a[t].stage = "stored"
    <3>1. RowsStored(t, a[t])
      BY <2>1, <2>4 DEF RowsAgree
    <3>2. req[t].cmd = "read_csv" => a[t].kind = "reads"
      BY <1>3
    <3> QED
      BY <1>4, <3>1, <3>2 DEF RowsStored, NoneThere
  <2> QED
    BY <2>1, <2>2, <2>3, <2>4 DEF Accounts
<1>6. SuccessfulReadsAreStored
  <2> SUFFICES ASSUME NEW t \in Threads, Reads(t), ~ IntoPostgres(t), answers[t] # <<>>,
                      answers[t][1] = "Success!", NobodyDrops(t)
               PROVE  \E db \in DBs : RowsWanted(t) \subseteq RowsThere(t, db)
    BY DEF SuccessfulReadsAreStored, NobodyDrops
  <2>1. RowsAgree(t, a[t]) /\ AnswersAgree(t, a[t])
    BY <1>3
  <2>2. ~ Lax(req[t])
    BY DEF IntoPostgres, Lax
  <2>3. a[t].stage = "stored"
    BY <2>1, <2>2 DEF AnswersAgree
  <2>4. RowsStored(t, a[t])
    BY <2>1, <2>3 DEF RowsAgree
  <2> QED
    BY <1>4, <2>4 DEF RowsStored
<1> QED
  BY <1>5, <1>6 DEF ReadsAreAllOrNothing

\* The invariant holds in every reachable state.
LEMMA SpecInv == DatabaseSpec => []Inv
<1>1. DatabaseInit => Inv
  BY InitInv
<1>2. Inv /\ [DatabaseNext]_databaseVars => Inv'
  BY NextKeeps
<1> QED
  BY <1>1, <1>2, PTL DEF DatabaseSpec

\* At every moment a connection of SQLite has one writer or readers, only it has
\* transactions, and a thread that has no steps left holds no read lock: every
\* iterator that a handler of DatabaseManager opens is used up or closed, also
\* when the handler fails.
THEOREM DatabaseTypeCorrect == DatabaseSpec => []DatabaseTypeOK
<1>1. Inv => DatabaseTypeOK
  BY InvType
<1> QED
  BY <1>1, SpecInv, PTL

\* An iterator returns, row by row, the table it was made on (Sqlite3Iterator,
\* MySQLIterator, PostgresIterator): that of SQLite because no statement and no line
\* of a file gets past its read lock.
THEOREM IteratorsConsistent == DatabaseSpec => []IteratorsSeeOneTable
<1>1. Inv => IteratorsSeeOneTable
  BY InvIterators
<1> QED
  BY <1>1, SpecInv, PTL

\* A file is in a table of SQLite or Postgres as a whole or not at all, not at all
\* when the client was told that reading it failed, and in a table when it was
\* told that it was read (Sqlite3::read, MySQL::read, Postgres::read), for any
\* number of threads, databases, requests and lines.
THEOREM ReadsAtomic == DatabaseSpec => []ReadsAreAllOrNothing
<1>1. Inv => ReadsAreAllOrNothing
  BY InvReads
<1> QED
  BY <1>1, SpecInv, PTL
=============================================================================
