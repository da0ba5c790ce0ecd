------------------------------ MODULE Databases ------------------------------
(***************************************************************************)
(* The connections to databases (database/Sqlite3.cpp, MySQL.cpp,          *)
(* Postgres.cpp and their iterators) and the requests on them              *)
(* (engine/handlers/DatabaseManager.cpp), handled by concurrent threads.   *)
(*                                                                         *)
(* A handler is the sequence of steps it takes on the connections, each of *)
(* them atomic because it holds a lock or is one statement.  A thread that *)
(* fails runs what its handlers of exceptions do (catch) and answers with  *)
(* an error.                                                               *)
(*                                                                         *)
(* An SQLite connection is one connection for all threads, behind a        *)
(* read-write lock that gives up after a second, and a transaction on it   *)
(* is everybody's.  MySQL and Postgres connect anew for every statement.   *)
(*                                                                         *)
(* A row of a table says which line of which thread it comes from.         *)
(***************************************************************************)
EXTENDS Integers, FiniteSetsExt, SequencesExt

CONSTANTS Threads,
          DBs,  \* the databases there are
          Dialect,     \* the dialect of every database
          Connected,   \* the database of every connection in the beginning
          Stored,      \* the rows in the table of every database in the beginning
          Requests,    \* what every thread may be asked
          BulkSize,    \* lines per INSERT of MySQL (100000)
          FetchSize,   \* rows per FETCH of Postgres (10000)
          Nobody

VARIABLES connector_map,  \* the database of every connection
          tables,         \* the rows of the tables of every database
          tx,             \* SQLite: whether a transaction is open, what it started from
          readers,        \* who holds the read lock of a database
          writer,         \* who holds its write lock
          posting,        \* who holds the read lock of the manager
          steps,          \* what every thread has left to do
          catch,          \* what it does when it fails
          seen,           \* what its iterator has returned, and what it was opened on
          posted,         \* the tables every thread has listed, and the monitor's
          answers,        \* what every thread has sent to its client
          req             \* what every thread was asked

databaseVars == <<connector_map, tables, tx, readers, writer, posting, steps, catch,
          seen, posted, answers, req>>

locks == <<readers, writer, posting>>

Connections == DOMAIN Connected

Row(t, i) == <<t, i>>

OldRows == UNION {Range(Stored[db]) : db \in DBs}

NoTable == <<Row(Nobody, -1)>>

NotAsked == [cmd |-> "none"]

\* The requests a thread may be asked.  Statements that clients write themselves
\* neither open nor end transactions.  There is always the connection "default".
WellFormed(r) ==
  CASE r.cmd \in {"describe_connection", "list_connections", "refresh", "sniff_csv"} -> TRUE
    [] r.cmd = "copy_table" -> {r.source, r.conn} \subseteq Connections /\ "lines" \notin DOMAIN r
    [] r.cmd = "execute"    -> /\ r.conn \in Connections
                               /\ r.queries \in Seq({"SELECT", "INSERT", "CREATE", "DROP"})
    [] r.cmd = "new_db"     -> r.conn \in Connections /\ r.db \in DBs
    [] r.cmd = "read_csv"   -> /\ r.conn \in Connections /\ "lines" \in DOMAIN r
                               /\ r.lines \in Seq({"row", "bad", "empty"})
    [] r.cmd \in {"drop_table", "get", "get_colnames", "get_content", "get_nrows",
                  "list_tables", "sniff_query", "sniff_table"} -> r.conn \in Connections
    [] OTHER -> FALSE

ASSUME DatabasesAssumption ==
  /\ Nobody \notin Threads \cup DBs
  /\ IsFiniteSet(Connections) /\ Connections # {}
  /\ Connected \in [Connections -> DBs]
  /\ Dialect \in [DBs -> {"sqlite3", "mysql", "postgres"}]
  /\ Stored \in [DBs -> Seq(OldRows)]
  /\ \A row \in OldRows : row[1] \notin Threads
  /\ \A t \in Threads : \A r \in Requests[t] : WellFormed(r)
  /\ {BulkSize, FetchSize} \subseteq Nat \ {0}

-----------------------------------------------------------------------------
(* The steps.  A file is a sequence of lines: a row, a line the database    *)
(* refuses ("bad"), or an empty line.                                       *)

Step(op, db, what) == [op |-> op, db |-> db, what |-> what]

\* Rows of the lines from first to last.
RowsOf(t, lines, first, last) ==
  FlattenSeq([k \in 1..(last - first + 1) |->
                LET i == first + k - 1
                IN  IF lines[i] = "empty" THEN <<>> ELSE <<Row(t, i)>>])

execute(db, statement) == <<Step("execute", db, statement)>>
get_colnames_from_table(db) == <<Step("look", db, "colnames")>>
get_coltypes_from_table(db) == <<Step("look", db, "coltypes")>>
make_insert_statement(db) == <<Step("look", db, "insert")>>
check_colnames(db, r) == IF r.header THEN <<>> ELSE <<Step("throw", db, "colnames")>>

insert_line(db, t, i, line) ==
  CASE line = "empty" -> <<>>
    [] line = "bad"   -> <<Step("throw", db, "insert")>>
    [] OTHER          -> <<Step("insert", db, <<Row(t, i)>>)>>

\* A mutant: the lines are inserted without a transaction.
sqlite_read_autocommit(db, t, r) ==
  get_colnames_from_table(db) \o get_coltypes_from_table(db)
    \o make_insert_statement(db) \o check_colnames(db, r)
    \o <<Step("lock", db, "write")>>
    \o FlattenSeq([i \in DOMAIN r.lines |-> insert_line(db, t, i, r.lines[i])])
    \o <<Step("unlock", db, "write")>>

\* Sqlite3::read.  What follows BEGIN is in a try block.
sqlite_read(db, t, r) ==
  get_colnames_from_table(db) \o get_coltypes_from_table(db)
    \o make_insert_statement(db) \o check_colnames(db, r)
    \o execute(db, "BEGIN")
    \o <<Step("try", db, "ROLLBACK"), Step("lock", db, "write")>>
    \o FlattenSeq([i \in DOMAIN r.lines |-> insert_line(db, t, i, r.lines[i])])
    \o <<Step("unlock", db, "write")>>
    \o execute(db, "COMMIT")
    \o <<Step("end try", db, "")>>

\* MySQL::read.  The transaction is opened on a connection of its own, which
\* is closed at once: every bulk commits itself.
make_bulk_insert_query(db, t, lines, first, last) ==
  IF RowsOf(t, lines, first, last) = <<>> \/ (\E i \in first..last : lines[i] = "bad")
  THEN <<Step("throw", db, "insert")>>
  ELSE <<Step("append", db, RowsOf(t, lines, first, last))>>

Bulks(n) == (n + BulkSize - 1) \div BulkSize

mysql_read(db, t, r) ==
  get_colnames_from_table(db) \o get_coltypes_from_table(db) \o check_colnames(db, r)
    \o FlattenSeq([b \in 1..Bulks(Len(r.lines)) |->
                     make_bulk_insert_query(db, t, r.lines, (b - 1) * BulkSize + 1,
                                            Min({b * BulkSize, Len(r.lines)}))])

\* Postgres::read.  What the server says at the end of COPY is not looked at.
postgres_read(db, t, r) ==
  get_colnames_from_table(db) \o get_coltypes_from_table(db) \o check_colnames(db, r)
    \o (IF \E i \in DOMAIN r.lines : r.lines[i] = "bad" THEN <<>>
        ELSE <<Step("append", db, RowsOf(t, r.lines, 1, Len(r.lines)))>>)

read(db, t, r) ==
  CASE Dialect[db] = "sqlite3"  -> sqlite_read(db, t, r)
    [] Dialect[db] = "mysql"    -> mysql_read(db, t, r)
    [] Dialect[db] = "postgres" -> postgres_read(db, t, r)

\* An iterator over the table.
select(db) == <<Step("select", db, "")>>
rest_of_iterator(db) == <<Step("fetch", db, "")>>

\* SQLite cannot VACUUM within a transaction.
drop_table_statement(db) == execute(db, "DROP")

create_statement(db) == execute(db, "CREATE")

\* get_nrows counts; get_content reads a page.
get_nrows_steps(db) == select(db) \o <<Step("close", db, "")>>

get_content_steps(db, r) ==
  get_nrows_steps(db)
    \o (IF r.valid_page THEN <<>> ELSE <<Step("throw", db, "page")>>)
    \o get_colnames_from_table(db) \o select(db) \o rest_of_iterator(db)

list_tables_step(c) == <<Step("list", c, "")>>

-----------------------------------------------------------------------------
(* DatabaseManager.  A handler looks up the connection when it starts to    *)
(* use it: connector(conn_id).                                              *)

connector(conn_id) == connector_map[conn_id]

send(what) == <<Step("send", "", what)>>

post_tables ==
  <<Step("enter", "", "post")>>
    \o FlattenSeq([i \in DOMAIN SetToSeq(Connections) |->
                     list_tables_step(SetToSeq(Connections)[i])])
    \o <<Step("leave", "", "post")>>

sniff_table_steps(db) == get_colnames_from_table(db) \o get_coltypes_from_table(db)

copy_table(t, r) ==
  LET source_conn == connector(r.source)
      target_conn == connector(r.conn)
  IN IF r.source = r.conn THEN <<Step("throw", source_conn, "same")>>
     ELSE sniff_table_steps(source_conn)
            \o create_statement(target_conn)
            \o get_colnames_from_table(source_conn)
            \o select(source_conn)
            \o <<Step("copy", target_conn, source_conn)>>
            \o <<Step("close", source_conn, "")>>
            \o send("Success!")
            \o post_tables

drop_table(t, r) == drop_table_statement(connector(r.conn)) \o post_tables \o send("Success!")

describe_connection(t, r) == send("Success!")

\* The queries one after the other.
execute_queries(t, r) ==
  FlattenSeq([i \in DOMAIN r.queries |-> execute(connector(r.conn), r.queries[i])])
    \o post_tables \o send("Success!")

get(t, r) ==
  select(connector(r.conn)) \o rest_of_iterator(connector(r.conn)) \o send("Success!")

get_colnames(t, r) == get_colnames_from_table(connector(r.conn)) \o send("Success!")

get_content(t, r) == get_content_steps(connector(r.conn), r) \o send("Success!")

get_nrows(t, r) == get_nrows_steps(connector(r.conn)) \o send("Success!")

list_connections(t, r) == send("Success!")

list_tables(t, r) == list_tables_step(r.conn) \o send("Success!")

new_db(t, r) == <<Step("new_db", r.conn, r.db)>> \o post_tables \o send("Success!")

read_csv(t, r) == read(connector(r.conn), t, r) \o send("Success!")

refresh(t, r) == post_tables \o send("Success!")

sniff_csv(t, r) == send("Success!")

\* SQLite does not know the types of a query.
sniff_query(t, r) ==
  LET db == connector(r.conn)
  IN get_colnames_from_table(db)
       \o (IF Dialect[db] = "sqlite3" THEN <<Step("throw", db, "types")>>
           ELSE get_coltypes_from_table(db))
       \o send("Success!")

sniff_table(t, r) == sniff_table_steps(connector(r.conn)) \o send("Success!")

execute_command(t, r) ==
  CASE r.cmd = "copy_table"          -> copy_table(t, r)
    [] r.cmd = "describe_connection" -> describe_connection(t, r)
    [] r.cmd = "drop_table"          -> drop_table(t, r)
    [] r.cmd = "execute"             -> execute_queries(t, r)
    [] r.cmd = "get"                 -> get(t, r)
    [] r.cmd = "get_colnames"        -> get_colnames(t, r)
    [] r.cmd = "get_content"         -> get_content(t, r)
    [] r.cmd = "get_nrows"           -> get_nrows(t, r)
    [] r.cmd = "list_connections"    -> list_connections(t, r)
    [] r.cmd = "list_tables"         -> list_tables(t, r)
    [] r.cmd = "new_db"              -> new_db(t, r)
    [] r.cmd = "read_csv"            -> read_csv(t, r)
    [] r.cmd = "refresh"             -> refresh(t, r)
    [] r.cmd = "sniff_csv"           -> sniff_csv(t, r)
    [] r.cmd = "sniff_query"         -> sniff_query(t, r)
    [] r.cmd = "sniff_table"         -> sniff_table(t, r)

-----------------------------------------------------------------------------
(* Locks: only those of SQLite *)

locked(db) == Dialect[db] = "sqlite3"

may_read(db) == locked(db) => writer[db] = Nobody

may_write(db) == locked(db) => writer[db] = Nobody /\ readers[db] = {}

may_go(s) ==
  CASE s.op \in {"look", "select"}   -> may_read(s.db)
    [] s.op = "list"                 -> may_read(connector(s.db))
    [] s.op \in {"execute", "lock"}  -> may_write(s.db)
    [] s.op = "new_db"               -> posting = {}
    [] OTHER                         -> TRUE

\* A mutant: every write lock is waited for as long as it takes.
patient_writer(s) == s.op \in {"lock", "new_db", "execute"}

\* These wait as long as it takes.
patient(s) == s.op \in {"lock", "new_db"}

Goto(t, rest) == steps' = [steps EXCEPT ![t] = rest]

Advance(t) == Goto(t, Tail(steps[t]))

Without(t) == [db \in DBs |-> readers[db] \ {t}]

\* An exception: inside of read what it holds itself is released and the
\* transaction rolled back; otherwise everything is released.
Throw(t) ==
  /\ writer' = [db \in DBs |-> IF writer[db] = t THEN Nobody ELSE writer[db]]
  /\ catch' = [catch EXCEPT ![t] = Nobody]
  /\ IF catch[t] # Nobody
     THEN /\ Goto(t, execute(catch[t], "ROLLBACK") \o <<Step("throw", catch[t], "again")>>)
          /\ UNCHANGED <<readers, posting>>
     ELSE /\ Goto(t, send("error"))
          /\ readers' = Without(t)
          /\ posting' = posting \ {t}
  /\ UNCHANGED <<connector_map, tables, tx, seen, posted, answers, req>>

-----------------------------------------------------------------------------
(* One statement *)

exists(db) == tables[db] # NoTable

fails(db, statement) ==
  CASE statement = "BEGIN"                  -> tx[db].open
    [] statement \in {"COMMIT", "ROLLBACK"} -> ~tx[db].open
    [] statement \in {"DROP", "INSERT"}     -> ~exists(db)
    [] OTHER                                -> FALSE

\* Within a transaction the table is gone, but VACUUM fails.
throws(db, statement) ==
  fails(db, statement) \/ (statement = "DROP" /\ tx[db].open)

after(db, statement, t) ==
  IF fails(db, statement) THEN tables[db]
  ELSE CASE statement = "ROLLBACK" -> tx[db].saved
         [] statement = "CREATE"   -> <<>>
         [] statement = "DROP"     -> NoTable
         [] statement = "INSERT"   -> Append(tables[db], Row(t, 0))
         [] OTHER                  -> tables[db]

Execute(t) ==
  LET s == Head(steps[t])
  IN /\ s.op = "execute" /\ may_go(s)
     /\ tables' = [tables EXCEPT ![s.db] = after(s.db, s.what, t)]
     /\ tx' = [tx EXCEPT ![s.db] =
                 IF fails(s.db, s.what) THEN @
                 ELSE CASE s.what = "BEGIN" -> [open |-> TRUE, saved |-> tables[s.db]]
                        [] s.what \in {"COMMIT", "ROLLBACK"} ->
                             [open |-> FALSE, saved |-> <<>>]
                        [] OTHER -> @]
     /\ IF throws(s.db, s.what) THEN Goto(t, <<Step("throw", s.db, s.what)>>)
        ELSE Advance(t)
     /\ UNCHANGED <<connector_map, locks, catch, seen, posted, answers, req>>

\* What only needs the table to be there.
Look(t) ==
  LET s == Head(steps[t])
  IN /\ s.op = "look" /\ may_go(s)
     /\ IF exists(s.db) THEN Advance(t) ELSE Goto(t, <<Step("throw", s.db, s.what)>>)
     /\ UNCHANGED <<connector_map, tables, tx, locks, catch, seen, posted, answers, req>>

Fails(t) == Head(steps[t]).op = "throw" /\ Throw(t)

\* A lock that is waited for for a second.
TimeOut(t) ==
  /\ ~may_go(Head(steps[t])) /\ ~patient(Head(steps[t]))
  /\ Throw(t)

-----------------------------------------------------------------------------
(* The steps of read *)

Try(t) ==
  LET s == Head(steps[t])
  IN /\ s.op \in {"try", "end try"}
     /\ catch' = [catch EXCEPT ![t] = IF s.op = "try" THEN s.db ELSE Nobody]
     /\ Advance(t)
     /\ UNCHANGED <<connector_map, tables, tx, locks, seen, posted, answers, req>>

Lock(t) ==
  LET s == Head(steps[t])
  IN /\ s.op = "lock" /\ may_go(s)
     /\ writer' = [writer EXCEPT ![s.db] = t]
     /\ Advance(t)
     /\ UNCHANGED <<connector_map, tables, tx, readers, posting, catch, seen, posted,
                    answers, req>>

Unlock(t) ==
  LET s == Head(steps[t])
  IN /\ s.op = "unlock"
     /\ writer' = [writer EXCEPT ![s.db] = Nobody]
     /\ Advance(t)
     /\ UNCHANGED <<connector_map, tables, tx, readers, posting, catch, seen, posted,
                    answers, req>>

\* A line of SQLite, a bulk of MySQL, a COPY of Postgres.
Insert(t) ==
  LET s == Head(steps[t])
  IN /\ s.op \in {"insert", "append"}
     /\ IF ~exists(s.db)
        THEN Goto(t, <<Step("throw", s.db, "insert")>>) /\ UNCHANGED tables
        ELSE /\ Advance(t)
             /\ tables' = [tables EXCEPT ![s.db] = @ \o s.what]
     /\ UNCHANGED <<connector_map, tx, locks, catch, seen, posted, answers, req>>

\* The reader of copy_table is the iterator over the source.
Copy(t) ==
  LET s == Head(steps[t])
      copied == [cmd |-> "copy_table", header |-> TRUE,
                 lines |-> [i \in DOMAIN seen[t].at |-> "row"]]
  IN /\ s.op = "copy"
     /\ req' = [req EXCEPT ![t] = copied]
     /\ Goto(t, read(s.db, t, copied) \o Tail(steps[t]))
     /\ UNCHANGED <<connector_map, tables, tx, locks, catch, seen, posted, answers>>

-----------------------------------------------------------------------------
(* Iterators.  That of SQLite holds the read lock and steps through the     *)
(* table; MySQL has fetched everything; Postgres fetches from a cursor.     *)

Closed == [at |-> <<>>, rows |-> <<>>]

\* A mutant: the read lock is released when the iterator has been made.
Select_unlocked(t) ==
  LET s == Head(steps[t])
  IN /\ s.op = "select" /\ may_go(s)
     /\ IF ~exists(s.db)
        THEN Goto(t, <<Step("throw", s.db, "select")>>) /\ UNCHANGED <<readers, seen>>
        ELSE /\ seen' = [seen EXCEPT ![t] = [at |-> tables[s.db], rows |-> <<>>]]
             /\ Advance(t)
             /\ UNCHANGED readers
     /\ UNCHANGED <<connector_map, tables, tx, writer, posting, catch, posted, answers,
                    req>>

Select(t) ==
  LET s == Head(steps[t])
  IN /\ s.op = "select" /\ may_go(s)
     /\ IF ~exists(s.db)
        THEN Goto(t, <<Step("throw", s.db, "select")>>) /\ UNCHANGED <<readers, seen>>
        ELSE /\ readers' = [readers EXCEPT ![s.db] = IF locked(s.db) THEN @ \cup {t} ELSE @]
             /\ seen' = [seen EXCEPT ![t] = [at |-> tables[s.db], rows |-> <<>>]]
             /\ Advance(t)
     /\ UNCHANGED <<connector_map, tables, tx, writer, posting, catch, posted, answers,
                    req>>

\* PostgresIterator reads the last value of a block through a pointer into the
\* block, after it has fetched the next one in its place.
get_value(db, rows, i) ==
  IF Dialect[db] = "postgres" /\ (i % FetchSize = 0 \/ i = Len(rows))
  THEN {rows[i], Row(Nobody, 0)} ELSE {rows[i]}

Fetch(t) ==
  LET s == Head(steps[t])
      rows == IF locked(s.db) THEN tables[s.db] ELSE seen[t].at
      i == Len(seen[t].rows) + 1
  IN /\ s.op = "fetch"
     /\ IF i > Len(rows)
        THEN /\ readers' = [readers EXCEPT ![s.db] = @ \ {t}]
             /\ Advance(t)
             /\ UNCHANGED seen
        ELSE /\ \E row \in get_value(s.db, rows, i) :
                  seen' = [seen EXCEPT ![t].rows = Append(@, row)]
             /\ UNCHANGED <<readers, steps>>
     /\ UNCHANGED <<connector_map, tables, tx, writer, posting, catch, posted, answers,
                    req>>

Close(t) ==
  LET s == Head(steps[t])
  IN /\ s.op = "close"
     /\ readers' = [readers EXCEPT ![s.db] = @ \ {t}]
     /\ Advance(t)
     /\ UNCHANGED <<connector_map, tables, tx, writer, posting, catch, seen, posted,
                    answers, req>>

-----------------------------------------------------------------------------
(* The manager *)

\* post_tables holds the read lock of the manager until the monitor has the
\* tables.
Enter(t) ==
  LET s == Head(steps[t])
  IN /\ s.op \in {"enter", "leave"}
     /\ posting' = IF s.op = "enter" THEN posting \cup {t} ELSE posting \ {t}
     /\ posted' = IF s.op = "enter" THEN [posted EXCEPT ![t] = {}]
                  ELSE [posted EXCEPT ![Nobody] = posted[t]]
     /\ Advance(t)
     /\ UNCHANGED <<connector_map, tables, tx, readers, writer, catch, seen, answers, req>>

List(t) ==
  LET s == Head(steps[t])
  IN /\ s.op = "list" /\ may_go(s)
     /\ posted' = [posted EXCEPT ![t] =
                     IF exists(connector(s.db)) THEN @ \cup {s.db} ELSE @]
     /\ Advance(t)
     /\ UNCHANGED <<connector_map, tables, tx, locks, catch, seen, answers, req>>

\* Handlers that have the old connector go on using it.
NewDB(t) ==
  LET s == Head(steps[t])
  IN /\ s.op = "new_db" /\ may_go(s)
     /\ connector_map' = [connector_map EXCEPT ![s.db] = s.what]
     /\ Advance(t)
     /\ UNCHANGED <<tables, tx, locks, catch, seen, posted, answers, req>>

Send(t) ==
  LET s == Head(steps[t])
  IN /\ s.op = "send"
     /\ answers' = [answers EXCEPT ![t] = Append(@, s.what)]
     /\ Advance(t)
     /\ UNCHANGED <<connector_map, tables, tx, locks, catch, seen, posted, req>>

Begin(t) ==
  /\ req[t] = NotAsked
  /\ \E r \in Requests[t] :
       /\ req' = [req EXCEPT ![t] = r]
       /\ Goto(t, execute_command(t, r))
  /\ UNCHANGED <<connector_map, tables, tx, locks, catch, seen, posted, answers>>

DatabaseInit ==
  /\ connector_map = Connected
  /\ tables = Stored
  /\ tx = [db \in DBs |-> [open |-> FALSE, saved |-> <<>>]]
  /\ readers = [db \in DBs |-> {}]
  /\ writer = [db \in DBs |-> Nobody]
  /\ posting = {}
  /\ steps = [t \in Threads |-> <<>>]
  /\ catch = [t \in Threads |-> Nobody]
  /\ seen = [t \in Threads |-> Closed]
  /\ posted = [t \in Threads \cup {Nobody} |-> {}]
  /\ answers = [t \in Threads |-> <<>>]
  /\ req = [t \in Threads |-> NotAsked]

Act(t) ==
  /\ steps[t] # <<>>
  /\ \/ Execute(t)
     \/ Look(t)
     \/ Fails(t)
     \/ TimeOut(t)
     \/ Try(t)
     \/ Lock(t)
     \/ Unlock(t)
     \/ Insert(t)
     \/ Copy(t)
     \/ Select(t)
     \/ Fetch(t)
     \/ Close(t)
     \/ Enter(t)
     \/ List(t)
     \/ NewDB(t)
     \/ Send(t)

DatabaseNext == \E t \in Threads : Begin(t) \/ Act(t)

\* A thread goes on as long as it can, and a lock is waited for for a second.
DatabaseSpec ==
  /\ DatabaseInit /\ [][DatabaseNext]_databaseVars
  /\ \A t \in Threads : WF_databaseVars(Act(t))

-----------------------------------------------------------------------------
(* Properties *)

DatabaseTypeOK ==
  /\ \A db \in DBs :
       /\ readers[db] \subseteq Threads
       /\ writer[db] \in Threads \cup {Nobody}
       /\ tx[db].open => locked(db)
       /\ writer[db] # Nobody => readers[db] = {}
  /\ posting \subseteq Threads
  /\ \A t \in Threads : steps[t] = <<>> => ~ \E db \in DBs : t \in readers[db]

\* What would be left if the program stopped now.
committed(db) == IF tx[db].open THEN tx[db].saved ELSE tables[db]

Reads(t) == req[t].cmd \in {"read_csv", "copy_table"} /\ "lines" \in DOMAIN req[t]

RowsWanted(t) == {Row(t, i) : i \in {j \in DOMAIN req[t].lines : req[t].lines[j] = "row"}}

RowsThere(t, db) == {row \in Range(committed(db)) : row[1] = t}

\* A file is in the table completely or not at all, whatever other threads do
\* to the connection they share and whoever waits too long for its lock, and
\* not at all when its reader has failed.  MySQL::read opens its transaction on
\* another connection and is left out.
FailedReadsLeaveNothing ==
  \A t \in Threads : Reads(t) =>
    \A db \in DBs : Dialect[db] # "mysql" =>
      /\ RowsThere(t, db) \in {{}, RowsWanted(t)}
      /\ answers[t] = <<"error">> /\ req[t].cmd = "read_csv" => RowsThere(t, db) = {}

\* The databases a connection may lead to.
LeadsTo(conn, db) ==
  \/ Connected[conn] = db
  \/ \E u \in Threads : \E r \in Requests[u] : r.cmd = "new_db" /\ r.conn = conn /\ r.db = db

IntoPostgres(t) ==
  /\ req[t].cmd = "read_csv"
  /\ \E db \in DBs : Dialect[db] = "postgres" /\ LeadsTo(req[t].conn, db)

\* Requests that drop a table or make a new one in its place.
Drops(u) ==
  \/ req[u].cmd \in {"drop_table", "copy_table"}
  \/ req[u].cmd = "execute" /\ Range(req[u].queries) \cap {"DROP", "CREATE"} # {}

\* A file that is reported as read is in the table, until somebody drops it.
\* Postgres::read does not look at what the server says in the end and is left
\* out.
SuccessfulReadsAreStored ==
  \A t \in Threads :
    /\ Reads(t) /\ ~IntoPostgres(t)
    /\ answers[t] # <<>> /\ answers[t][1] = "Success!"
    /\ \A u \in Threads \ {t} : ~Drops(u)
    => \E db \in DBs : RowsWanted(t) \subseteq RowsThere(t, db)

\* A file is in the table of a database completely or not at all, and in it when
\* the client was told so (Sqlite3::read, MySQL::read, Postgres::read).
ReadsAreAllOrNothing == FailedReadsLeaveNothing /\ SuccessfulReadsAreStored

\* An iterator over a table returns the rows the table had when it was made
\* (Sqlite3Iterator, MySQLIterator), whatever other threads do to the table.
\* That of Postgres may return a row that it has fetched over.
IteratorsSeeOneTable ==
  \A t \in Threads : \A i \in DOMAIN seen[t].rows :
    \/ seen[t].rows[i] = Row(Nobody, 0)
    \/ i \in DOMAIN seen[t].at /\ seen[t].rows[i] = seen[t].at[i]

\* Every request is answered: whoever holds a lock of one connection while it
\* waits for another gives up in time.
EveryRequestIsAnswered ==
  \A t \in Threads : (req[t] # NotAsked) ~> (answers[t] # <<>>)

=============================================================================
