# TLA+ models of the getML engine

These modules model the C++ engine of the getML community edition
(`src/src/engine`): the concurrent core that all requests share, the components
that keep and read data, and those that make features and learn from them. TLC
checks them on small instances; for the read-write lock, the memory pool, the
data frames (their columns and indices, and the protocol of the requests on them),
the memory-mapped encoding, the databases, the matching of rows and the requests on
pipelines, TLAPS proves what the runs check for every value of the constants.

Paths below are relative to `src/src/engine`, unless they say otherwise. The
engine is modelled as it is shipped, built with `NDEBUG`: `assert_true` and
`assert_msg` do nothing, `throw_unless` throws.

## 1. The system

getML consists of a C++ engine, a Go application that starts it (`getml-app`)
and a Python client (`python-api`). The client opens one TCP connection per
request; the engine serves every connection in a thread of its own
(`RequestHandler::run`), and all threads share one set of maps, encodings and
trackers, under one read-write lock.

A client loads data into data frames (from files, databases, arrow tables or
views), defines a pipeline over them and fits it. `fit` stages the data frames
(to-one joins are executed, the rest of the data model becomes a tree of
placeholders), fits preprocessors, feature learners, feature selectors and
predictors, each of which is looked up in a tracker first, and assigns the fitted
copy back to the map of pipelines. `transform` repeats the stages with what was
fitted, may store its result as a data frame, and may score it.

| Component | State | Operations | Interacts with | Hard because |
|---|---|---|---|---|
| Read-write lock (`multithreading`) | two flags, three counters, a mutex, three condition variables | read, weak write, write (also with a timeout), upgrade, three unlocks | every handler; `Sqlite3` and `DatabaseManager` have locks of their own | unlocks change state and notify outside of the mutex; lost wake-ups; timeouts |
| Memory pool (`memmap`) | memory-mapped pages, list of free blocks | allocate, extend, move, deallocate, double the pool | columns, encodings, indices | arithmetic of blocks; remapping; full disk |
| Memory-mapped index (`memmap`) | nodes and vectors in a pool | insert, look up, clear | encodings, data frames | nodes are values that are copied while their vectors move |
| Encodings (`containers`) | strings with ids, on top of another encoding | look up and insert, append, save, load | data frames, preprocessors, handlers | ids given before others commit; colliding hashes |
| Data frames (`containers`, `DataFrameManager`, `FileHandler`) | map from names to frames; files | add, append, from CSV, Arrow, Parquet, database, query, JSON and view, concat, add column, freeze, delete, save, load | encodings, pool, lock | two steps per commit; crash between them and between files |
| Columns and views (`containers`, `ColumnManager`, `ViewManager`, parsers) | data by shared pointers; lazily evaluated functions that remember where they are | columns, selections, aggregations, content | data frames | copies share data; views of unknown length; accesses that change the view |
| Sockets and formats (`communication`, `io`, `ArrowHandler`) | none | send and receive; CSV, JSON, Arrow; sniff | data frames, databases | one value has many spellings and nulls |
| Database connections (`database`, `DatabaseManager`) | connectors; for SQLite one shared connection | execute, read, copy, iterate, sniff, drop | data frames, monitor | transactions of several critical sections; timeouts of one second |
| Pipelines (`PipelineManager`, `pipelines`) | map from names to pipelines | fit, transform, score, deploy, check, refresh, save, load, copy, delete | data frames, trackers, lock | copies that are assigned back much later; copies without lock |
| Project manager | the project's directory, `project_lock_` | set, delete, list project; load and save | everything above | lock order; restart |
| Trackers and staging (`dependency`, `staging`, `Macros`) | maps from fingerprints to fitted objects | add, retrieve, clear; join, name, rename | fit, transform | what is retrieved may be stale; names carry meaning |
| FastProp (`fastprop`, `helpers`, `tsindex`) | fitted features | fit, transform on several threads, importances, SQL | pipelines | memoization, caches, threads, time windows |
| Preprocessors, data model (`preprocessors`) | what they learned | fit, transform, SQL; checks of a data model | pipelines, encodings | transform has to repeat fit from memory |
| Predictors and metrics | what they learned; none | fit, predict, importances; scores, plots | pipelines | numerical edges |
| SQL transpilation | none | the code of a pipeline | all of the above | names have to agree with four other components |
| Request server, monitor, logger | a socket; a count of failed polls | dispatch, poll | every handler | a peer that is silent or gone |
| Communicator, Barrier, Spinlock, Reducer | a barrier, a buffer | all_reduce, broadcast | nobody: no code here constructs one | not run |
| getML app (Go), Python API | a process id; a client's view | start, stop; commands | engine | outside of the shared state |

What makes the components correct:

- *Lock*: exclusion according to the three modes; flags and counters that say
  the truth; nobody waits forever who need not.
- *Pool*: every page is free or belongs to exactly one vector; vectors keep
  their contents when blocks move and when the disk is full.
- *Index*: a key leads to exactly its rows, in the pool as in memory.
- *Encodings and data frames*: the id that a request gave to a string stands for
  that string in the global encoding after the commit, in every later state, on
  disk, and after a restart. A fingerprint of a frame stands for one content.
- *Formats and databases*: a cell that goes out and comes back is the same cell;
  a file is in a table completely or not at all.
- *Pipelines*: what is stored together belongs together; a deleted pipeline is
  not brought back; an answer that was given stays true; requests end.
- *Trackers*: what is retrieved is what would be computed.
- *Features*: what is computed on several threads, with everything that is
  remembered on the way, is what the SQL code of the feature says; no row is
  matched with the future.
- *Preprocessors*: transform makes the columns fit made.

`PROJECT.json` lists the hazards line by line, with the properties that cover
them or the reason why none does.

## 2. Modules

The shared core, where requests interleave:

| Module | Models | Used by |
|---|---|---|
| `RWLockSpec` | what the lock promises: a mode per thread, three actions | `ReadWriteLock` (implements it), `DataFrames`, `Pipelines` (are built on it) |
| `ReadWriteLock`, `ReadWriteLock_proofs` | `ReadWriteLock.hpp`, step by step, and theorems | |
| `FreeBlocksTracker` | `FreeBlocksTracker.cpp` as operators | `Pool` |
| `Pool`, `Pool_proofs` | `Pool.cpp`, `VectorImpl.hpp`, `Vector.hpp`, and theorems | |
| `Encoding` | `InMemoryEncoding.cpp` as operators | `DataFrames`, `MemoryMappedEncoding` |
| `DataFrames`, `DataFrames_proofs` | the protocol of `DataFrameManager.cpp`, the data frames of `ProjectManager.cpp`, `FileHandler.cpp`, `DataFrame::save`, crash and restart, and theorems | |
| `Pipelines` | `PipelineManager.cpp`, the pipelines of `ProjectManager.cpp`; theorems in `Learning_proofs` | |
| `RecursionTheorems` | induction over data for recursive functions; sequences that are joined of others | `Pool_proofs`, `DataFrames_proofs`, `Containers_proofs`, `Databases_proofs`, `Import_proofs`, `Learning_proofs` |

The components of data, composed in `MCData`:

| Module | Models |
|---|---|
| `BTree`, `MemmapIndex` | `memmap::BTree` with nodes by value in the pool; the index of row numbers |
| `MemoryMappedEncoding` | `MemoryMappedEncoding.cpp`, `StringVector` |
| `DataFrame` | `containers::DataFrame`, `Column`, the indices, `ViewParser.cpp`, the operations of requests |
| `Containers_proofs` | theorems about `MemoryMappedEncoding` and `DataFrame` |
| `ColumnView` | `ColumnView.hpp`, its iterator, the parsers of float, boolean and string expressions |
| `Aggregations`, `AggOpParser` | `helpers::Aggregations`, the aggregations of columns |
| `Formats`, `Arrow`, `Import` | cells as text; arrow arrays; CSV, JSON, database and arrow readers and writers, sniffing |
| `Databases` | `Sqlite3.cpp`, `MySQL.cpp`, `Postgres.cpp`, their iterators, `DatabaseManager.cpp` |
| `Import_proofs` | theorems about `Import`, with its `Formats` and `Arrow` |
| `Databases_proofs` | theorems about `Databases` |

The components of learning, composed in `MCLearning`:

| Module | Models |
|---|---|
| `TableHolder` | `TableHolder`, `Matchmaker`, `tsindex` |
| `Learning_proofs` | theorems about `TableHolder` and about `Pipelines` |
| `Aggregator`, `SQLMaker`, `FastProp` | the value of a feature; its SQL statement and what that means; finding, selecting and building features on threads, importances |
| `Macros`, `Staging` | the names the engine makes; placeholders, joins, the way back of importances |
| `Learners`, `PipelineFit` | what a pipeline is fitted with and the fingerprints; fit, check, transform, score, store, load |
| `SQLGenerator`, `DataModelChecking`, `Preprocessors` | staging tables in SQL; the warnings; every preprocessor |
| `Metrics` | scores, curves, the plots of columns |

`MC...` modules give the constants their values. `MCData` extends
`MemoryMappedEncoding`, `DataFrame`, `Databases` and `Import`, `MCLearning` extends
`TableHolder` and `Pipelines`, and `MCDataFrames` extends `DataFrames` and `Pool`, so that
TLC evaluates their assumptions and checks the very properties that are proved of them;
they instantiate the other components. The specifications are `PartSpec`, `LearningSpec`
and `StoredSpec`; that of `DataFrame` is `FrameSpec`, that of `Import` is `ImportSpec`,
that of `TableHolder` is `HolderSpec`, and that of `Pool` is `PoolSpec`.

**Composition.** Three kinds. *Through the lock*: `ReadWriteLock` is shown to
implement `RWLockSpec`, by TLC and by proof, and the handlers' modules take their
lock actions from an instance of `RWLockSpec`. So a state of the handlers' models
does not carry the mutex and the condition variables, and what they show about
safety holds on top of the lock as it is coded. It does not carry over for
liveness: see section 5. *By extension*: `FastProp` is built on `SQLMaker`,
`Aggregator` and `Aggregations`, `Preprocessors` on `DataModelChecking`,
`SQLGenerator` and `Macros`, as the code is. *Side by side*: `MCData` and
`MCLearning` instantiate components that do not call one another while they
work; a behaviour is one of a single component (`part`), and the properties say
what each owes to the others, as `NamesAgree` does for four of them.

### ReadWriteLock

A variable per member of the class, and per thread where it is (`pc`), what it
does (`op`) and its deadline (`timer`). An operation that locks consists of the
increment of its counter (`Request`, `Upgrade`), the evaluation of the predicate
under `mtx_` (`Check`), the step in which `wait` lets go of the mutex and sleeps
(`Block`), and the ways to wake up: a notification, `SpuriousWakeup`, `TimeOut`,
the last look at the predicate after a timeout (`LastCheck`). An unlock consists
of its change of the flag (`Clear`), the reads of the two counters and the
notification, each a step of its own because no mutex is held. The predicate is
evaluated in one step: the flags that it reads are only set under `mtx_`, and
those that are cleared outside can only make it true later.

`Mode` maps a state to the abstract lock: an unlock takes effect when it clears
its flag, and an upgrading thread is a weak writer until it has the lock.

### FreeBlocksTracker and Pool

Blocks have the code's `begin_` and exclusive `end_`. A tracker also remembers
what is *behind* the last element of its vector (`past`), because `free_block`
reads there; a slot that was never written to is a nondeterministic choice
(`junk`). `Size` is taken modulo 2^16 (`SizeWidth`), for `size_t`: a block whose
begin has moved past its end counts as a huge one, as it does in the code.

A vector's elements are abstracted to pages. `PushBack` stands for the calls that
fill one page, of which the first may need a larger block: it extends the block
in place, or allocates a new one (doubling the pool, up to twice), moves the
data, and gives the old block back, all in one action, as in the code.
`NewBlock` is also the path of the exception: when the disk is full, the
doublings that succeeded stay and the vector is as it was.

### Encoding and DataFrames

A data frame is the sequence of the ids in its categorical columns; the encoding
of join keys is treated by the code in the same way. Which column an id is in
does not matter to the properties, so adding a column and appending rows both
append ids, and an added column is taken to be new. A request that brings data
goes through `Begin` (weak lock, own encoding), `Build` or `BuildFails`,
`Upgrade`, and the two commits `CommitEncodings` and `CommitFrame`, in the order
of its handler: `append` and `add_column` to an existing frame change the frame
first, all others the encoding. Saving is four steps: remove the old directory,
rename the new one, truncate the file of strings, write string by string.
`Crash` is possible between any two steps; the restart is
`ProjectManager::set_project`.

Every frame carries `sent`, the strings that clients put into it. The program
has no such variable; it is what the properties compare with.

### Pipelines

A pipeline is its definition (`obj`), the flag `allow_http_`, the fit it carries
and the definition that fit was made with, and the fit its scores are about. A
thread has two lock objects at most: `transform` and `save_pipeline` take a read
lock on top of their weak lock. So the parties of the lock are pairs of a thread
and `outer` or `nested`. `Peek` is the copy without lock (`pipelines()` returns
a reference after its `ReadLock` has ended): while another thread assigns, it
may copy any mixture of the old and the new pipeline, and `raced` notes it.

### BTree, MemmapIndex, MemoryMappedEncoding

A node is three vectors, and a vector a page number and a size, both passed by
value, as `VectorImpl` and `BTreeNode` are. The vector of children holds copies
of nodes; when a vector moves, the copies that were made before are stale, and
the model returns the pool and the node of every operation so that a copy that
is not written back shows. `Pool` models what the pool does with blocks; here a
vector that outgrows its page always moves.

In the encoding the tree is a function from hashes to elements of `rownums_`,
where an element is an id or, after a collision, a vector of ids. `issued` and
`promised` are the ids that were handed out, with the strings they stood for.

### DataFrame, ColumnView, Aggregations

`DataFrame` has a heap: columns and the maps of indices are held by shared
pointers, and a copy of a frame shares both while its indices keep their own
record of how far they got (`begin_`). A request is one action on the frame it
names, with the exception that ended it, if any; its atomicity is that of the
write lock (`DataFrames`). `known` remembers the content of every fingerprint.

A view in `ColumnView` is the function object of the code: an operator that takes
a row number and returns the value and the view after the access, because a
boolean selection keeps its position. `Meaning` defines what an expression
denotes, without views; it is what reads are compared with.

Numbers in `Aggregations` are rationals in lowest terms, so that sums and
quotients are exact; roots are left out (a standard deviation is represented by
its square). The definitions of `AggOpParser` are those of a textbook and share
nothing with the one-pass and two-pass algorithms that they are compared with.

### Formats, Arrow, Import, Databases

A string is a sequence of tokens, so that separators, quotes, blanks and line
feeds are where the readers look for them, and everything between is one token.
`Import` takes a frame out (CSV, JSON, a table, an arrow table) and in again; a
copy has the way it went (`copy.from`).

`IsDataFrame` says what a data frame is: columns of strings and of numbers, found by
different names, of one length, as `check_plausibility` asks of them. Numbers stand
for the floats that the readers tell apart: not a number, and the naturals, in ticks of
an eighth. What floating point does to them is in parameters: a number printed
with 16 or 15 digits (`Digits`) or at most four decimals (`Decimals`), a time stamp cut
to microseconds (`Micros`), multiplied to nanoseconds (`Nanos`) and to seconds again
(`Multiplied`). A cell of a file or a table is then what its text says (`AsText`), not what
it was; `Rounds` says that a time stamp that went to and fro is at most `ULP` away, and
a text of four decimals or microseconds at most `DIGIT`. In the runs each of them loses
something. A null string and the text NULL are two strings, `str_of` makes the second
of the first, and only readers that call `parse_null` make the first of the second;
`BYTES` are bytes that are not UTF-8. `FitsArrow` leaves out time stamps that 64 bits of
nanoseconds cannot hold, and `FitsText` strings that no writer and reader of the
code keep apart: a string that is the null of a database, and names of columns that
are empty, have blanks at their ends, or hold quotation marks, bells or line feeds.
`ReadsTimes` says that the time formats of a request have those among them that the
engine writes. All of them are part of `ImportAssumption`, which TLC evaluates in the run
`data`. Cells of a CSV file that cannot be read again are not assumed away: there,
`FitsCSV` is a hypothesis of the property, since the same data frame still goes
through JSON, a database and an arrow table. `RoundingAssumption` bounds `ULP` and
`DIGIT`. Readers and parsers are recursive
functions (`Formats`), so that they can be proved about.

In `Databases` a handler is the list of the critical sections it still has to go
through, and an action runs the first of them for one thread. A thread that
waits for the lock of a connection may time out, which is the exception that
runs `catch`. `tables` holds rows that say from which line of which thread they
are; `tx` is the one transaction that an SQLite connection can have.

### TableHolder, Aggregator, SQLMaker, FastProp

`TableHolder` builds the tables of the feature learner in one step and then
matches row by row, by the index of the join key or by the sorted index of
(join key, time stamp). `FastProp` has the phases of the code: R-squared of
batches of candidates on a sample, selection, building of rows. In the last one
every thread has its share of the rows, its memory of the values of the last
feature (`Memoization`) and its cache, which it writes every `log_iter` rows; a
step of a thread is one row. `SQLMaker` makes of a feature the statement that
the engine prints, as a record, and `ExecuteAll` defines what a database
computes of it, with the three-valued logic of SQL.

### Macros, Staging, SQLGenerator, Preprocessors, DataModelChecking

A name is a sequence of tokens, of which some are the macros of the engine; a
search for a macro in a string is a search for its token. `Staging` goes step by
step through `stage_data_frames`: columns that the data model asks for, the
placeholder, and the joins of the to-one tables row by row. The preprocessors
share the encodings of categories, which grow, and a tracker; `Preprocessors`
has an action for each of fit, check, transform and the arrival of new tables;
the warnings and the SQL code are part of what they return.

### Learners, PipelineFit, Metrics

Contents are symbolic: a term that names the operation and everything that it was
applied to, so that two of them are equal exactly if they were computed in the
same way from the same data. So `ResultsAreFresh` can compare a call with the
same call on empty trackers. A fingerprint is the tuple of what the code puts
into its JSON object. `Reopen` is the return of a project from disk, where
`load_fitted` puts the fitted objects into the trackers again.

`Metrics` chooses predictions and targets for up to three rows and computes every
score and plot on them; quotients are pairs, a denominator of zero is the NaN of
the code.

## 3. Runs

| Run | Shows | Bounds |
|---|---|---|
| `rwlock` | exclusion, true flags, counted waiters, implementation of `RWLockSpec`, requests with a timeout end | 3 threads, all operations, 1 request with a timeout in a behaviour |
| `rwlock_upgrade` | *violation*: an upgrade may wait forever although nothing stands in its way | 3 threads, no timeouts |
| `pool_misread` | *violation*: pages of a vector are listed as free | 3 vectors, 4 to 16 pages |
| `data_frames` | requests on data frames: ids keep their meaning in memory, on disk, after a restart; or a pool: sorted free list, pages partitioned, contents survive | 2 clients, 2 frames, 2 strings and null, 2 columns, 5 requests, 1 crash, 4 ids per frame; 3 vectors, 2 to 8 pages |
| `data_frames_append` | *violation*: appended strings are shown as null | as above |
| `pipelines_deploy` | *violation*: a deploy is undone | 2 clients, 1 pipeline, 4 requests |
| `data_frames_loaded` | *violation*: an index of a loaded data frame finds rows of another join key | as in `data`, *Frames* |
| `data` | each of the components of data answers as its definition says; requests on databases end | below |
| `learning` | features, names, fitted objects and scores are what they stand for; requests on pipelines keep them consistent, and end | below |
| `learning_last_rows` | *violation*: the last rows of a thread keep zeros as features | one thread, 5 rows, a cache of 1 row |
| `learning_cached` | *violation*: features stored by one pipeline are used by another that selects others | 2 pipelines that differ in the share of selected features, 2 calls |
| `learning_reopened` | *violation*: after a project was opened again, a fit without validation takes a predictor trained with it | as in `learning`, *Calls* |

Why the bounds are enough for what the properties are about:

- Three threads are the least for an upgrading weak writer, a plain writer who
  shares its condition variable, and a reader. The theorems hold for any number.
  A second request with a timeout only adds another surplus in a counter.
- With three vectors, a block can be given back between two that are in use, so
  that merging with both neighbours happens, as do growth in place, moves,
  doubling and a full disk. The code starts with 1000 pages; the models start
  with 2 or 4 so that all of that happens after a few calls.
- The two columns that clients send order the strings differently and hold a
  null, so two requests on the same global encoding disagree on ids. Five
  requests suffice for save, crash, new strings, load and read.
- Two clients are what the lost update and the erased entry need; no property
  relates two pipelines, so one name is enough (the theorems hold for any number
  of both). Four requests are add, fit, deploy or delete, and transform.
- *Index*: nodes of at most two keys and seven keys, inserted in any order that
  begins with 3 and 5, so that the tree has three levels and inner nodes are
  split, with keys on either side of the first ones; a key whose rows need a
  second page.
- *Encoding*: four strings of which three have one hash, so that the first
  collision, the second one, and the search among ids happen.
- *Frames*: two names, three requests: create, change a copy, look at the
  original. The tables have one or two join keys, nulls and repeated keys; any
  of them is saved and loaded.
- *Views*: 21 expressions that nest selections, ranges and views without end,
  and three calls, so that a view is read forward, backward and again; rows up
  to `Horizon` = 4 of a view without end.
- *Aggregations*: columns of up to four cells of -1, 0, 1, 3 and NaN, and up to
  four matches with ties in time and value.
- *Imports*: frames of two rows whose strings have every character that means
  something to a reader; files of one line; limits of 0 and 1 lines; arrow arrays
  have chunks of one cell (`MAX_CHUNKSIZE`); 15 bits for 64
  (`INT64_MAX`), so that times of the unit nanosecond can be out of range. Prints keep
  every second number (16 digits) or every fourth; one time is a nanosecond short, one
  comes back a tick less.
- *Databases*: two threads with one request each on two SQLite connections (two
  copies in opposite directions deadlock until a timeout), one of MySQL and one
  of Postgres; bulks and fetches of two rows, files of up to three lines.
- *Matches*: two rows of a population, three of a table with time stamps, and a
  table behind it, with null keys and times, with and without upper time stamps.
- *FastProp*: six instances (star and snowflake, all kinds of columns, samples
  smaller than the population, more candidates than features), five rows on two
  threads with a cache of two rows, so that a cache is written in the loop and
  after it. A share that is twice the cache or more is never a multiple of it
  here: that is the case of `learning_last_rows`.
- *Staging*: six data models with joins in one and two steps, of all relations
  and with time windows, on tables of two rows with null keys.
- *Calls*: two calls on two pipelines, from the start and from a state in which
  both have been fitted and the features of one are stored (`InitFitted`). The
  pipelines differ in their preprocessors and shares. Either may be fitted
  with a validation frame before the project is opened again.
- *Preprocessing*: four calls, so that a pipeline is fitted, another one takes
  from the tracker, and tables with other gaps and categories are transformed.
- *Metrics*: one to three rows, four predictions, targets and features among them NaN.

Components that have nothing to do with each other share a run where their state
spaces are small: a behaviour is one of a single component (`part`), and the others
rest in their initial states or have none. So `MCDataFrames` has `DataFrames` and
`Pool`, `MCData` the components of data, and `MCLearning` those that learn and
`Pipelines`. `MCPool` and `MCPipelines` are for the violations of one of them alone.

`CHECK_DEADLOCK FALSE` in `DataFrames`, `Data` and `Learning`: these behaviours end
when their requests or steps have been made. The lock is checked for deadlock; that
requests on databases and pipelines do not block is `EveryRequestIsAnswered` and
`RequestsEnd`.

`DataFrames.cfg` has a constraint: it does not look further after `free_block` has
taken the slot past the end for a block (`NotMisread`), and not after a crash inside a
save (`NotTorn`): the invariants make no claim there. What happens after the misread
is the subject of `pool_misread`; a torn save is listed as a hazard. It also has a view
that ignores what pages beyond the contents of a vector hold.

### What the violations mean

1. **Lost wake-up** (`ReadWriteLock.hpp:61-83`). `read_unlock` decrements the
   number of readers and notifies without `mtx_`. Both can happen after an
   upgrading thread has seen the reader and before it sleeps. Nobody wakes it
   then, and as it is still the weak writer, every other writer waits for it. The
   next unlock may wake it; if none comes, it sleeps on with nothing in its
   way. (Readers who keep coming can starve an upgrade too; no doc promises
   otherwise, so the property leaves that out.) Holding
   `mtx_` while the flag is cleared closes the gap.
2. **Read past the end** (`FreeBlocksTracker.cpp:114`). The test
   `it != free_blocks_.end()` is always true; `it + 1` was meant. What `erase`
   left behind the vector can look like the neighbour of the freed block, which
   loses pages, and later vectors grow over them.
3. **Private encoding** (`DataFrameManager.cpp:308-344`). The append command on a
   name that does not exist stores a frame that does not use the global
   encoding. The Python client of this repository does not send the command.
4. **Lost update** (`PipelineManager.cpp:290-301`, `368-428`, `583-613`). A
   pipeline is copied and assigned back as a whole, so `deploy` is undone by a
   `fit` that began earlier; and a fit is lost to a `deploy` that began before it
   ended.
5. **Last rows** (`FastProp.cpp:160-185`). `build_rows` writes its cache before
   the first row of the next 5000 and, after the loop, from row
   `size - size % log_iter`. If the number of rows of a thread is a multiple of
   5000 and at least 10000, that is the end: the last 5000 rows stay 0.0.
6. **Features of another pipeline** (`transform.cpp:294`). The build history of
   stored features does not say which of them were selected. A pipeline that
   selects others takes them, and its fit fails for the number of columns.
7. **Shared indices** (`DataFrame.cpp:490-494`). `create_indices` fills the vector
   of indices with copies of one object, which hold one pointer to a map
   (`Index.hpp:33-36`), when a data frame has none before: after it was loaded, or
   made from a view. With two or more join keys, every index then finds the rows of
   all keys, those of the other columns included. `IndexRecords` say of an index
   whether it has a map of its own (`own`, not in the code): for those that have,
   `FramesFindTheirRows` holds and is proved.
8. **Forgotten validation** (`load_fitted.cpp:171-192`). A loaded predictor has a
   fingerprint without the validation frame that `fit.cpp:335-343` puts in. After the
   project was opened again, a fit without validation takes it instead of training
   one, and a fit with the same validation trains one anew. `ResultsAreFresh` leaves
   out a fit that takes such a predictor (`TakesReopened`).

### Met while modelling, not made a run

These are differences between code and comment, or places where a component does
less than one may expect, that the properties leave out by name or that the
models carry as they are.

- `Preprocessors`: `EMailDomain` is fitted on text columns and looks for unused
  strings when it transforms (`EMailDomain.cpp:127`, `:196`), so that
  `FittedTablesAreTransformed` leaves it out.
- `Databases`: `MySQL::read` opens its transaction on a connection of its own
  (`MySQL.hpp:71-74`) and is left out of `FailedReadsLeaveNothing`;
  `Postgres::read` ignores the result of its COPY (`Postgres.cpp:211-284`) and
  is left out of `SuccessfulReadsAreStored`; an iterator of Postgres reads
  after it has moved on (`PostgresIterator.hpp:110`) and is left out of
  `IteratorsSeeOneTable`. The transaction of a shared SQLite connection is
  everybody's: a statement of another thread is undone with it.
- `Import`: CSV has no quotation that keeps quotechars and line feeds, nor
  blanks at the end of a line (`FitsCSV`), and of a data frame without rows no file
  is written, so that its columns are not there to be read; a time stamp of an unknown format
  becomes 0 in JSON and NaN in CSV. What goes out as text is not always what comes
  back: 16 digits of a number, or 15 through a query (`Parser.hpp:113-118`), the
  microseconds of a time stamp (`Parser.hpp:199-213`), and no text that means NULL;
  categories and join keys go through an encoding that takes any text as it is
  (`InMemoryEncoding.hpp:54-56`), so that a null one comes back as NULL, which is not
  null. So does a null that was sent in JSON (`DataFrame.cpp:760-762`). Arrow tables of the engine have null for strings that are not UTF-8
  (`ArrayMaker.hpp:165-168`), and time stamps are multiplied by fractions
  (`ArrowHandler.cpp:932-936`), so that their last place may change. `CellsSurvive`
  says of each way what comes back.
- `Metrics`: the accuracy never considers the threshold that calls every row
  positive; a strictly falling column gets no plot (`Summarizer.cpp:393-402`).
- `TableHolder`: the index by time stamps sorts its rows by keys whose time stamps
  must not be null, which only an assertion says (`Key.hpp:32-42`) that is compiled
  out. Null time stamps get there: `make_time_stamps` adds a memory to whatever it
  finds (`modify_data_frames.cpp:337-378`), and the memory itself is null when the
  first row has none (`helpers/DataFrame.cpp:307`), so that nothing is found. The comparison
  is then no order, and what `std::stable_sort` makes of it is a constant
  (`SortedWithNulls`; in the runs, an insertion sort as in libstdc++ for few rows). In
  these cases TLC finds rows that are missing, rows too many, and a range that ends
  before it begins, which `Matchmaker` reads past its vector (`PastTheEnd`).
  `MatchesAreTheRowsThatBelong` leaves those tables out (`TimesAreKnown`).
- `DataFrame`: the clone of a column is called a deep copy (`Column.hpp:98`) but
  has no subroles (`Column.hpp:462-479`): a frame made from a view loses them.
- `FastProp`: features whose R-squared equals the threshold are all dropped
  (`FastProp.cpp:315`), so that fewer than `num_features` may be kept.

## 4. Properties

Every module has one type invariant, `TypeOK` or a name that ends in it (`PartTypeOK` in
`MCData` and `LearningTypeOK` in `MCLearning` are that of the chosen component,
`StoredTypeOK` in `MCDataFrames` those of both); in the modules of the handlers it
includes what a thread holds of the lock at each place. The others:

- `MutualExclusion`, `FlagsMatchHolders`: although unlocks change the flags
  outside of the mutex, flags and counter always equal what threads hold.
- `WaitersAreCounted`: no waiting writer is ever missing from the counters that
  unlocks decide by. They may be too large: a request that timed out stays in.
- `ImplementsLock`: the refinement of `RWLockSpec`.
- `TimedRequestsEnd`: under the fairness below.
- `FreeBlocksAreSorted`: what the code asserts in debug builds.
  `PagesArePartitioned`, `ContentsSurvive`: what it is for.
- `ReadersSeeWhatWasSent`: whoever holds the lock for reading finds, by the
  global encoding, the strings that were sent. `NeverAnotherString`: what a frame
  shows by its own encoding may be null, but is never another string.
  `SavedFramesAreReadable`: the files of the last completed save, on their own.
- `PipelinesAreConsistent`, `DeletedStaysDeleted`, `RequestsEnd`.

Of data:

- `IndexFindsItsRows`: the tree against the rows that were inserted, and that no
  page is leaked or has two owners.
- `EncodingAnswersAsInMemory`: ids keep their meaning, strings have one id, and
  the encoding in the pool answers as `Encoding`, the model of the one in
  memory, does: the two implementations agree call by call.
- `FramesFindTheirRows`, `FingerprintTellsContent`: indices, headers and lengths
  after any requests; no request changes a frame under an old fingerprint.
- `ReadsFollowMeaning`: views against `Meaning`, whatever was read before.
- `AggregationsAreRight`: moments, order statistics, times since extremes and
  trends against their definitions.
- `CellsSurvive`: what is read again is what its text says, or near what it was.
- `ReadsAreAllOrNothing`: a file is in a table as a whole or not at all, whatever
  the other threads do. `IteratorsSeeOneTable`: an iterator returns the table it was
  made on. `EveryRequestIsAnswered`.

Of learning:

- `MatchesAreTheRowsThatBelong`: neither a row too many (of the future) nor one
  too few, by either index, and all of them in the subtable; tables whose index by
  time stamps has a null are left out.
- `FeaturesAreWhatTheSQLSays`: two implementations of a feature in the code,
  the C++ and the SQL that it prints, agree on every row.
- `BestFeaturesAreKept`, `ImportancesArePreserved`: selection and the way back
  from features to columns, in a learner and in a pipeline.
- `TablesAreJoinedAsDeclared`: staged tables against the relational join.
- `ResultsAreFresh`: whatever was fitted or stored before, a call returns what it
  would return if nothing had been; `EveryResultIsFresh` is the same for predictors that
  came back with a project.
- `NamesAgree`: names in placeholders, features, predictors and SQL code.
- `TransformAgreesWithFit`, `TablesAreComplete`: what a preprocessor remembers is
  enough to repeat what it did.
- `ScoresAreRight`: AUC by pairs, errors against each other, bins of plots;
  and the matches that the check of a data model expects.

For each property of a passing run there is an operator, commented as a mutant,
that changes one definition as a plausible bug would (a guard that is dropped,
an off-by-one, a step that is missing) and makes TLC find the property violated.

## 5. Fairness

*Lock.* Weak fairness of what a thread does without waiting (go to sleep, notice a
timeout, unlock), of clocks, and strong fairness of `Check` and `LastCheck`: a
thread that can get `mtx_` again and again gets it, which holds of mutexes in
practice though the C++ standard does not promise it. That holders unlock is part
of it: handlers release the lock by destructors. Spurious wake-ups, requests and
upgrades are not fair: they need not happen. Under this fairness
`UpgradeSucceeds` fails, by the lost wake-up.

*Pipelines.* Strong fairness of each thread's steps: the lock is handed out to
whoever can have it again and again, and clients go on sending. The first is an
idealisation, which the lost wake-up shows the coded lock not to meet; so
`RequestsEnd` says that the *handlers'* use of locks cannot block (nested lock
objects, order, release on every path), not that the engine never does. The
second is what the protocol relies on: if a connection breaks, `Receiver::recv`
throws and the request ends (`Fails`); a client that keeps its connection open
and sends nothing blocks all writers.

*Databases.* Weak fairness of each thread's step: a thread that can go on does.
That is enough because every wait has a timeout of a second, which makes its step
possible again. So `EveryRequestIsAnswered` says that copies in opposite
directions, or within one connection, end by an error and not by a deadlock.

`DataFrames`, `Pool` and the components of learning state safety only.

## 6. Proofs

`ReadWriteLock_proofs` proves, for any finite set `Threads`, any subset of the
operations and any `MaxTimed` (`ThreadsAssumption`):

| Theorem | States |
|---|---|
| `Invariance` | `Spec => []IInv` |
| `Typing` | `Spec => []TypeOK` |
| `Exclusion` | `Spec => []MutualExclusion` |
| `FlagsAreTrue` | `Spec => []FlagsMatchHolders` |
| `NoWriterOverlooked` | `Spec => []WaitersAreCounted` |
| `Refinement` | `Spec => ImplementsLock` |

The invariant `IInv` is the conjunction of the four. They need each other:
exclusion alone is not inductive, as `Check` acquires by looking at the flags and
says nothing about modes; only with flags that match the holders does a predicate
that is true mean that nobody is in the way. And the flags match after an unlock
only because its holder was alone: if there were two weak writers, the unlock of
one would clear the flag of the other. The counters need the type invariant,
which says at which places a thread is waiting.

The proof goes action by action. An action that leaves `Mode` of all threads and
the flags alone leaves exclusion and flags alone; `Take` and `Clear` change the
mode of one thread, and lemmas about the cardinality of a set with one element
more or less carry `num_active_readers_` and the counters of waiting threads.
The refinement uses `IInv`: `Take` is `Acquire` or `UpgradeWeak`, with the
abstract guards from `FlagsMatchHolders`; `Clear` is `Release`; all other steps
stutter.

`Learning_proofs` proves about `Pipelines`, for any sets `Clients` and `Names`, any number
`MaxRequests` of requests, and a value `Absent` that is no pipeline
(`PipelinesAssumption`):

| Theorem | States |
|---|---|
| `Invariance` | `Spec => []IInv` |
| `Typing` | `Spec => []TypeOK` |
| `Consistency` | `Spec => []PipelinesAreConsistent` |
| `NoResurrection` | `Spec => DeletedStaysDeleted` |

Here `IInv` adds to `TypeOK` and `PipelinesAreConsistent`:

- `ThreadsInPlace`: a request is where one of its kind can be, and has the copy
  that it needs there. `TypeOK` alone would allow a `delete` at `upgrade`.
- `LockSafe`: the lock is exclusive, and outer lock objects never read while
  nested ones only do. An upgrade excludes others only if the upgrading thread is
  the only weak writer before.
- `FoundIsThere`: at `upgrade` and `assign` the pipeline that `fit`, `deploy` or
  `transform` found under the weak lock is there. This is the reason why an
  iterator may be kept across the upgrade: whoever erases needs the strong lock,
  and the weak one is not let go of in between. `DeletedStaysDeleted` follows:
  an assignment to an absent name is one of `add` or `copy`.
- `CopiesAreConsistent`: copies on their way back are as consistent as what is
  stored, unless one was made without lock in the middle of an assignment
  (`raced`). Without it, consistency of what is stored would end with the first
  assignment.

Its proof has one lemma per conjunct (`StepPlaces`, `StepLock`, `StepType`,
`StepFound`, `StepConsistent`), each action by action; the lock part uses three
lemmas about `RWLockSpec` (acquiring, upgrading and releasing keep it exclusive),
and `AssignsAlone` that no other thread is between its look at the map and its
assignment while one assigns. TLC checked both `IInv` before they were proved.

### Memory pool

`Pool_proofs` proves, for any set of vectors, any sizes of pool and disk, and any
width of `size_t` that can count the pages of the disk (`PoolAssumption`; 64 bits
in the code):

| Theorem | States |
|---|---|
| `PoolInvariant` | `PoolSpec => []Inv` |
| `TypeCorrect` | `PoolSpec => [](misread \/ PoolTypeOK)` |
| `FreeBlocksStaySorted` | `PoolSpec => []FreeBlocksAreSorted` |
| `PagesStayPartitioned` | `PoolSpec => []PagesArePartitioned` |
| `ContentsStay` | `PoolSpec => []ContentsSurvive` |

The argument has three levels. `Listed` says what a list of free blocks is: no
block is empty, they are in order, and none touches the next. For every operator
of `FreeBlocksTracker` a lemma shows that it keeps a list `Listed`, and which
pages are free afterwards. `Step` says what an operation on one vector may do to
the pool, and `StepKeeps` that such a step keeps `Kept`, the conjunction of the
types, the list, `Blocks` (what a vector's `page_num_` says about the pages
behind it), `HeadsOnly` (only the first page of a vector's block is marked as
allocated),
`Partition` and `Contents`. One lemma per operation shows that it is such a
step. `Partition` is not inductive alone: a vector gives back the number of pages
that the head of its block says, so what the heads say has to be right.

`Inv` is `misread \/ Kept`, as the three properties begin with `misread \/`.
After `free_block` has taken the slot behind the list for a block, nothing is
claimed: `pool_misread` shows what happens then. The part of `PoolAssumption`
about the width is needed where the size of a block is taken modulo `2^SizeWidth`:
in a pool whose pages could not be counted, a block might count as an empty one.

### Data frames

`DataFrames_proofs` proves, for any sets of clients, names, strings and uploads
and any bounds (`DataFramesAssumption`: nulls and cut strings are no strings, and
`NoFrame` and `GLOBAL` are none of the values they stand beside):

| Theorem | States |
|---|---|
| `TypeCorrect` | `Spec => []TypeOK` |
| `ReadersSeeTheStrings` | `Spec => []ReadersSeeWhatWasSent` |
| `NoFrameShowsAnotherString` | `Spec => []NeverAnotherString` |
| `SavesAreReadable` | `Spec => []SavedFramesAreReadable` |
| `AppendAddsWhatIsNew`, `ParsedStands` | what the two loops compute, by induction |

The invariant has two parts. `Control` says what each thread holds at its place
in its handler: the lock, a request, and an encoding that lies on top of the
global one (`OnTopOf`) while only it can extend the global one; the lock's
exclusion makes the rest stand still (`OthersOnlyRead`). `Meaning` says in which
encoding the ids of a frame stand for what was sent (`Stands`). For a stored
frame that is the global encoding, for the frame of a request the global encoding
as it will be after the commit (`Known`), and on the disk the saved one, which is
a beginning of the global one. This last conjunct is why a save need not be
atomic with the frames that were saved before it: ids only get longer lists of
strings behind them. It ends with a crash inside a save (`torn`), as the
properties say.

`ParsedStands` is the core: a column is parsed string by string against the
request's encoding, and its ids are those the strings will have in the global one
after `append`, which inserts the new strings one by one (`AppendAddsWhatIsNew`).

### Data frames on their heap

`DataFrames` abstracts from what a data frame consists of; `DataFrame` has its columns,
indices and shared pointers. `Containers_proofs` proves, for any names, any tables,
columns and views that clients can send, any number of requests and any `NoFrame` that
is no data frame (`DataFrameAssumption`):

| Theorem | States |
|---|---|
| `FramesStayGood` | `FrameSpec => []FrameInv` |
| `FrameTypes` | `FrameSpec => []FrameTypeOK` |
| `FingerprintsTellContent` | `FrameSpec => []FingerprintTellsContent` |
| `FramesAlwaysFindTheirRows` | `FrameSpec => []FramesFindTheirRows` |
| `EveryRequestKeepsToOneFrame` | `FrameSpec => [][RequestsKeepToOneFrame]_frameVars` |
| `Appended`, `OfView`, `NewTable` | what `append`, a view and a new table make of a good data frame |

`GoodFrame` says what a data frame is after every request. `GoodColumns`: all columns
are of one length, have different names, and each has data of its own. `GoodIndices`:
there is one index per join key, and its map, if it is its own, holds, for every key,
exactly the rows before `begin_` that have it (`Exact`). `Complete`: `begin_` is the end of the column.
The last two are apart because the handlers work in between: a column has grown, or a
new key was added, and `create_indices` catches up at the end. What an index skips is
what `begin_` says it has; a copy of a data frame that shared its map with the original
but not its `begin_` would enter rows a second time, or miss them.

So the invariant `FrameInv` also says who owns what. No two data frames of the project
point to the same column or the same map, on the one heap that they have. Each request
is followed through what it does to this heap. Adding and removing columns only adds to
it and keeps to the frame's own columns and new ones (`Grown`); a table, a clone and a
loaded data frame have new columns and maps only (`OfItsOwn`, `LoadedAs`); a view works
on a copy that shares the original's columns (`OnTopOf`), which is why it has to end with
a clone of every column, and the mutant `clone_sharing`, which does not, breaks the
property; `append` changes in place what the columns of its own frame point to, and
nothing else (`ChangedOwn`). `Answered` states what all these have in common, and
`AnswerKeeps` that a request which is so answered keeps the invariant: the other data
frames are what they were, and the new one is good.

`append` checks that the columns are of one length after all of them have grown
(`DataFrame.cpp:308-310`): an exception there would leave the stored data frame torn,
with its old fingerprint. `GrownInPlace` says what the columns are at that point, and
the proof of `Appended` that the check always succeeds, since a table whose columns
differ in length is refused before anything is stored, and two tables of one length each
make one.

A fingerprint is the name with the time of the last change. `FingerprintTellsContent` is
inductive with what is remembered about fingerprints in the invariant: what is in memory
and on the disk under a name has been seen under its fingerprint (`SeenAs`, `GoodSaved`),
all fingerprints that were seen are of the past, and every change takes the present time.
A data frame that is loaded comes back under its old fingerprint, and this is
right because the files have the content it stood for.

`RequestsKeepToOneFrame` is what all of this means for users: a request changes the
content of the data frame that it names and of no other, and one that ends with an
exception changes none. It follows from the invariant before and after a step: a data
frame whose record in the project is left has its fingerprint, and so its content. TLC
checked it, and `FrameInv`, with the constants of `data`.

Of indices that share a map, those of a data frame that was loaded with several join
keys, the invariant has what is true of them all the same: their map exists and is not
that of another data frame, and they got to the end of their columns.

### Memory-mapped encoding

`Containers_proofs` proves, for any set of strings and *any* function
`Hash` on them (`MemoryMappedEncodingAssumption`):

| Theorem | States |
|---|---|
| `EncodingInvariant` | `Spec => []Inv` |
| `TypeCorrect` | `Spec => []TypeOK` |
| `AnswersAlike` | `Spec => []EncodingAnswersAsInMemory` |

`Good` says what one encoding is: its vector of characters holds its strings in
order, none of them twice, and the ids below a hash are exactly the ids of the
strings with that hash. `Insert` shows that it stays so in each of the three
branches (new hash, first collision, later ones), and `LookupFinds` that a string
is then found under its place, with an encoding below or without. `Inv` adds that
the request's encoding continues the global one, that the file is a beginning of
the global one, and that ids which were handed out stand for their strings. The
comparison with `Encoding` follows: a search among the ids below a hash finds
what a search among all strings finds. Uniqueness (`NoDuplicates`) is what makes
this inductive: with a string twice, the two searches could find different ones.

### Databases

`Databases_proofs` proves, for any threads, databases and dialects, tables,
requests and bulk sizes:

| Theorem | States |
|---|---|
| `DatabaseTypeCorrect` | `DatabaseSpec => []DatabaseTypeOK` |
| `IteratorsConsistent` | `DatabaseSpec => []IteratorsSeeOneTable` |
| `ReadsAtomic` | `DatabaseSpec => []ReadsAreAllOrNothing` |

`DatabasesAssumption` asks for finitely many connections and at least one, the
connection `default`; for requests on connections that there are; that the
statements which clients write themselves neither open nor end a transaction; and
that no thread has inserted the rows that are there in the beginning.

A handler is a sequence of steps, so an invariant has to speak of what a thread
still has to do. The proof does this with *accounts*. The account of a thread says
what the thread has: the database it iterates over, the one it has locked for
writing, the one whose transaction it would roll back, the one it has begun a
transaction on, how far it is with its file (`before`, in `bulks`, `inside` of a
transaction, `stored`), which of its rows are in, and whether it has answered.
`Moves` says what a step makes of an account and what it needs from it, and `Runs`
that a sequence of steps leads from one account to another. Sequences that run are
joined (`RunsJoin`, `RunsFlat`), so that each handler is shown to run from its
parts, and the readers of files by induction over lines (`LinesRun`) and bulks.

`Inv` has the types, the exclusion of the locks, and: there are accounts, one per
thread, that agree with the variables (`Agrees`), from which the rest of each
thread's steps runs, and no two of which have a transaction on one database. One
lemma per step shows that the account of the thread that takes it moves on, and
that those of the others still agree (`OthersKeep`, and for statements `Touches`:
what a statement of one thread may do to the rows of another). When a step fails,
`catch` takes the place of the rest; `CanFail` says where that is allowed, and that
a thread whose file is stored cannot fail is why an error means that nothing is
there.

The properties leave out by name what the code does not promise (section 3): MySQL
in `FailedReadsLeaveNothing`, Postgres in `SuccessfulReadsAreStored` and in
`IteratorsSeeOneTable`, and requests that drop tables. The proof led to two
corrections of the model: two cases of `after` overlapped, so that its value was
not determined, and `new_db` may lead a connection that began on another dialect to
Postgres.

### Files, tables and arrow tables

`Import_proofs` proves, for any data frames, names, strings and numbers of rows, sizes
of batches and chunks, lines skipped and limits, and layouts of clients:

| Theorem | States |
|---|---|
| `CellsAlwaysSurvive` | `ImportSpec => []CellsSurvive` |
| `FilesRead` | what `from_csv` reads from the files of `df_to_csv` |
| `StoredRowsRead` | what is read from a table that has the rows of a data frame |
| `TableKeepsCells` | what is read from an arrow table that holds a data frame |
| `SniffedRead` | what is read from files whose column types were sniffed |

So no way out and in again mixes up, loses or adds a cell: in every column, the n-th
cell is what its text says of the n-th cell that was written, for CSV files in batches
(all lines, or exactly those asked for), for a table by its name or by a query; it is
what was sent, for JSON; and for an arrow table or parquet file, strings that are
UTF-8 and numbers are what they were, and time stamps are within `ULP` of it. The same
holds of a table that a client laid out in one of the four ways of `Layouts`: in chunks
of several types, in dictionaries, in other units of time. Read as strings, the columns
of an arrow table say what they held, to four decimals or a microsecond. And when the
sniffer has looked at all lines, a column that it takes for numbers is read without a
null. The theorems hold for any rounding within the bounds: they rest on
`ImportAssumption` and `RoundingAssumption` alone.

The inductive invariant `ImportInv` is the conjunction of two. `IsWritten` says of
what there is that it was made of the data frame: the files are those that
`df_to_csv` writes with some size of batches, the table has the rows (`HoldsRows`),
the arrow table holds the columns (`HoldsFrame`), and what is known of the files by
sniffing is what `sniff` finds in them. `Survives` says of a copy, by the way it went,
which cells it has. `CellsSurvive` alone is not inductive: it speaks of the copy and
says nothing about the files, tables and arrays that the next copy is read from. Each
writing step keeps the first part, each reading step goes from it to the second, so
that the work is in lemmas on what a reader makes of what a writer made:

- *A cell.* Numbers and time stamps become text and are read again
  (`StoredCellRead`, `FieldsTyped`); what an array of each type and unit holds is
  read as the number, or one near it, or the string it stands for, through a dictionary too
  (`NumericCell`, `TimeCell`, `StringCell`, `DictionaryCell`).
- *A CSV file* is a sequence of characters joined of lines, and a line is one of
  fields. `WordsEnd` and `WordsFollow` say where words lie in what is joined. The
  parsers go over one character after the other, so the proofs are inductions over
  them: a parser at the beginning of a word has, at its end, read the word and is at
  the beginning of the next. Hence `LinesFound` and `FieldsFound`: a separator within
  a field is no separator for the reader because the writer quotes the field, and a
  line feed ends a line because no field has one (`FitsCSV`).
- *Several files.* The rows that are read of a file are a part of those of its
  batch (`RowsRead`, `BatchRead`): from the line to be skipped to the limit, with
  the header as the first line. The columns of all files, appended, are joined of
  these parts (`FilesAppended`).
- *A table.* The names that are asked for are listed role by role, in another order
  of roles than they may have in the file or the table. `PlaceInSchema` says where a
  column of a role is in the list, and because names differ, the column that is read by
  a name is the one that was stored under it (`PlaceRead`, `RowsStored`).
- *An arrow table* is read chunk by chunk. `Cut` says where the chunks begin in the
  column, whoever cut it: the engine in chunks of `MAX_CHUNKSIZE` (`BatchesCut`), or
  the client (`LaidKeeps`). What holds of the cells of all chunks holds of the column.
- *The sniffer* goes over fields and files and never changes the type of a column
  back from string (`SnifferRuns`). So a column that is one of numbers at the end was
  one at every field, and each of its cells is read as a number.

That joined sequences have their parts where they should (`JoinedAt`,
`JoinedHasAll`, `PartsAt`, `JoinedAlong`) is by induction over the parts, in
`RecursionTheorems`. The proof led to corrections of the model: it asked nothing of
the names of columns nor of the null of databases, and of data frames without rows
`FitsCSV` claimed that their columns come back, though no file is written.

### Matching

`Learning_proofs` proves about `TableHolder`, for any frames and placeholders with which a feature
learner may be called (`Scenarios`):

| Theorem | States |
|---|---|
| `TypeCorrect` | `HolderSpec => []HolderTypeOK` |
| `MatchesExact` | `HolderSpec => []MatchesAreExact` |
| `SubtablesSuffice` | `HolderSpec => []MatchedRowsAreInTheSubtable` |
| `MatchesBelong` | `HolderSpec => []MatchesAreTheRowsThatBelong`, which is both |
| `SortedSorts`, `FindRange` | what sorting and the two binary searches return |

`TableHolderAssumption` says that `NAN` is no rational and that every scenario is
`WellFormed`: the frames have the columns that the placeholder names, and an upper
time stamp that the engine computed lies one and the same memory after the lower one,
or is null where that is. TLC evaluates the assumption in the run `learning`. Of the
order that sorting makes of keys with null time stamps (`SortedWithNulls`) nothing is
assumed; what is said of matches is said of joins whose index has none
(`TimesAreKnown`), which is what `tsindex::Key` asserts. A `Float` is a rational number
here: what is proved is the logic of the searches, not that of rounding.

The rows that belong to a row are defined by comparisons of single rows; the code
finds them by a sort and two binary searches on (join key, time stamp), or by a
filter over the index of the join key. So the proof goes from numbers to tables:

- `smaller`, a recursion over continued fractions, is comparison by
  cross-multiplication, hence a linear order.
- `Sorted` returns every element once and in order, by induction over the size of
  the set. Rows of one key and time stamp may come in either order, so the theorems
  speak of sets of rows and of their number.
- The two searches of `find_range` return the first places above the keys with the
  time stamp a memory ago and with the one now, so the range between them holds the
  rows that are in the window, and no other (`FindRange`).
- A view has the rows of its frame, the key and the time stamps it was asked for,
  and an index where it has two time stamps (`Subview`). There is one view of the
  population for every joined table and, behind those, for every text field
  (`TablesArePaired`).

`Inv` says that the tables are those that `TableHolder` makes of its parameters
and that `matches` holds the matches of the first rows. The strength is in
`Matching`, which says of every row, table and index that the matches are the rows
that belong.

### Induction over data

The provers cannot instantiate the induction theorems of the library, which take
an operator. `RecursionTheorems` gets around that for functions: a property of
numbers is the set of the numbers that have it (`SetInduction`), and
`RecursiveFunctionExists` shows that the function a loop defines exists, so that
its `CHOOSE` has the defining equations. `TailRecursionExists` does the same for
a loop that ends or goes on with an argument that is smaller by some measure.
Loops over sequences in `Encoding`, `DataFrames`, `MemoryMappedEncoding` and
`DataFrame`, the parsers and readers of `Formats` and `Import`, and the loops on
numbers in `Aggregations`, are recursive functions for that reason.

Theorems about two components share a module where one is small beside the other:
`Containers_proofs` has encodings and data frames, `Learning_proofs` pipelines and
matching. The parts of these modules do not use one another.

TLC checked every invariant above on a small instance before it was proved.
Assumptions are evaluated by TLC in the runs, whose modules extend the modules
that state them.

### Only model-checked

- Of `MCData` the memory-mapped index (`IndexFindsItsRows`), views
  (`ReadsFollowMeaning`), aggregations (`AggregationsAreRight`), and the invariant of
  types of all parts; of `MCLearning` all but the matching, so
  also what the check of a data model counts (`ScoresAreRight`). B-trees, views,
  placeholders, subfeatures and expressions are trees, and the operators that walk
  through them are `RECURSIVE` ones, which end the use of the SMT solver for every
  module that reaches them. `Aggregations` and `Metrics` reach none and could be
  proved about.
- `RequestsEnd`, `TimedRequestsEnd` and `EveryRequestIsAnswered`: liveness needs
  fairness and `ENABLED`, which the prover does not support.

## 7. What is not modelled

By component, with reasons, in `PROJECT.json`. In short:

- *Left out whole*: the communicator and its barrier (no code constructs one);
  the Go application and the Python client (they send the commands that are the
  models' inputs); monitor, watchdog and logger (messages; the watchdog is the
  crash of `DataFrames`).
- *Numbers*: the training of linear, logistic and XGBoost predictors and the
  optimizers: floating-point iterations without protocol or shared state.
- *Within modelled components*: erase, resize and moves of pool vectors, a
  failing `ftruncate`; units and roles, summaries, random columns; requests that
  only read metrics; the files of a saved pipeline; `delete_project` with the
  project lock; dispatch by type and the framing of messages; the cells of MySQL
  and Postgres; text features and the propositionalization inside of relational
  learners, of which this edition has only FastProp; the wording of SQL
  dialects, logging, progress and messages.

## 8. What is left

In the order of what it would add. To be proved: `ResultsAreFresh` of
`PipelineFit`, once the one recursive operator of `Macros` is a function, from an
invariant that says of the trackers that what is under a fingerprint is what would
be computed. To be modelled: requests of `Databases` that interleave with those of
`DataFrames` on one global encoding; `fit` on several threads of one tracker, where
`Pipelines` and `PipelineFit` would meet; `delete_project` and `project_lock_`.
