------------------------------ MODULE DataFrames ------------------------------
(***************************************************************************)
(* The requests that create, change, read, save and load data frames       *)
(* (engine::handlers::DataFrameManager, the data frames of ProjectManager, *)
(* FileHandler), run by one thread each, on top of the read-write lock as  *)
(* RWLockSpec specifies it, with crashes of the engine and restarts.       *)
(*                                                                         *)
(* A data frame is the sequence of the ids its categorical columns hold;   *)
(* join keys and their encoding are treated by the code in the same way.   *)
(* Every frame also carries `sent', which is in no variable of the         *)
(* program: the strings that clients put into it.                          *)
(***************************************************************************)
EXTENDS Encoding

CONSTANTS Clients,      \* threads that serve requests
          Names,        \* names of data frames
          Strings,      \* categories
          Uploads,      \* the columns clients send: sequences of strings
          MaxRows,      \* bound: ids in one data frame
          MaxRequests,  \* bound: requests in one behaviour
          MaxCrashes,   \* bound: crashes in one behaviour
          GLOBAL,       \* the encoding of a frame that uses the global one
          NoFrame, CutString

LocalEncodings ==
  [subsize_ : Nat, vector_ : Seq(Strings \cup {CutString})]

Frames ==
  [rows : Seq(Nat \cup {-1}), encoding : LocalEncodings \cup {GLOBAL},
   frozen_ : BOOLEAN, sent : Seq(Strings \cup {NULL})]

ASSUME DataFramesAssumption ==
  /\ NULL \notin Strings /\ CutString \notin Strings \cup {NULL}
  /\ Uploads \subseteq Seq(Strings \cup {NULL})
  /\ NoFrame \notin Names \cup Frames /\ GLOBAL \notin LocalEncodings
  /\ {MaxRows, MaxRequests, MaxCrashes} \subseteq Nat

VARIABLES
  categories_,       \* the global encoding
  data_frames_,
  mode,              \* what each thread holds of read_write_lock_
  pc, req,           \* of each thread: where it is, and its request
  local_categories,  \* of each thread: the encoding it builds on the global one
  df,                \* of each thread: the data frame it builds
  disk_categories,   \* the file "categories" of the project
  disk_frames,       \* the directories below "data/" of the project
  requests, crashes, \* how many there were
  torn               \* whether a crash ever interrupted a save

memory == <<categories_, data_frames_>>
disk == <<disk_categories, disk_frames>>
own == <<local_categories, df>>
counters == <<requests, crashes, torn>>
vars == <<memory, mode, pc, req, own, disk, counters>>

Lock == INSTANCE RWLockSpec WITH Threads <- Clients

Frame(rows, sent) ==
  [rows |-> rows, encoding |-> GLOBAL, frozen_ |-> FALSE, sent |-> sent]

Idle == [op |-> "none"]

\* What the handlers take first.
LockOf(op) == CASE op = "get_content"          -> "read"
                [] op \in {"freeze", "delete"} -> "write"
                [] OTHER                       -> "weak"

exists(name) == data_frames_[name] # NoFrame

Init ==
  /\ categories_ = <<>>
  /\ data_frames_ = [n \in Names |-> NoFrame]
  /\ mode = [t \in Clients |-> "free"]
  /\ pc = [t \in Clients |-> "idle"]
  /\ req = [t \in Clients |-> Idle]
  /\ local_categories = [t \in Clients |-> New(<<>>)]
  /\ df = [t \in Clients |-> NoFrame]
  /\ disk_categories = <<>>
  /\ disk_frames = [n \in Names |-> NoFrame]
  /\ requests = 0 /\ crashes = 0 /\ torn = FALSE

-----------------------------------------------------------------------------
(* Requests *)

Goto(t, l) == pc' = [pc EXCEPT ![t] = l]

\* The request is over, by an answer or an exception: the destructor of the
\* lock object releases what the thread holds.
Done(t) ==
  /\ Lock!Release(t)
  /\ Goto(t, "idle")
  /\ req' = [req EXCEPT ![t] = Idle]
  /\ local_categories' = [local_categories EXCEPT ![t] = New(<<>>)]
  /\ df' = [df EXCEPT ![t] = NoFrame]

FirstStep(op) == CASE op \in {"get_content", "freeze", "delete"} -> op
                   [] op = "save"                   -> "save_remove"
                   [] op = "save_pipeline"          -> "save_truncate"
                   [] OTHER                         -> "build"

\* A request arrives and its thread gets the lock it asks for.
Begin(t, r) ==
  /\ requests < MaxRequests
  /\ Lock!Acquire(t, LockOf(r.op))
  /\ req' = [req EXCEPT ![t] = r]
  /\ Goto(t, FirstStep(r.op))
  /\ local_categories' = [local_categories EXCEPT ![t] = New(categories_)]
  /\ requests' = requests + 1
  /\ UNCHANGED <<memory, df, disk, crashes, torn>>

\* add_data_frame, from_csv, from_arrow, from_parquet, from_db, from_query,
\* from_json, and from_view with a data frame `base' below the view.
FromRequests ==
  [op : {"from"}, name : Names, base : Names \cup {NoFrame},
   upload : Uploads, append : BOOLEAN]

Requests ==
  FromRequests
  \cup [op : {"append", "add_column"}, name : Names, upload : Uploads]
  \cup [op : {"concat"}, name : Names, base : Names, other : Names]
  \cup [op : {"freeze", "save", "load"}, name : Names]
  \cup [op : {"delete"}, name : Names, mem_only : BOOLEAN]
  \cup {[op |-> "get_content"], [op |-> "save_pipeline"]}

-----------------------------------------------------------------------------
(* Building a data frame, under the weak write lock *)

\* The local encoding and the ids after a column was parsed.
Parsed(e, column) ==
  LET parsed[n \in 0 .. Len(column)] ==
        IF n = 0 THEN [encoding |-> e, ids |-> <<>>]
        ELSE LET grown == insert(parsed[n - 1].encoding, categories_, column[n])
                 id == string_to_int(grown, categories_, column[n])
             IN  [encoding |-> grown, ids |-> Append(parsed[n - 1].ids, id)]
  IN  parsed[Len(column)]

\* What data frame `name' holds; a name that is not given stands for nothing.
RowsOf(name) == IF name = NoFrame THEN <<>> ELSE data_frames_[name].rows
SentOf(name) == IF name = NoFrame THEN <<>> ELSE data_frames_[name].sent

\* The data frame of request r, once its column was parsed.  Only concat and
\* append_to_data_frame do not set the encoding to the global one.
Built(r, parsed) ==
  IF r.op = "concat"
  THEN [Frame(RowsOf(r.base) \o RowsOf(r.other), SentOf(r.base) \o SentOf(r.other))
          EXCEPT !.encoding = data_frames_[r.base].encoding]
  ELSE IF r.op = "append"
  THEN [Frame(parsed.ids, r.upload) EXCEPT !.encoding = parsed.encoding]
  ELSE IF r.op = "from"
  THEN Frame(RowsOf(r.base) \o parsed.ids, SentOf(r.base) \o r.upload)
  ELSE Frame(parsed.ids, r.upload)

\* Getter::get throws when there is no such data frame.
CanBuild(r) ==
  /\ r.op = "from" /\ r.base # NoFrame => exists(r.base)
  /\ r.op = "concat" => exists(r.base) /\ exists(r.other)
  /\ r.op = "load" => disk_frames[r.name] # NoFrame

Build(t) ==
  /\ pc[t] = "build" /\ CanBuild(req[t])
  /\ LET r == req[t]
         column == IF r.op \in {"concat", "load"} THEN <<>> ELSE r.upload
         parsed == Parsed(local_categories[t], column)
     IN  /\ local_categories' = [local_categories EXCEPT ![t] = parsed.encoding]
         /\ df' = [df EXCEPT ![t] = IF r.op = "load" THEN disk_frames[r.name]
                                    ELSE Built(r, parsed)]
  /\ Goto(t, "upgrade")
  /\ UNCHANGED <<memory, mode, req, disk, counters>>

\* The data cannot be parsed, the connection breaks, a frame does not exist.
BuildFails(t) ==
  /\ pc[t] = "build"
  /\ Done(t)
  /\ UNCHANGED <<memory, disk, counters>>

\* Mutant: a handler goes on to commit without the upgrade.
UpgradeForgotten(t) ==
  /\ pc[t] = "upgrade"
  /\ Goto(t, IF req[t].op = "load" THEN "last" ELSE "first")
  /\ UNCHANGED <<memory, mode, req, own, disk, counters>>

Upgrade(t) ==
  /\ pc[t] = "upgrade"
  /\ Lock!UpgradeWeak(t)
  /\ Goto(t, IF req[t].op = "load" THEN "last" ELSE "first")
  /\ UNCHANGED <<memory, req, own, disk, counters>>

-----------------------------------------------------------------------------
(* Committing it, under the strong write lock, in one or two steps *)

\* These change the data frame first and the global encoding after that.
FrameFirst(r) == r.op = "append" \/ (r.op = "add_column" /\ exists(r.name))

CommitEncodings(t) ==
  /\ pc[t] = IF FrameFirst(req[t]) THEN "last" ELSE "first"
  /\ req[t].op # "load"
  /\ categories_' = append(categories_, local_categories[t])
  /\ IF pc[t] = "last" THEN Done(t)
     ELSE Goto(t, "last") /\ UNCHANGED <<mode, req, own>>
  /\ UNCHANGED <<data_frames_, disk, counters>>

\* Whether the frame is added to the one of that name, or replaces it.
Appends(r) ==
  /\ exists(r.name)
  /\ r.op \in {"append", "add_column"} \/ (r.op = "from" /\ r.append)

Extended(frame, by) == [frame EXCEPT !.rows = @ \o by.rows, !.sent = @ \o by.sent]

CommitFrame(t) ==
  LET r == req[t]
      old == data_frames_[r.name]
      new == IF Appends(r) THEN Extended(old, df[t]) ELSE df[t]
      throws == Appends(r) /\ old.frozen_
  IN  /\ pc[t] = IF FrameFirst(r) THEN "first" ELSE "last"
      /\ Len(new.rows) <= MaxRows
      /\ data_frames_' = IF throws THEN data_frames_
                         ELSE [data_frames_ EXCEPT ![r.name] = new]
      /\ IF throws \/ pc[t] = "last" THEN Done(t)
         ELSE Goto(t, "last") /\ UNCHANGED <<mode, req, own>>
      /\ UNCHANGED <<categories_, disk, counters>>

-----------------------------------------------------------------------------
(* Reading, freezing, deleting *)

\* get_data_frame_content and the other handlers under a ReadLock: what they
\* see is what ReadersSeeWhatWasSent is about.
GetContent(t) ==
  /\ pc[t] = "get_content"
  /\ Done(t)
  /\ UNCHANGED <<memory, disk, counters>>

Freeze(t) ==
  /\ pc[t] = "freeze"
  /\ data_frames_' = IF exists(req[t].name)
                     THEN [data_frames_ EXCEPT ![req[t].name].frozen_ = TRUE]
                     ELSE data_frames_
  /\ Done(t)
  /\ UNCHANGED <<categories_, disk, counters>>

Delete(t) ==
  LET r == req[t]
  IN  /\ pc[t] = "delete"
      /\ data_frames_' = [data_frames_ EXCEPT ![r.name] = NoFrame]
      /\ disk_frames' = IF r.mem_only THEN disk_frames
                        ELSE [disk_frames EXCEPT ![r.name] = NoFrame]
      /\ Done(t)
      /\ UNCHANGED <<categories_, disk_categories, counters>>

-----------------------------------------------------------------------------
(* Saving, under the weak write lock *)

\* DataFrame::save has written the frame to a temporary directory, and removes
\* the directory of an earlier save.
SaveRemove(t) ==
  /\ pc[t] = "save_remove"
  /\ IF exists(req[t].name)
     THEN /\ disk_frames' = [disk_frames EXCEPT ![req[t].name] = NoFrame]
          /\ Goto(t, "save_rename")
          /\ UNCHANGED <<mode, req, own>>
     ELSE Done(t) /\ UNCHANGED disk_frames
  /\ UNCHANGED <<memory, disk_categories, counters>>

\* Mutant: the request ends without save_encodings.
SaveFrameOnly(t) ==
  /\ pc[t] = "save_rename"
  /\ disk_frames' = [disk_frames EXCEPT ![req[t].name] =
                       [data_frames_[req[t].name] EXCEPT !.encoding = GLOBAL]]
  /\ Done(t)
  /\ UNCHANGED <<memory, disk_categories, counters>>

\* The encoding is not saved with the frame: it is loaded with the global one.
SaveRename(t) ==
  /\ pc[t] = "save_rename"
  /\ disk_frames' = [disk_frames EXCEPT ![req[t].name] =
                       [data_frames_[req[t].name] EXCEPT !.encoding = GLOBAL]]
  /\ Goto(t, "save_truncate")
  /\ UNCHANGED <<memory, mode, req, own, disk_categories, counters>>

\* FileHandler::save_encodings opens the file, which empties it ...
SaveTruncate(t) ==
  /\ pc[t] = "save_truncate"
  /\ IF categories_ = <<>>
     THEN Done(t) /\ UNCHANGED disk_categories
     ELSE /\ disk_categories' = <<>>
          /\ Goto(t, "save_write")
          /\ UNCHANGED <<mode, req, own>>
  /\ UNCHANGED <<memory, disk_frames, counters>>

\* ... and writes one string after the other.
SaveWrite(t) ==
  /\ pc[t] = "save_write"
  /\ disk_categories' = Append(disk_categories, categories_[Len(disk_categories) + 1])
  /\ IF Len(disk_categories') = Len(categories_) THEN Done(t)
     ELSE UNCHANGED <<mode, pc, req, own>>
  /\ UNCHANGED <<memory, disk_frames, counters>>

-----------------------------------------------------------------------------
Saving(t) ==
  pc[t] \in {"save_remove", "save_rename", "save_truncate", "save_write"}

\* The engine dies, possibly in the middle of a string, and is started again:
\* ProjectManager::set_project clears everything and loads the encodings.
Crash ==
  LET writing == \E t \in Clients : pc[t] = "save_write"
  IN  /\ crashes < MaxCrashes
      /\ crashes' = crashes + 1
      /\ torn' = (torn \/ \E t \in Clients : Saving(t))
      /\ \E cut \in IF writing THEN {<<>>, <<CutString>>} ELSE {<<>>} :
           disk_categories' = disk_categories \o cut
      /\ categories_' = append(<<>>, AsEncoding(disk_categories'))
      /\ data_frames_' = [n \in Names |-> NoFrame]
      /\ mode' = [t \in Clients |-> "free"]
      /\ pc' = [t \in Clients |-> "idle"]
      /\ req' = [t \in Clients |-> Idle]
      /\ local_categories' = [t \in Clients |-> New(<<>>)]
      /\ df' = [t \in Clients |-> NoFrame]
      /\ UNCHANGED <<disk_frames, requests>>

Next ==
  \/ \E t \in Clients :
       \/ \E r \in Requests : Begin(t, r)
       \/ Build(t) \/ BuildFails(t) \/ Upgrade(t)
       \/ CommitEncodings(t) \/ CommitFrame(t)
       \/ GetContent(t) \/ Freeze(t) \/ Delete(t)
       \/ SaveRemove(t) \/ SaveRename(t) \/ SaveTruncate(t) \/ SaveWrite(t)
  \/ Crash

Spec == Init /\ [][Next]_vars

-----------------------------------------------------------------------------
(* Properties *)

IsFrame(f) ==
  f \in Frames /\ Len(f.rows) = Len(f.sent) /\ Len(f.rows) <= MaxRows

\* A thread holds of the lock what its place in the handler calls for.
TypeOK ==
  /\ categories_ \in Seq(Strings \cup {CutString})
  /\ disk_categories \in Seq(Strings \cup {CutString})
  /\ \A n \in Names : /\ exists(n) => IsFrame(data_frames_[n])
                      /\ disk_frames[n] # NoFrame => IsFrame(disk_frames[n])
  /\ mode \in [Clients -> Lock!Modes]
  /\ \A t \in Clients :
       /\ local_categories[t] \in LocalEncodings
       /\ mode[t] = "free" <=> pc[t] = "idle"
       /\ mode[t] = "weak" <=> pc[t] \in {"build", "upgrade"} \/ Saving(t)
       /\ mode[t] = "read" <=> pc[t] = "get_content"

\* The strings that ids stand for in an encoding on top of the global one.
Decoded(e, rows) == [i \in DOMAIN rows |-> int_to_string(e, categories_, rows[i])]

\* Whoever holds the lock, if only for reading, finds in every data frame, by
\* the global encoding, the strings that clients have put there: none of the
\* requests in between has given an id to another string, or shows its changes
\* half done.  The torn writes of a crash are excluded.
ReadersSeeWhatWasSent ==
  ~torn /\ (\A t \in Clients : mode[t] # "write") =>
    \A n \in Names : exists(n) =>
      Decoded(AsEncoding(categories_), data_frames_[n].rows) = data_frames_[n].sent

\* What a frame shows by its own encoding is the string that was sent, or NULL,
\* but never another string: the ids of a request's encoding, given before they
\* are appended to the global encoding, are the global ones.
NeverAnotherString ==
  ~torn => \A n \in Names : exists(n) /\ data_frames_[n].encoding # GLOBAL =>
    LET f == data_frames_[n]
        shown == Decoded(f.encoding, f.rows)
    IN  \A i \in DOMAIN f.rows : shown[i] \in {f.sent[i], NULL}

\* Every saved data frame can be decoded by the saved encoding: while nobody
\* is saving, and as long as no crash has interrupted a save, restarts included.
SavedFramesAreReadable ==
  ~torn /\ (\A t \in Clients : ~Saving(t)) =>
    \A n \in Names : disk_frames[n] # NoFrame =>
      Decoded(AsEncoding(disk_categories), disk_frames[n].rows) = disk_frames[n].sent

\* What get_data_frame_content shows: "The command used to append data received
\* from the client to an existing data frame" (commands/DataFrameCommand.hpp:
\* 87-88), so what was appended is in it.
ContentIsWhatWasSent ==
  (\A t \in Clients : mode[t] # "write") =>
    \A n \in Names : exists(n) =>
      LET f == data_frames_[n]
          e == IF f.encoding = GLOBAL THEN AsEncoding(categories_) ELSE f.encoding
      IN  Decoded(e, f.rows) = f.sent

\* The run that passes does not look further after a torn write.
NotTorn == ~torn
=============================================================================
