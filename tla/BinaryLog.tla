------------------------------- MODULE BinaryLog -------------------------------
(***************************************************************************)
(* market_data/binary_logger.hpp: BinaryLogger, which appends records to a *)
(* file through a buffer and rotates the file when it is full, and         *)
(* ReplayEngine, which reads such a file back, as titans_replay does.      *)
(*                                                                         *)
(* A file is a sequence of cells, the unit in which sizes are counted: one *)
(* for the file's header, one for the header of a record and the rest for  *)
(* its body.  The name of a file is the symbol and the second it is opened *)
(* in, so that a file opened twice in a second is emptied.  The process    *)
(* may die at any moment: what has been written stays, the buffer is lost. *)
(* A write is taken to write all it is given.                              *)
(***************************************************************************)
EXTENDS Integers, Sequences, FiniteSets, SequencesExt

CONSTANTS
  BufferSize,   \* buffer_size
  MaxFileSize,  \* max_file_size
  RecordSizes,  \* sizes of records: a snapshot's depends on its levels
  MaxRecords,   \* bound on the number of records logged
  MaxClock,     \* bound on the clock
  MaxOpened     \* bound on the number of times a program opens a log

\* What the constants have to be; the run that instantiates the module assumes it.
LogAssumption ==
  /\ BufferSize \in Nat \ {0} /\ RecordSizes \subseteq Nat \ {0}
  /\ {MaxFileSize, MaxRecords, MaxOpened} \subseteq Nat /\ MaxClock \in Nat \ {0}

VARIABLES
  disk,         \* the files: name -> cells
  heads,        \* name -> what close() has put in the header, 0 for nothing yet
  pc,           \* where the logger is, "closed" when is_open_ is false
  rotating,     \* close() was called by check_rotation(), and open() comes next
  path,         \* current_path_
  buffer,       \* write_buffer_, up to buffer_pos_
  rest,         \* what write_raw() has still to copy
  fileSize,     \* file_size_
  numRecords,   \* num_records_
  clock,        \* now_ns(), and the second in a file's name
  stamps,       \* history: the timestamp of each record logged
  logged,       \* history: name -> the records logged since the file was emptied
  opened        \* history: number of calls of open() by a program

vars == <<disk, heads, pc, rotating, path, buffer, rest, fileSize, numRecords,
          clock, stamps, logged, opened>>

Seconds == 1..MaxClock
Cell == [rec : 0..MaxRecords, part : Nat, of : RecordSizes \cup {1}]
Cells(r, size) == [i \in 1..size |-> [rec |-> r, part |-> i, of |-> size]]
FileHeader == Cells(0, 1)

TypeOK ==
  /\ DOMAIN disk \subseteq Seconds /\ \A n \in DOMAIN disk : disk[n] \in Seq(Cell)
  /\ heads \in [DOMAIN disk -> 0..MaxRecords \cup {-1}]
  /\ pc \in {"closed", "open", "header", "idle", "copy", "flush", "rewrite"}
  /\ rotating \in BOOLEAN /\ path \in Seconds
  /\ buffer \in Seq(Cell) /\ Len(buffer) < BufferSize /\ rest \in Seq(Cell)
  /\ fileSize \in Nat /\ numRecords \in 0..MaxRecords
  /\ clock \in Seconds /\ stamps \in Seq(Seconds)
  /\ logged \in [DOMAIN disk -> Seq(1..MaxRecords)] /\ opened \in 0..MaxOpened

Init ==
  /\ disk = <<>> /\ heads = <<>> /\ logged = <<>>
  /\ pc = "closed" /\ rotating = FALSE /\ path = 1
  /\ buffer = <<>> /\ rest = <<>> /\ fileSize = 0 /\ numRecords = 0
  /\ clock = 1 /\ stamps = <<>> /\ opened = 0

-------------------------------------------------------------------------------
(* open()                                                                  *)

Begin ==
  /\ pc = "closed" /\ opened < MaxOpened
  /\ pc' = "open" /\ opened' = opened + 1
  /\ UNCHANGED <<disk, heads, rotating, path, buffer, rest, fileSize, numRecords, clock, stamps, logged>>

With(f, n, v) == [m \in DOMAIN f \cup {n} |-> IF m = n THEN v ELSE f[m]]

\* The file is made, or emptied.  file_size_ and num_records_ go on.
OpenFile ==
  /\ pc = "open"
  /\ path' = clock
  /\ disk' = With(disk, clock, <<>>) /\ heads' = With(heads, clock, -1)
  /\ logged' = With(logged, clock, <<>>)
  /\ buffer' = <<>>
  /\ pc' = "header" /\ rotating' = FALSE
  /\ UNCHANGED <<rest, fileSize, numRecords, clock, stamps, opened>>

OpenFails ==
  /\ pc = "open"
  /\ pc' = "closed" /\ rotating' = FALSE
  /\ UNCHANGED <<disk, heads, path, buffer, rest, fileSize, numRecords, clock, stamps, logged, opened>>

Flush(b) ==
  /\ disk' = [disk EXCEPT ![path] = @ \o b]
  /\ fileSize' = fileSize + Len(b)
  /\ buffer' = <<>>

WriteHeader ==
  /\ pc = "header"
  /\ Flush(FileHeader)
  /\ pc' = "idle"
  /\ UNCHANGED <<heads, rotating, path, rest, numRecords, clock, stamps, logged, opened>>

-------------------------------------------------------------------------------
(* log_trade(), log_quote() and the rest: write_raw(), then check_rotation.*)

\* A quote bears the time the exchange gave it, the others that of logging.
Log(size, ts) ==
  /\ pc = "idle" /\ Len(stamps) < MaxRecords
  /\ rest' = Cells(Len(stamps) + 1, size)
  /\ stamps' = Append(stamps, ts)
  /\ logged' = [logged EXCEPT ![path] = Append(@, Len(stamps) + 1)]
  /\ pc' = "copy"
  /\ UNCHANGED <<disk, heads, rotating, path, buffer, fileSize, numRecords, clock, opened>>

\* Mutant: what does not fit into the buffer is not copied later.
CopyChunk_Truncated ==
  /\ pc = "copy" /\ rest # <<>>
  /\ LET fits == BufferSize - Len(buffer)
         b == buffer \o SubSeq(rest, 1, fits)
     IN  /\ rest' = <<>>
         /\ IF Len(rest) < fits THEN buffer' = buffer \o rest /\ UNCHANGED <<disk, fileSize>>
            ELSE Flush(b)
  /\ UNCHANGED <<heads, pc, rotating, path, numRecords, clock, stamps, logged, opened>>
\* One round of write_raw(): as much as fits, and a full buffer is flushed.
CopyChunk ==
  /\ pc = "copy" /\ rest # <<>>
  /\ LET fits == BufferSize - Len(buffer)
     IN  IF Len(rest) < fits
         THEN buffer' = buffer \o rest /\ rest' = <<>> /\ UNCHANGED <<disk, fileSize>>
         ELSE /\ Flush(buffer \o SubSeq(rest, 1, fits))
              /\ rest' = SubSeq(rest, fits + 1, Len(rest))
  /\ UNCHANGED <<heads, pc, rotating, path, numRecords, clock, stamps, logged, opened>>

EndLog ==
  /\ pc = "copy" /\ rest = <<>>
  /\ numRecords' = numRecords + 1
  /\ rotating' = (fileSize + Len(buffer) >= MaxFileSize)
  /\ pc' = IF rotating' THEN "flush" ELSE "idle"
  /\ UNCHANGED <<disk, heads, path, buffer, rest, fileSize, clock, stamps, logged, opened>>

-------------------------------------------------------------------------------
(* flush(), close(), and the end of the process                            *)

FlushCalled ==
  /\ pc = "idle" /\ buffer # <<>>
  /\ Flush(buffer)
  /\ UNCHANGED <<heads, pc, rotating, path, rest, numRecords, clock, stamps, logged, opened>>

Close ==
  /\ pc = "idle"
  /\ pc' = "flush"
  /\ UNCHANGED <<disk, heads, rotating, path, buffer, rest, fileSize, numRecords, clock, stamps, logged, opened>>

CloseFlush ==
  /\ pc = "flush"
  /\ Flush(buffer)
  /\ pc' = "rewrite"
  /\ UNCHANGED <<heads, rotating, path, rest, numRecords, clock, stamps, logged, opened>>

CloseHeader ==
  /\ pc = "rewrite"
  /\ heads' = [heads EXCEPT ![path] = numRecords]
  /\ pc' = IF rotating THEN "open" ELSE "closed"
  /\ UNCHANGED <<disk, rotating, path, buffer, rest, fileSize, numRecords, clock, stamps, logged, opened>>

\* The process dies; another starts with a logger of its own.
Crash ==
  /\ pc # "closed"
  /\ pc' = "closed" /\ rotating' = FALSE
  /\ buffer' = <<>> /\ rest' = <<>> /\ fileSize' = 0 /\ numRecords' = 0
  /\ UNCHANGED <<disk, heads, path, clock, stamps, logged, opened>>

Tick ==
  /\ clock < MaxClock
  /\ clock' = clock + 1
  /\ UNCHANGED <<disk, heads, pc, rotating, path, buffer, rest, fileSize, numRecords, stamps, logged, opened>>

Next ==
  \/ Begin \/ OpenFile \/ OpenFails \/ WriteHeader
  \/ \E size \in RecordSizes, ts \in 1..clock : Log(size, ts)
  \/ CopyChunk \/ EndLog
  \/ FlushCalled \/ Close \/ CloseFlush \/ CloseHeader
  \/ Crash \/ Tick

Spec == Init /\ [][Next]_vars

-------------------------------------------------------------------------------
(* ReplayEngine                                                            *)

\* open() takes a file that has its header.
Opens(cells) == cells # <<>> /\ cells[1].rec = 0

\* Mutant: a record that runs over the end of the file is dispatched.
Whole_Unchecked(cells, p) == p <= Len(cells)
\* The record at p, and its header before it, are inside the file.
Whole(cells, p) == p <= Len(cells) /\ p + cells[p].of - 1 <= Len(cells)

\* replay(), next_record(): the records dispatched, in order, from position 2.
Replay(cells) ==
  LET from[p \in Nat \ {0}] == IF ~Whole(cells, p) THEN <<>>
                         ELSE <<cells[p].rec>> \o from[p + cells[p].of]
  IN  IF Opens(cells) THEN from[2] ELSE <<>>

\* Mutant: the loop ends at a record stamped with the end of the range.
ReplayRange_Exclusive(cells, start, end) ==
  LET from[p \in Nat \ {0}] ==
        IF ~Whole(cells, p) \/ stamps[cells[p].rec] >= end THEN <<>>
        ELSE (IF stamps[cells[p].rec] >= start THEN <<cells[p].rec>> ELSE <<>>)
             \o from[p + cells[p].of]
  IN  IF Opens(cells) THEN from[2] ELSE <<>>
\* replay_range(): the loop ends at the first record stamped after the range.
ReplayRange(cells, start, end) ==
  LET from[p \in Nat \ {0}] ==
        IF ~Whole(cells, p) \/ stamps[cells[p].rec] > end THEN <<>>
        ELSE (IF stamps[cells[p].rec] >= start THEN <<cells[p].rec>> ELSE <<>>)
             \o from[p + cells[p].of]
  IN  IF Opens(cells) THEN from[2] ELSE <<>>

-------------------------------------------------------------------------------
(* ReplayIsWhole: whenever the process dies, and wherever a flush has cut  *)
(* a record, what is replayed from a file is the first of the records      *)
(* logged to it: each that is there to its last cell, none that is torn,   *)
(* none twice.  After close() it is all of them.  replay_range()           *)
(* dispatches records of the range only, in the order in which they were   *)
(* logged (and numbered); and all of them if that is the order of their    *)
(* timestamps.                                                             *)
OnDisk(n, r) == \E c \in DOMAIN disk[n] : disk[n][c].rec = r /\ disk[n][c].part = disk[n][c].of
ReplayIsWhole ==
  /\ TypeOK
  /\ \A n \in DOMAIN disk :
       LET all == Replay(disk[n])
       IN  /\ IsPrefix(all, logged[n])
           /\ \A k \in DOMAIN logged[n] : OnDisk(n, logged[n][k]) <=> k <= Len(all)
           /\ heads[n] # -1 => all = logged[n]
           /\ \A s, e \in Seconds :
                LET range == ReplayRange(disk[n], s, e)
                    within == {r \in ToSet(all) : stamps[r] \in s..e}
                IN  /\ \A i, j \in DOMAIN range : i < j => range[i] < range[j]
                    /\ ToSet(range) \subseteq within
                    /\ (\A i, j \in DOMAIN all : i < j => stamps[all[i]] <= stamps[all[j]])
                         => ToSet(range) = within
===============================================================================
