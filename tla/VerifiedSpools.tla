--------------------------- MODULE VerifiedSpools ---------------------------
(***************************************************************************)
(* The pool of verified private files that readers of the S3 cache share.  *)
(* An entry is charged with its size from the moment it is reserved until  *)
(* its file is removed; it becomes reusable once its bytes were verified,  *)
(* stays while a reader holds it, and goes when it expires idle, when the  *)
(* object is removed, when room is needed or when the pool closes.  A      *)
(* transient entry is reserved generously and shrinks to what the download *)
(* turned out to hold; its download goes on while the pool may close.      *)
(***************************************************************************)
EXTENDS Naturals, Sequences, FiniteSets, FiniteSetsExt

CONSTANTS
  Keys,        \* content hashes
  Readers,     \* calls that open a key
  Size,        \* key -> size of its content
  MaxBytes, MaxReaders, MaxEntries,
  Overhead,    \* the 26 bytes a transient reservation adds
  MaxIds,      \* bound: entries created in a behaviour
  OpenFaults   \* bound: root.Open calls that fail

Ids == 1..MaxIds

VARIABLES
  entries,   \* c.entries: key -> entry, 0 for none
  ent,       \* the entries created so far
  bytes,     \* c.bytes
  readers,   \* c.readers
  closed,    \* c.closed
  reader,    \* call -> its reader
  disk,      \* entries whose file exists
  idleTurn,  \* orders idleAt
  left,      \* bound: failing opens still to come
  torn       \* ghost: keys of which an entry was removed while other readers held it

spoolVars == <<entries, ent, bytes, readers, closed, reader, disk, idleTurn, left, torn>>

NoReader == [pc |-> "new", id |-> 0, closed |-> FALSE]

SpoolInit ==
  /\ entries = [k \in Keys |-> 0] /\ ent = <<>>
  /\ bytes = 0 /\ readers = 0 /\ closed = FALSE
  /\ reader = [r \in Readers |-> NoReader]
  /\ disk = {} /\ idleTurn = 0 /\ left = OpenFaults /\ torn = {}

Live == {entries[k] : k \in Keys} \ {0}
SizeOf(S) == MapThenSumSet(LAMBDA i : ent[i].size, S)

-----------------------------------------------------------------------------
(* Opening *)

HasRoom(gone, want) ==
  /\ Cardinality(Live \ gone) < MaxEntries
  /\ want + bytes <= MaxBytes + SizeOf(gone)

\* Idle entries go from the longest idle on, until there is room or none is left.
MakeRoom(want) ==
  LET idle == {i \in Live : ent[i].readers = {}}
      until(t) == {i \in idle : ent[i].idleAt <= t}
      enough == {t \in 0..idleTurn : HasRoom(until(t), want)}
  IN IF HasRoom({}, want) THEN {} ELSE IF enough = {} THEN idle ELSE until(Min(enough))

\* An entry is shared once verified; a reader that knows the size wants that size.
Reusable(i, flexible, want) == ent[i].ready /\ (flexible \/ ent[i].size = want)

\* acquireKey without an entry for the key: room is made, and a transient reservation takes
\* what is left when everything else is in use.
AcquireNew(r, k, flexible) ==
  LET asked == IF flexible THEN Min({Size[k] + 1 + Overhead, MaxBytes}) ELSE Size[k]
      gone == MakeRoom(asked)
      rest == MaxBytes + SizeOf(gone) - bytes
      partial == flexible /\ Cardinality(Live \ gone) < MaxEntries /\ rest > Overhead
      size == IF HasRoom(gone, asked) THEN asked ELSE rest
      id == Len(ent) + 1
  IN /\ reader[r].pc = "new" /\ ~closed /\ readers < MaxReaders /\ entries[k] = 0 /\ Len(ent) < MaxIds
     /\ Size[k] <= MaxBytes
     /\ IF HasRoom(gone, asked) \/ partial
          THEN /\ ent' = Append(ent, [key |-> k, size |-> size, ready |-> FALSE,
                                      readers |-> {r}, idleAt |-> 0])
               /\ entries' = [kk \in Keys |-> IF kk = k THEN id ELSE IF entries[kk] \in gone THEN 0 ELSE entries[kk]]
               /\ bytes' = bytes - SizeOf(gone) + size
               /\ readers' = readers + 1 /\ disk' = (disk \ gone) \cup {id}
               /\ reader' = [reader EXCEPT ![r] = [pc |-> IF flexible THEN "fetch" ELSE "load", id |-> id,
                                                   closed |-> FALSE]]
          ELSE /\ entries' = [kk \in Keys |-> IF entries[kk] \in gone THEN 0 ELSE entries[kk]]
               /\ bytes' = bytes - SizeOf(gone) /\ disk' = disk \ gone
               /\ reader' = [reader EXCEPT ![r].pc = "done"]
               /\ UNCHANGED <<ent, readers>>
     /\ UNCHANGED <<closed, idleTurn, left, torn>>

\* acquireKey on an entry: reused, refused while it loads, or its file cannot be opened.
AcquireExisting(r, k, flexible) ==
  LET i == entries[k]
  IN /\ reader[r].pc = "new" /\ ~closed /\ readers < MaxReaders /\ i # 0
     /\ \/ /\ Reusable(i, flexible, Size[k])
           /\ ent' = [ent EXCEPT ![i].readers = @ \cup {r}]
           /\ readers' = readers + 1
           /\ reader' = [reader EXCEPT ![r] = [pc |-> "read", id |-> i, closed |-> FALSE]]
           /\ UNCHANGED <<entries, bytes, disk, left, torn>>
        \/ /\ Reusable(i, flexible, Size[k]) /\ left > 0 /\ left' = left - 1
           /\ ent' = [ent EXCEPT ![i].ready = FALSE]
           /\ entries' = [entries EXCEPT ![k] = 0] /\ bytes' = bytes - ent[i].size
           /\ disk' = disk \ {i} /\ torn' = IF ent[i].readers = {} THEN torn ELSE torn \cup {k}
           /\ reader' = [reader EXCEPT ![r].pc = "done"] /\ UNCHANGED readers
        \/ /\ ~Reusable(i, flexible, Size[k])
           /\ reader' = [reader EXCEPT ![r].pc = "done"]
           /\ UNCHANGED <<ent, entries, bytes, readers, disk, left, torn>>
     /\ UNCHANGED <<closed, idleTurn>>

\* The pool is closed or has too many readers.
Refused(r) ==
  /\ reader[r].pc = "new" /\ (closed \/ readers >= MaxReaders)
  /\ reader' = [reader EXCEPT ![r].pc = "done"]
  /\ UNCHANGED <<entries, ent, bytes, readers, closed, disk, idleTurn, left, torn>>

-----------------------------------------------------------------------------
(* Loading *)

\* Open verified the downloaded bytes; a pool that closed meanwhile refuses them.
Verified(r) ==
  LET i == reader[r].id
  IN /\ reader[r].pc = "load"
     /\ IF closed \/ reader[r].closed
          THEN reader' = [reader EXCEPT ![r].pc = "close"] /\ UNCHANGED ent
          ELSE /\ ent' = [ent EXCEPT ![i].ready = TRUE]
               /\ reader' = [reader EXCEPT ![r].pc = "read"]
     /\ UNCHANGED <<entries, bytes, readers, closed, disk, idleTurn, left, torn>>

LoadFails(r) ==
  /\ reader[r].pc = "load"
  /\ reader' = [reader EXCEPT ![r].pc = "close"]
  /\ UNCHANGED <<entries, ent, bytes, readers, closed, disk, idleTurn, left, torn>>

\* A transient download whose reservation is too small or whose transfer fails; otherwise its
\* confined file appears, even after the pool closed.
Fetch(r) ==
  LET i == reader[r].id
      k == ent[i].key
  IN /\ reader[r].pc = "fetch"
     /\ \/ reader' = [reader EXCEPT ![r].pc = "unlink"] /\ UNCHANGED disk
        \/ /\ ent[i].size >= Size[k] + Overhead
           /\ disk' = disk \cup {i} /\ reader' = [reader EXCEPT ![r].pc = "shrink"]
     /\ UNCHANGED <<entries, ent, bytes, readers, closed, idleTurn, left, torn>>

\* The charge of a transient entry once its content is known.
Shrunk(i) == bytes - (ent[i].size - Size[ent[i].key])

\* The verified transient content becomes reusable, unless the pool closed meanwhile.
Shrink(r) ==
  LET i == reader[r].id
  IN /\ reader[r].pc = "shrink"
     /\ IF closed
          THEN reader' = [reader EXCEPT ![r].pc = "unlink"] /\ UNCHANGED <<ent, bytes>>
          ELSE /\ bytes' = Shrunk(i)
               /\ ent' = [ent EXCEPT ![i].size = Size[ent[i].key], ![i].ready = TRUE]
               /\ reader' = [reader EXCEPT ![r].pc = "read"]
     /\ UNCHANGED <<entries, readers, closed, disk, idleTurn, left, torn>>

\* The deferred removal of a transient file that is not kept.
Unlink(r) ==
  /\ reader[r].pc = "unlink"
  /\ disk' = disk \ {reader[r].id}
  /\ reader' = [reader EXCEPT ![r].pc = "close"]
  /\ UNCHANGED <<entries, ent, bytes, readers, closed, idleTurn, left, torn>>

-----------------------------------------------------------------------------
(* Closing, expiry and removal *)

\* The last reader takes an entry along that is not (or no longer) verified.
GoesWithLast(i) == ~ent[i].ready \/ closed

\* reader.Close: the entry becomes idle, or goes with its last reader.
CloseReader(r) ==
  LET i == reader[r].id
      last == ent[i].readers = {r}
      go == last /\ GoesWithLast(i)
  IN /\ reader[r].pc \in {"read", "close"}
     /\ reader' = [reader EXCEPT ![r].pc = "done", ![r].closed = TRUE]
     /\ IF reader[r].closed
          THEN UNCHANGED <<entries, ent, bytes, readers, disk, idleTurn>>
          ELSE /\ readers' = readers - 1
               /\ idleTurn' = IF last /\ ~go THEN idleTurn + 1 ELSE idleTurn
               /\ ent' = [ent EXCEPT ![i].readers = @ \ {r}, ![i].idleAt = idleTurn']
               /\ entries' = IF go THEN [entries EXCEPT ![ent[i].key] = 0] ELSE entries
               /\ bytes' = IF go THEN bytes - ent[i].size ELSE bytes
               /\ disk' = IF go THEN disk \ {i} ELSE disk
     /\ UNCHANGED <<closed, left, torn>>

\* The idle timer.
Expire(i) ==
  /\ i \in Live /\ ent[i].readers = {}
  /\ entries' = [entries EXCEPT ![ent[i].key] = 0]
  /\ bytes' = bytes - ent[i].size /\ disk' = disk \ {i}
  /\ UNCHANGED <<ent, readers, closed, reader, idleTurn, left, torn>>

Discarded(i) == ent[i].readers = {}

\* discard, when the object was removed from the bucket.
Discard(k) ==
  LET i == entries[k]
  IN /\ i # 0 /\ (ent[i].ready \/ ent[i].readers = {})
     /\ ent' = [ent EXCEPT ![i].ready = FALSE]
     /\ entries' = IF Discarded(i) THEN [entries EXCEPT ![k] = 0] ELSE entries
     /\ bytes' = IF Discarded(i) THEN bytes - ent[i].size ELSE bytes
     /\ disk' = IF Discarded(i) THEN disk \ {i} ELSE disk
     /\ UNCHANGED <<readers, closed, reader, idleTurn, left, torn>>

\* Close of the pool at shutdown: every reader is closed and every file removed.
ClosePool ==
  /\ ~closed /\ closed' = TRUE
  /\ LET held == {r \in Readers : \E i \in Live : r \in ent[i].readers}
     IN /\ reader' = [r \in Readers |-> [reader[r] EXCEPT !.closed = @ \/ r \in held]]
        /\ readers' = readers - Cardinality(held)
  /\ ent' = [i \in 1..Len(ent) |-> IF i \in Live THEN [ent[i] EXCEPT !.readers = {}] ELSE ent[i]]
  /\ entries' = [k \in Keys |-> 0]
  /\ bytes' = bytes - SizeOf(Live) /\ disk' = disk \ Live
  /\ UNCHANGED <<idleTurn, left, torn>>

SpoolNext ==
  \/ \E r \in Readers, k \in Keys, f \in BOOLEAN : AcquireNew(r, k, f) \/ AcquireExisting(r, k, f)
  \/ \E r \in Readers : \/ Refused(r) \/ Verified(r) \/ LoadFails(r) \/ Fetch(r) \/ Shrink(r) \/ Unlink(r)
                        \/ CloseReader(r)
  \/ \E i \in Ids : i <= Len(ent) /\ Expire(i)
  \/ \E k \in Keys : Discard(k)
  \/ ClosePool

-----------------------------------------------------------------------------
(* Properties *)

Working == {r \in Readers : reader[r].pc \notin {"new", "done"} /\ ~reader[r].closed}

\* The pool counts its readers exactly, its charge covers every file on disk and stays
\* within its limits, loading, shared, discarded and shrunk entries included, and a
\* reader's file is never removed under it.  An entry whose file cannot be opened is dropped
\* under its other readers and freed again by the last of them: from then on the charge is
\* off, and the files of that key, and of no other, may be lost or left behind.  Files
\* written by a download that outlived the pool are excepted until its end.
SpoolCharged ==
  /\ readers = Cardinality(Working) /\ readers <= MaxReaders
  /\ torn = {} => bytes = SizeOf(Live) /\ bytes <= MaxBytes
  /\ \A r \in Working : ent[reader[r].id].key \notin torn =>
       reader[r].id \in Live /\ (reader[r].pc = "read" => reader[r].id \in disk)
  /\ \A i \in disk \ Live : \/ ent[i].key \in torn
                            \/ closed /\ \E r \in Readers : reader[r].id = i /\ reader[r].pc # "done"

=============================================================================
