-------------------------- MODULE SessionSnapshots --------------------------
(***************************************************************************)
(* Snapshots of the stores, their retention, and what the operator's       *)
(* logout leaves of them (operator_snapshot.go, operator_session_read.go). *)
(*                                                                         *)
(* A snapshot copies each database to a .partial file, renames all of them *)
(* when every copy is on disk, and then prunes older sets.  One that holds *)
(* the session's keys registers as a reader: the logout cancels it, waits  *)
(* for its end and removes every copy of the keys.  The process may die at *)
(* any step; what it had written stays.                                    *)
(***************************************************************************)
EXTENDS Integers, Sequences, FiniteSets

CONSTANTS
  Keep,       \* WHATSAPP_SNAPSHOT_KEEP
  MaxSets,    \* bound: snapshots taken
  MaxBad,     \* bound: failing file operations
  MaxDeath    \* bound: crashes

ASSUME SnapshotAssumption == Keep \in Nat \ {0}

VARIABLES
  files,      \* the snapshot directory: set, database and whether partial
  spc, at,    \* the running snapshot: control and position
  made,       \* ... the files it has copied, in order
  keys,       \* ... holds the session
  cancelled,  \* ... its context has ended
  nSets,      \* number of the last snapshot begun; sets age in this order
  idle, gone, \* operatorLogout and local_session_wiped, both durable
  opc,        \* the logout
  named,      \* history: sets that ever had a file under its final name
  answered,   \* history: the files of the sets answered as made, but for the keys
  nBad, nDeath

snapVars == <<files, spc, at, made, keys, cancelled, nSets, idle, gone, opc, named, answered,
              nBad, nDeath>>

Databases(session) == IF session THEN <<"messages", "notes", "whatsapp">> ELSE <<"messages", "notes">>
File(s, db, partial) == [set |-> s, db |-> db, partial |-> partial]
Running == spc # "none"
Bad(ok) == IF ok THEN UNCHANGED nBad ELSE nBad < MaxBad /\ nBad' = nBad + 1

SnapInit ==
  /\ files = {} /\ spc = "none" /\ at = 1 /\ made = <<>> /\ keys = FALSE /\ cancelled = FALSE /\ nSets = 0
  /\ idle = FALSE /\ gone = FALSE /\ opc = "none"
  /\ named = {} /\ answered = {} /\ nBad = 0 /\ nDeath = 0

\* handleSnapshot: one at a time, and none of the session once a logout has begun
\* (beginArchiveSessionRead).
BeginSnapshot(session) ==
  /\ ~Running /\ nSets < MaxSets
  /\ session => ~idle
  /\ nSets' = nSets + 1 /\ keys' = session /\ cancelled' = FALSE
  /\ spc' = "copy" /\ at' = 1
  /\ UNCHANGED <<files, made, idle, gone, opc, named, answered, nBad, nDeath>>

\* The context is looked at before each database and each renaming; a cancelled
\* snapshot undoes what it made.
Look ==
  /\ spc \in {"copy", "rename", "published"}
  /\ spc' = IF cancelled THEN "undo"
            ELSE [copy |-> "copying", rename |-> "renaming", published |-> "prune"][spc]
  /\ at' = IF cancelled THEN 1 ELSE at
  /\ UNCHANGED <<files, made, keys, cancelled, nSets, idle, gone, opc, named, answered, nBad, nDeath>>

\* The store may have no notes.db; the marker of an unfinished reset goes with it.
Pieces(db) == IF db = "notes" THEN {<<>>, <<"notes">>, <<"notes", "reset">>} ELSE {<<db>>}

\* snapshotStores, each database: VACUUM INTO a new partial file, hash and sync it.  A
\* failure leaves some of the files, or none.
Copy(ok) ==
  LET db == Databases(keys)[at]
      last == at = Len(Databases(keys))
      done == ok /\ ~cancelled
  IN /\ spc = "copying"
     /\ Bad(ok \/ cancelled)
     /\ \E piece \in Pieces(db) : \E n \in IF done THEN {Len(piece)} ELSE 0..Len(piece) :
          /\ files' = files \cup {File(nSets, piece[i], TRUE) : i \in 1..n}
          /\ made' = IF done THEN made \o piece ELSE made
     /\ spc' = IF ~done THEN "undo" ELSE IF last THEN "rename" ELSE "copy"
     /\ at' = IF done /\ ~last THEN at + 1 ELSE 1
     /\ UNCHANGED <<keys, cancelled, nSets, idle, gone, opc, named, answered, nDeath>>

\* Publication, when every partial file is complete: rename, then sync the directory.
Rename(ok) ==
  LET part  == File(nSets, made[at], TRUE)
      whole == File(nSets, made[at], FALSE)
      last  == at = Len(made)
  IN /\ spc = "renaming"
     /\ Bad(ok)
     /\ \/ /\ part \in files
           /\ files' = (files \ {part}) \cup {whole} /\ named' = named \cup {nSets}
        \/ ~ok /\ UNCHANGED <<files, named>>
     /\ spc' = IF ~ok THEN "undo" ELSE IF last THEN "published" ELSE "rename"
     /\ at' = IF ok /\ ~last THEN at + 1 ELSE 1
     /\ UNCHANGED <<made, keys, cancelled, nSets, idle, gone, opc, answered, nDeath>>

Ended == spc' = "none" /\ made' = <<>> /\ keys' = FALSE /\ cancelled' = FALSE

\* The deferred removal of every name created, partial or final.
Undo ==
  /\ spc = "undo"
  /\ files' = {f \in files : f.set # nSets} /\ Ended
  /\ UNCHANGED <<at, nSets, idle, gone, opc, named, answered, nBad, nDeath>>

\* Fault: the current set takes two of the places to keep.
MutDoomed ==
  LET others == {f.set : f \in {f \in files : ~f.partial}} \ {nSets}
  IN {s \in others : Cardinality({t \in others : t > s}) + 2 >= Keep}

\* pruneSnapshotSets: the older sets beyond the newest Keep - 1, the current apart.
\* Partial files are no set.
Doomed ==
  LET others == {f.set : f \in {f \in files : ~f.partial}} \ {nSets}
  IN {s \in others : Cardinality({t \in others : t > s}) + 1 >= Keep}

\* The files a snapshot answers with, the keys apart.
Answer == {f \in {File(nSets, made[i], FALSE) : i \in 1..Len(made)} : f.db # "whatsapp"}

\* Retention, file by file; a failure on the way is only a warning.
Prune(ok) ==
  LET old == {f \in files : ~f.partial /\ f.set \in Doomed}
  IN /\ spc = "prune"
     /\ Bad(ok) /\ (ok \/ old # {})
     /\ \E out \in IF ok /\ ~cancelled THEN {old} ELSE SUBSET old : files' = files \ out
     /\ answered' = IF cancelled THEN answered ELSE answered \cup Answer
     /\ Ended
     /\ UNCHANGED <<at, nSets, idle, gone, opc, named, nDeath>>
-----------------------------------------------------------------------------
\* The request's deadline or its client ends the context.
Deadline ==
  /\ Running /\ ~cancelled /\ nBad < MaxBad
  /\ cancelled' = TRUE /\ nBad' = nBad + 1
  /\ UNCHANGED <<files, spc, at, made, keys, nSets, idle, gone, opc, named, answered, nDeath>>

\* logout: park, then cancel the readers of the session (cancelArchiveSessionReads).
LogoutBegin ==
  /\ opc = "none" /\ ~gone
  /\ idle' = TRUE /\ cancelled' = (cancelled \/ keys) /\ opc' = "wait"
  /\ UNCHANGED <<files, spc, at, made, keys, nSets, gone, named, answered, nBad, nDeath>>

ReaderDone == ~keys

\* The reader ends, or the request gives up and the instance stays parked.
LogoutWait ==
  /\ opc = "wait"
  /\ \/ ReaderDone /\ opc' = "remove"
     \/ keys /\ opc' = "none"
  /\ UNCHANGED <<files, spc, at, made, keys, cancelled, nSets, idle, gone, named, answered, nBad, nDeath>>

\* removeSessionSnapshots: the copies of the keys of every set, leftovers of an
\* interrupted snapshot included.
KeyFiles == {f \in files : f.db = "whatsapp"}

LogoutRemove(ok) ==
  /\ opc = "remove"
  /\ Bad(ok) /\ (ok \/ KeyFiles # {})
  /\ \E out \in IF ok THEN {KeyFiles} ELSE SUBSET KeyFiles : files' = files \ out
  /\ gone' = ok /\ opc' = "none"
  /\ UNCHANGED <<spc, at, made, keys, cancelled, nSets, idle, named, answered, nDeath>>

\* restart: a wiped instance may be linked again.
Relink ==
  /\ gone /\ opc = "none"
  /\ idle' = FALSE /\ gone' = FALSE
  /\ UNCHANGED <<files, spc, at, made, keys, cancelled, nSets, opc, named, answered, nBad, nDeath>>

Die ==
  /\ nDeath < MaxDeath /\ nDeath' = nDeath + 1
  /\ Ended /\ at' = 1 /\ opc' = "none"
  /\ UNCHANGED <<files, nSets, idle, gone, named, answered, nBad>>

SnapNext ==
  \/ Look \/ Undo \/ Deadline \/ LogoutBegin \/ LogoutWait \/ Relink \/ Die
  \/ \E b \in BOOLEAN : BeginSnapshot(b) \/ Copy(b) \/ Rename(b) \/ Prune(b) \/ LogoutRemove(b)

SnapSpec == SnapInit /\ [][SnapNext]_snapVars
-----------------------------------------------------------------------------
\* After a logout has said that the session is wiped, no copy of its keys is left in
\* the snapshot directory, published or partial, until the instance is linked again:
\* no snapshot in flight, interrupted or failed brings one back.
KeysGone == gone => KeyFiles = {}

\* A file of a set that was answered, whatever the store held of notes and of a reset, goes
\* only to Keep newer sets.  A set counts as newer once one of its files has its final
\* name: one cut short by a crash takes a place too (pruneSnapshotSets).
SetsRetained ==
  \A f \in answered : f \notin files => Cardinality({t \in named : t > f.set}) >= Keep
=============================================================================
