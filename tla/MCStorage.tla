----------------------------- MODULE MCStorage -----------------------------
(* Small instances of the S3 cache and of its pool of verified files. *)
EXTENDS Naturals, Sequences, FiniteSets

CONSTANTS h1, h2, h3, p1, p2, r1, r2, r3, sweeper, k1, k2

VARIABLES
  topic,
  scene, bucket, catalog, refs, deletions, uploads, fileHash, hashLock, quotaLock, res, needsLow,
  job, todo, faults, crashes, replays, truth, overdrawn, misled,
  entries, ent, bytes, readers, closed, reader, disk, idleTurn, left, torn

MCHashes == {h1, h2, h3}
MCProcs == {p1, p2, sweeper}

Put(m, d) == [op |-> "put", msg |-> m, download |-> d]
Purge(S) == [op |-> "delete", msgs |-> S]
Read(m) == [op |-> "open", msg |-> m]
Jobs(a, b, c) == [p \in MCProcs |-> IF p = p1 THEN a ELSE IF p = p2 THEN b ELSE c]

Base == [content |-> <<h1, h1, h2, h3>>, cached |-> {}, known |-> 1..4, quota |-> 3, evictable |-> {},
         jobs |-> Jobs({}, {}, {}), faults |-> 0, crashes |-> 0, replays |-> {}, sweeps |-> TRUE]

\* Two messages share an object: one is published while the other is purged and read.
Shared == [Base EXCEPT !.cached = {2}, !.faults = 3, !.crashes = 1,
             !.jobs = Jobs({Put(1, FALSE)}, {Purge({2})}, {Read(2)})]

\* Both messages of an object are published at once, without a recorded hash.
Twins == [Base EXCEPT !.known = {2}, !.faults = 2, !.crashes = 2,
            !.jobs = Jobs({Put(1, TRUE)}, {Put(2, TRUE), Purge({1, 2})}, {})]

\* The quota is full: two publications evict older objects side by side.
Full == [Base EXCEPT !.cached = {1, 3}, !.quota = 2, !.evictable = {1, 3}, !.known = {1, 3, 4}, !.faults = 1, !.crashes = 1,
           !.jobs = Jobs({Put(4, TRUE)}, {Put(2, TRUE)}, {Purge({1})}), !.sweeps = FALSE]

\* As before, and the object a publication waits for is itself evicted.
Reserving == [Base EXCEPT !.quota = 2, !.evictable = 1..4, !.sweeps = FALSE,
                !.jobs = Jobs({Put(1, TRUE)}, {Put(3, TRUE), Put(4, TRUE)}, {Put(2, TRUE)})]

\* A history replay replaces the message while its media is published and purged.
Replaced == [Base EXCEPT !.cached = {2, 3}, !.known = {2, 3}, !.faults = 1, !.replays = {1},
               !.jobs = Jobs({Put(1, FALSE)}, {Purge({2, 3})}, {})]

\* The replay replaces a message that is cached: its new media leaves an orphan behind.
Moved == [Base EXCEPT !.content = <<h1, h1, h2, h2>>, !.cached = {3}, !.known = {3}, !.faults = 1, !.replays = {3},
            !.jobs = Jobs({Put(3, FALSE)}, {Put(4, FALSE)}, {Purge({4})})]

\* The replayed message is selected by a purge and published anew while the purge counts.
Displaced == [Base EXCEPT !.cached = {1, 2}, !.faults = 1, !.crashes = 1, !.replays = {1},
                !.jobs = Jobs({Put(1, FALSE)}, {Purge({1})}, {Read(2)})]

MCScenes == {Displaced, Moved, Shared, Twins, Full, Reserving, Replaced}

S3 == INSTANCE S3Media WITH Hashes <- MCHashes, Messages <- 1..4, Procs <- MCProcs,
                            Sweeper <- sweeper, Scenes <- MCScenes
SP == INSTANCE VerifiedSpools WITH Keys <- {k1, k2}, Readers <- {r1, r2, r3},
        Size <- [k \in {k1, k2} |-> IF k = k1 THEN 2 ELSE 1], MaxBytes <- 3, MaxReaders <- 2,
        MaxEntries <- 2, Overhead <- 1, MaxIds <- 3, OpenFaults <- 1

objectVars == <<scene, bucket, catalog, refs, deletions, uploads, fileHash, hashLock, quotaLock, res,
                needsLow, job, todo, faults, crashes, replays, truth, overdrawn, misled>>
poolVars == <<entries, ent, bytes, readers, closed, reader, disk, idleTurn, left, torn>>
vars == <<topic, objectVars, poolVars>>

Init == topic \in {"objects", "spools"} /\ S3!S3Init /\ SP!SpoolInit
        /\ (topic = "spools" => scene = Shared)

\* The pool may come to rest once every reader is done.
SpoolsRest == SP!Working = {} /\ UNCHANGED poolVars

Next ==
  \/ topic = "objects" /\ S3!S3Next /\ UNCHANGED <<topic, poolVars>>
  \/ topic = "spools" /\ (SP!SpoolNext \/ SpoolsRest) /\ UNCHANGED <<topic, objectVars>>

\* Every goroutine goes on: requests carry timeouts, and locks are handed on.
Fairness ==
  \A p \in MCProcs : WF_vars(topic = "objects" /\ S3!Step(p) /\ UNCHANGED <<topic, poolVars>>)

Spec == Init /\ [][Next]_vars /\ Fairness

\* A reference leads to the object of its message: the object is there or its deletion
\* marker warns the reader, and what a reader may be given is what the archive last learnt
\* the message to contain (publish, purge, evict, sweep and history replays interleaved).
ReferencesTrue == S3!ReferencesLive /\ S3!RightContent

\* What is stored is charged and within its limits: objects in the catalog or the upload
\* journal and under the quota (reserve, announce), verified files in the pool.  Each
\* charge that is taken off twice (evict, discard) lets in one object more, and the files
\* of one key, never more than that.
StorageCharged == S3!ObjectsCharged /\ S3!QuotaHeld /\ SP!SpoolCharged

\* Purging or evicting one message takes nothing from another with the same bytes, unless
\* a message moved to other bytes between the two counts of the references (Delete).
OthersKept == [][S3!OthersKept]_vars

\* The sweep eventually reclaims every object that nothing refers to, and every marker and
\* journal entry that a failure or a crash left behind.
SweepReclaims == <>[](topic = "objects" => S3!Reclaimed)
=============================================================================
