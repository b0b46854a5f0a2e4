------------------------------ MODULE S3Media ------------------------------
(***************************************************************************)
(* The S3 media cache.  Objects are named by the hash of their content and *)
(* shared by every message with that content.  The bucket and the SQLite   *)
(* catalog cannot change together, so an upload is announced in a journal  *)
(* before the PUT and a removal before the DELETE, and the sweeps settle   *)
(* what a failed request or a crash left behind.  A lock per hash orders   *)
(* publication, removal and recovery; the quota lease orders admission,    *)
(* which may evict objects and therefore takes hash locks inside it.  A    *)
(* request that reports an error may or may not have been carried out.     *)
(* Every object has the size 1.                                            *)
(***************************************************************************)
EXTENDS Naturals, FiniteSets, FiniteSetsExt, Functions

CONSTANTS
  Hashes,    \* contents
  Messages,  \* media messages, 1..n from the oldest to the newest
  Procs,     \* goroutines at work on the cache
  Sweeper,   \* the goroutine of the retention loop, one of Procs
  Scenes     \* bound: the archive, the jobs of each goroutine and the faults

None == "none"
Free == "free"

VARIABLES
  scene,      \* the scene of this behaviour
  bucket,     \* objects in the bucket
  catalog,    \* media_cache
  refs,       \* media_cache_refs
  deletions,  \* media_cache_deletions
  uploads,    \* media_cache_uploads
  fileHash,   \* messages.file_sha256
  hashLock,   \* s.locks
  quotaLock,  \* the accounting lease
  res,        \* mediaQuotaReservations, by owner
  needsLow,   \* mediaQuotaNeedsLowWater
  job,        \* goroutine -> its local state
  todo,       \* jobs not started yet
  faults,     \* bound: failures still to come
  crashes,    \* bound: restarts still to come
  replays,    \* history replays that still replace a message
  truth,      \* ghost: the content the archive last learnt for a message
  overdrawn,  \* ghost: how often an eviction removed an object another writer had reserved
  misled      \* ghost: objects whose removal counted a message that had just moved away

store == <<bucket, catalog, refs, deletions, uploads, fileHash>>
locks == <<hashLock, quotaLock>>
ghosts == <<overdrawn, misled>>
bounds == <<scene, todo, faults, crashes, replays, truth>>
s3Vars == <<store, locks, res, needsLow, job, bounds, ghosts>>

NoRes == [on |-> FALSE, hash |-> None, n |-> 0]
Idle == [pc |-> "idle", msg |-> 0, hash |-> None, expected |-> None, up |-> FALSE,
         ret |-> "idle", picks |-> <<>>, sel |-> {}, ask |-> {}, dh |-> None, used |-> 0, walk |-> {},
         then |-> "lock", task |-> None]

S3Init ==
  /\ scene \in Scenes
  /\ catalog = {scene.content[m] : m \in scene.cached} /\ bucket = catalog
  /\ refs = [m \in Messages |-> IF m \in scene.cached THEN scene.content[m] ELSE None]
  /\ fileHash = [m \in Messages |-> IF m \in scene.known THEN scene.content[m] ELSE None]
  /\ deletions = {} /\ uploads = {}
  /\ hashLock = [h \in Hashes |-> Free] /\ quotaLock = Free
  /\ res = [p \in Procs |-> NoRes] /\ needsLow = FALSE
  /\ job = [p \in Procs |-> Idle]
  /\ todo = scene.jobs /\ faults = scene.faults /\ crashes = scene.crashes
  /\ replays = scene.replays
  /\ truth = scene.content /\ overdrawn = 0 /\ misled = {}

At(p, pc) == job[p].pc = pc
Go(p, pc) == job' = [job EXCEPT ![p].pc = pc]

\* A failing request or statement uses one of the bounded faults.
Fails == faults > 0 /\ faults' = faults - 1
Works == UNCHANGED faults
calm == <<scene, todo, crashes, replays, truth>>

-----------------------------------------------------------------------------
(* The catalog *)

\* chargedObjectsSQL: catalogued objects and announced uploads.
Charged == catalog \cup uploads

Referenced(h) == \E m \in Messages : refs[m] = h

\* DELETE FROM media_cache: the references and the deletion marker go with the row.
EraseRow(h) ==
  /\ catalog' = catalog \ {h} /\ deletions' = deletions \ {h} /\ misled' = misled \ {h}
  /\ refs' = [m \in Messages |-> IF refs[m] = h THEN None ELSE refs[m]]

\* A remote DELETE that succeeds, or one that reports an error and may have happened.
RemoteDelete(h, ok) == bucket' \in IF ok THEN {bucket \ {h}} ELSE {bucket, bucket \ {h}}

\* reference: the row a reader may use; the message still names this content.
Usable(m, h) == h # None /\ refs[m] = h /\ h \in catalog /\ fileHash[m] = h

-----------------------------------------------------------------------------
(* Publication *)

\* The download reserves the bytes before the transfer (acquireS3WriteBudget), unless the
\* content is charged already; the copy of an outbound message goes straight to Write.
StartPut(p) ==
  \E t \in todo[p] :
    /\ t.op = "put" /\ At(p, "idle")
    /\ todo' = [todo EXCEPT ![p] = @ \ {t}]
    /\ LET h == truth[t.msg]
           known == fileHash[t.msg]
           budget == t.download /\ known \notin Charged
       IN job' = [job EXCEPT ![p] =
            [Idle EXCEPT !.pc = IF budget THEN "quota" ELSE "bind", !.msg = t.msg, !.hash = h,
                         !.expected = known, !.then = "bind"]]
    /\ UNCHANGED <<store, locks, res, needsLow, scene, faults, crashes, replays, truth, ghosts>>

\* put hashes the spool, reads the message row and refuses content the row does not name;
\* bindS3QuotaReservation then settles the reservation under the lease, before the lock.
Bind(p) ==
  /\ At(p, "bind") /\ (res[p].on => quotaLock = Free)
  /\ LET j == job[p]
         known == fileHash[j.msg]
     IN IF known \notin {None, j.hash}
          THEN Go(p, "end") /\ UNCHANGED res
          ELSE /\ job' = [job EXCEPT ![p].pc = "lock", ![p].expected = known]
               /\ res' = IF res[p].on THEN [res EXCEPT ![p].hash = j.hash, ![p].n = 1] ELSE res
  /\ UNCHANGED <<store, locks, needsLow, bounds, ghosts>>

\* Under the content lock: the bytes are reserved, or the object is charged already.
Admitted(p, h) == res[p].on \/ h \in Charged

\* The loop of put.  Dedupe is decided under the content lock; the lock is given back
\* before admission, which may evict and take content locks itself.
LockHash(p) ==
  /\ At(p, "lock")
  /\ LET h == job[p].hash
     IN /\ hashLock[h] = Free
        /\ IF Admitted(p, h)
             THEN hashLock' = [hashLock EXCEPT ![h] = p] /\ Go(p, "stat")
             ELSE job' = [job EXCEPT ![p].pc = "quota", ![p].then = "lock"] /\ UNCHANGED hashLock
  /\ UNCHANGED <<store, quotaLock, res, needsLow, bounds, ghosts>>

\* Fault: the upload is not announced before it starts.
MutAnnounce(h) == uploads

\* INSERT INTO media_cache_uploads, before the PUT.
Announce(h) == uploads \cup {h}

\* StatObject: an object that is there is adopted, a missing one is announced and uploaded.
Stat(p) ==
  /\ At(p, "stat")
  /\ LET h == job[p].hash
     IN \/ Fails /\ Go(p, "end") /\ UNCHANGED uploads
        \/ /\ Works /\ h \in bucket
           /\ Go(p, "verify") /\ UNCHANGED uploads
        \/ /\ Works /\ h \notin bucket
           /\ uploads' = Announce(h)
           /\ job' = [job EXCEPT ![p].pc = "upload", ![p].up = TRUE]
  /\ UNCHANGED <<bucket, catalog, refs, deletions, fileHash, locks, res, needsLow, calm, ghosts>>

Upload(p) ==
  /\ At(p, "upload")
  /\ LET h == job[p].hash
     IN \/ Works /\ bucket' = bucket \cup {h} /\ Go(p, "verify")
        \/ Fails /\ bucket' \in {bucket, bucket \cup {h}} /\ Go(p, "clean")
  /\ UNCHANGED <<catalog, refs, deletions, uploads, fileHash, locks, res, needsLow, calm, ghosts>>

\* GetObject: the whole object is read back and hashed.
Verify(p) ==
  /\ At(p, "verify")
  /\ \/ Works /\ Go(p, "commit")
     \/ Fails /\ Go(p, "clean")
  /\ UNCHANGED <<store, locks, res, needsLow, calm, ghosts>>

\* Fault: the transaction does not compare the message row again.
MutSameSnapshot(p) == TRUE

\* The message row still names what it named when the spool was hashed.
SameSnapshot(p) == fileHash[job[p].msg] = job[p].expected

\* The publishing transaction.
Commit(p) ==
  /\ At(p, "commit")
  /\ LET h == job[p].hash
         m == job[p].msg
     IN \/ /\ Works /\ SameSnapshot(p)
           /\ catalog' = catalog \cup {h} /\ refs' = [refs EXCEPT ![m] = h]
           /\ deletions' = deletions \ {h} /\ uploads' = uploads \ {h} /\ misled' = misled \ {h}
           /\ fileHash' = [fileHash EXCEPT ![m] = IF job[p].expected = None THEN h ELSE @]
           /\ Go(p, "end")
        \/ /\ \/ Works /\ ~SameSnapshot(p)
              \/ Fails
           /\ Go(p, "clean") /\ UNCHANGED <<catalog, refs, deletions, uploads, fileHash, misled>>
  /\ UNCHANGED <<bucket, locks, res, needsLow, calm, overdrawn>>

\* The deferred cleanup of a put that failed after its PUT: the object is removed, and only
\* then the announcement; otherwise the announcement stays for the sweep.
Clean(p) ==
  /\ At(p, "clean")
  /\ LET h == job[p].hash
     IN \/ ~job[p].up /\ Works /\ Go(p, "end") /\ UNCHANGED bucket
        \/ job[p].up /\ Works /\ RemoteDelete(h, TRUE) /\ Go(p, "unannounce")
        \/ job[p].up /\ Fails /\ RemoteDelete(h, FALSE) /\ Go(p, "end")
  /\ UNCHANGED <<catalog, refs, deletions, uploads, fileHash, locks, res, needsLow, calm, ghosts>>

Unannounce(p) ==
  /\ At(p, "unannounce")
  /\ \/ Works /\ uploads' = uploads \ {job[p].hash}
     \/ Fails /\ UNCHANGED uploads
  /\ Go(p, "end")
  /\ UNCHANGED <<bucket, catalog, refs, deletions, fileHash, locks, res, needsLow, calm, ghosts>>

\* The deferred releases: the content lock, then the reservation.
End(p) ==
  /\ At(p, "end")
  /\ hashLock' = [h \in Hashes |-> IF hashLock[h] = p THEN Free ELSE hashLock[h]]
  /\ quotaLock' = IF quotaLock = p THEN Free ELSE quotaLock
  /\ res' = [res EXCEPT ![p] = NoRes]
  /\ job' = [job EXCEPT ![p] = Idle]
  /\ UNCHANGED <<store, needsLow, bounds, ghosts>>

-----------------------------------------------------------------------------
(* Removal *)

\* Fault: only the selected references are looked at, not those of other messages.
MutLastReference(h, sel) == sel # {}

\* count == obj.selected: as many references as messages were selected.
LastReference(h, sel) == Cardinality({m \in Messages : refs[m] = h}) = Cardinality(sel)

\* INSERT OR IGNORE INTO media_cache_deletions, before the remote DELETE.
Mark(h) == deletions \cup {h}

Pick(S) == [m \in S |-> IF refs[m] \in catalog THEN refs[m] ELSE None]

\* A purge, or the age limit of a sweep: the objects are selected before any lock.
StartDelete(p) ==
  \E t \in todo[p] :
    /\ t.op = "delete" /\ At(p, "idle")
    /\ todo' = [todo EXCEPT ![p] = @ \ {t}]
    /\ job' = [job EXCEPT ![p] = [Idle EXCEPT !.pc = "del", !.picks = Pick(t.msgs)]]
    /\ UNCHANGED <<store, locks, res, needsLow, scene, faults, crashes, replays, truth, ghosts>>

\* The removal of one object starts over under its lock, with one statement for every
\* selected message and another one that counts the references.
LockObject(p, h) ==
  /\ At(p, "del") /\ h \in Range(job[p].picks) \ {None} /\ hashLock[h] = Free
  /\ hashLock' = [hashLock EXCEPT ![h] = p]
  /\ job' = [job EXCEPT ![p].pc = "recheck", ![p].dh = h, ![p].sel = {},
                        ![p].ask = {m \in DOMAIN job[p].picks : job[p].picks[m] = h}]
  /\ UNCHANGED <<store, quotaLock, res, needsLow, bounds, ghosts>>

Recheck(p) ==
  LET m == Min(job[p].ask)
  IN /\ At(p, "recheck") /\ job[p].ask # {}
     /\ job' = [job EXCEPT ![p].ask = @ \ {m}, ![p].picks[m] = None,
                           ![p].sel = IF refs[m] = job[p].dh THEN @ \cup {m} ELSE @]
     /\ UNCHANGED <<store, locks, res, needsLow, bounds, ghosts>>

\* The other objects of the call come next.
NextObject(p) == hashLock' = [hashLock EXCEPT ![job[p].dh] = Free] /\ Go(p, "del")

NothingSelected(p) ==
  /\ At(p, "recheck") /\ job[p].ask = {} /\ job[p].sel = {} /\ NextObject(p)
  /\ UNCHANGED <<store, quotaLock, res, needsLow, bounds, ghosts>>

Count(p) ==
  LET h == job[p].dh
      sel == job[p].sel
  IN /\ At(p, "recheck") /\ job[p].ask = {} /\ sel # {}
     /\ Go(p, IF LastReference(h, sel) THEN "mark" ELSE "unref")
     /\ misled' = IF LastReference(h, sel) /\ \E m \in sel : refs[m] # h THEN misled \cup {h} ELSE misled
     /\ UNCHANGED <<store, locks, res, needsLow, bounds, overdrawn>>

\* The last reference writes the marker; otherwise only the selected references go.
WriteMarker(p) ==
  /\ At(p, "mark") /\ deletions' = Mark(job[p].dh) /\ Go(p, "remove")
  /\ UNCHANGED <<bucket, catalog, refs, uploads, fileHash, locks, res, needsLow, bounds, ghosts>>

Unreference(p) ==
  /\ At(p, "unref") /\ NextObject(p)
  /\ refs' = [m \in Messages |-> IF m \in job[p].sel /\ refs[m] = job[p].dh THEN None ELSE refs[m]]
  /\ UNCHANGED <<bucket, catalog, deletions, uploads, fileHash, quotaLock, res, needsLow, bounds, ghosts>>

\* A statement that fails ends the whole call.
DeleteFails(p) ==
  /\ job[p].pc \in {"recheck", "mark", "unref"} /\ Fails
  /\ hashLock' = [hashLock EXCEPT ![job[p].dh] = Free]
  /\ Go(p, IF job[p].ret = "evict" THEN "end" ELSE "done")
  /\ misled' = IF job[p].dh \in deletions THEN misled ELSE misled \ {job[p].dh}
  /\ UNCHANGED <<store, quotaLock, res, needsLow, calm, overdrawn>>

Remove(p) ==
  /\ At(p, "remove")
  /\ \/ Works /\ RemoteDelete(job[p].dh, TRUE) /\ Go(p, "erase")
     \/ Fails /\ RemoteDelete(job[p].dh, FALSE) /\ Go(p, "settle")
  /\ UNCHANGED <<catalog, refs, deletions, uploads, fileHash, locks, res, needsLow, calm, ghosts>>

\* The row goes after the object; a failed statement leaves the marker and ends the call.
Erase(p) ==
  /\ At(p, "erase")
  /\ hashLock' = [hashLock EXCEPT ![job[p].dh] = Free]
  /\ \/ /\ Works /\ EraseRow(job[p].dh)
        /\ job' = [job EXCEPT ![p].pc = "del", ![p].used = IF @ = 0 THEN 0 ELSE @ - 1]
        /\ overdrawn' = overdrawn + IF job[p].ret = "evict" /\ \E q \in Procs : res[q].on /\ res[q].hash = job[p].dh
                                    THEN 1 ELSE 0
     \/ /\ Fails
        /\ Go(p, IF job[p].ret = "evict" THEN "end" ELSE "done")
        /\ UNCHANGED <<catalog, refs, deletions, ghosts>>
  /\ UNCHANGED <<bucket, uploads, fileHash, quotaLock, res, needsLow, calm>>

\* Fault: a marker whose object is still there is left standing.
MutSettled(h) == IF h \in bucket THEN deletions ELSE deletions \ {h}

Settled(h) == deletions \ {h}

\* reconcileDeletionLocked: a HEAD request decides what an ambiguous removal did.
Reconcile(h) ==
  \/ Fails /\ UNCHANGED <<catalog, refs, deletions, misled>>
  \/ Works /\ h \notin bucket /\ EraseRow(h)
  \/ Works /\ h \in bucket /\ deletions' = Settled(h) /\ misled' = misled \ {h} /\ UNCHANGED <<catalog, refs>>

ReconcilePending(h) ==
  \/ h \in deletions /\ Reconcile(h)
  \/ h \notin deletions /\ Works /\ UNCHANGED <<catalog, refs, deletions, misled>>

Settle(p) ==
  /\ At(p, "settle")
  /\ Reconcile(job[p].dh)
  /\ hashLock' = [hashLock EXCEPT ![job[p].dh] = Free]
  /\ Go(p, "del")
  /\ UNCHANGED <<bucket, uploads, fileHash, quotaLock, res, needsLow, calm, overdrawn>>

\* Delete returns to the purge that called it, or to the eviction.
DeleteReturns(p) ==
  /\ At(p, "del") /\ Range(job[p].picks) \subseteq {None}
  /\ Go(p, IF job[p].ret = "evict" THEN "evict" ELSE "done")
  /\ UNCHANGED <<store, locks, res, needsLow, bounds, ghosts>>

Done(p) ==
  /\ At(p, "done")
  /\ job' = [job EXCEPT ![p] = Idle]
  /\ UNCHANGED <<store, locks, res, needsLow, bounds, ghosts>>

-----------------------------------------------------------------------------
(* Admission *)

\* mediaQuotaLowWater, with a target that leaves room for one object.
Low == IF scene.quota = 0 THEN 0 ELSE scene.quota - 1

Reserved == MapThenSumSet(LAMBDA p : res[p].n, {p \in Procs : res[p].on})

\* Reservations own their bytes until they are released; their hashes are left out of the
\* durable charges, which own the bytes from then on.
UsedBytes ==
  Reserved + Cardinality(Charged \ {res[p].hash : p \in {q \in Procs : res[q].on}})

\* A download of a message without a recorded hash does not know its length either.
Incoming(p) == IF job[p].then = "bind" /\ job[p].expected = None THEN 0 ELSE 1

Fits(used, n) == used < scene.quota /\ n <= scene.quota - used

\* acquireS3MediaQuota: the lease, the accounting, and the oldest references of the types
\* that may be evicted when the bytes do not fit or the last eviction fell short.
Account(p) ==
  /\ At(p, "quota") /\ quotaLock = Free
  /\ LET tight == ~Fits(UsedBytes, Incoming(p)) \/ needsLow
         rows == {m \in scene.evictable : refs[m] \in catalog}
     IN /\ quotaLock' = p
        /\ job' = [job EXCEPT ![p].pc = IF tight THEN "evict" ELSE "decide", ![p].used = UsedBytes,
                              ![p].walk = rows, ![p].ret = "evict"]
  /\ UNCHANGED <<store, hashLock, res, needsLow, bounds, ghosts>>

EvictionDone(p) == job[p].walk = {} \/ (job[p].used <= Low /\ Incoming(p) <= scene.quota - job[p].used)

Evict(p) ==
  /\ At(p, "evict")
  /\ IF EvictionDone(p)
       THEN /\ needsLow' = (scene.evictable # {} /\ job[p].used > Low)
            /\ Go(p, "decide")
       ELSE LET m == Min(job[p].walk)
            IN /\ job' = [job EXCEPT ![p].pc = "del", ![p].picks = Pick({m}), ![p].walk = @ \ {m}]
               /\ UNCHANGED needsLow
  /\ UNCHANGED <<store, locks, res, bounds, ghosts>>

\* Refused at the quota, or the bytes are reserved and the lease is given back.
Decide(p) ==
  /\ At(p, "decide")
  /\ LET j == job[p]
         n == Incoming(p)
     IN IF ~Fits(j.used, n) \/ needsLow
          THEN Go(p, "end") /\ UNCHANGED <<res, quotaLock>>
          ELSE /\ res' = [res EXCEPT ![p] =
                    [on |-> TRUE, hash |-> IF j.then = "bind" THEN j.expected ELSE j.hash,
                     n |-> IF n = 0 THEN scene.quota - j.used ELSE n]]
               /\ quotaLock' = Free
               /\ job' = [job EXCEPT ![p].pc = j.then, ![p].ret = "idle", ![p].used = 0, ![p].walk = {},
                                     ![p].picks = <<>>, ![p].sel = {}, ![p].dh = None]
  /\ UNCHANGED <<store, hashLock, needsLow, bounds, ghosts>>

-----------------------------------------------------------------------------
(* Recovery *)

\* What a sweep finds: ambiguous removals, announced uploads, objects nobody refers to.
Pending(task) ==
  CASE task = "deletion" -> deletions \cap catalog
    [] task = "upload" -> uploads
    [] task = "orphan" -> {h \in catalog : ~Referenced(h)}

\* The pages of a sweep are read before the locks are taken.
StartSweep(p, task, h) ==
  /\ p = Sweeper /\ At(p, "idle") /\ scene.sweeps /\ h \in Pending(task)
  /\ job' = [job EXCEPT ![p] = [Idle EXCEPT !.pc = "sweep", !.dh = h, !.task = task]]
  /\ UNCHANGED <<store, locks, res, needsLow, bounds, ghosts>>

Unpublished(h) == h \notin catalog

\* Under the lock the sweep looks again; a published upload only loses its announcement.
Sweep(p) ==
  /\ At(p, "sweep")
  /\ LET h == job[p].dh
         task == job[p].task
     IN /\ hashLock[h] = Free
        /\ \/ /\ task = "deletion"
              /\ ReconcilePending(h) /\ Go(p, "done") /\ UNCHANGED <<hashLock, uploads>>
           \/ /\ task = "upload" /\ h \in uploads /\ Unpublished(h)
              /\ hashLock' = [hashLock EXCEPT ![h] = p] /\ Go(p, "drop")
              /\ Works /\ UNCHANGED <<catalog, refs, deletions, uploads, misled>>
           \/ /\ task = "upload" /\ ~(h \in uploads /\ Unpublished(h))
              /\ uploads' = uploads \ {h} /\ Go(p, "done")
              /\ Works /\ UNCHANGED <<hashLock, catalog, refs, deletions, misled>>
           \/ /\ task = "orphan" /\ ~Referenced(h)
              /\ hashLock' = [hashLock EXCEPT ![h] = p] /\ Go(p, "drop")
              /\ Works /\ UNCHANGED <<catalog, refs, deletions, uploads, misled>>
           \/ /\ task = "orphan" /\ Referenced(h)
              /\ Go(p, "done") /\ Works /\ UNCHANGED <<hashLock, catalog, refs, deletions, uploads, misled>>
  /\ UNCHANGED <<bucket, fileHash, quotaLock, res, needsLow, calm, overdrawn>>

\* The object goes first, then the record of it.
Drop(p) ==
  /\ At(p, "drop")
  /\ LET h == job[p].dh
     IN \/ /\ Works /\ RemoteDelete(h, TRUE) /\ Go(p, "forget") /\ UNCHANGED hashLock
        \/ /\ Fails /\ RemoteDelete(h, FALSE) /\ Go(p, "done")
           /\ hashLock' = [hashLock EXCEPT ![h] = Free]
  /\ UNCHANGED <<catalog, refs, deletions, uploads, fileHash, quotaLock, res, needsLow, calm, ghosts>>

Forget(p) ==
  /\ At(p, "forget")
  /\ LET h == job[p].dh
     IN /\ \/ /\ Works /\ job[p].task = "upload"
              /\ uploads' = uploads \ {h} /\ UNCHANGED <<catalog, refs, deletions, misled>>
           \/ Works /\ job[p].task = "orphan" /\ EraseRow(h) /\ UNCHANGED uploads
           \/ Fails /\ UNCHANGED <<catalog, refs, deletions, uploads, misled>>
        /\ hashLock' = [hashLock EXCEPT ![h] = Free]
  /\ Go(p, "done")
  /\ UNCHANGED <<bucket, fileHash, quotaLock, res, needsLow, calm, overdrawn>>

-----------------------------------------------------------------------------
(* Readers, replays and restarts *)

\* Open: an ambiguous removal is settled under the lock before the reference is used.
StartOpen(p) ==
  \E t \in todo[p] :
    /\ t.op = "open" /\ At(p, "idle") /\ Usable(t.msg, refs[t.msg])
    /\ todo' = [todo EXCEPT ![p] = @ \ {t}]
    /\ job' = [job EXCEPT ![p] = [Idle EXCEPT !.pc = "open", !.msg = t.msg, !.hash = refs[t.msg]]]
    /\ UNCHANGED <<store, locks, res, needsLow, scene, faults, crashes, replays, truth, ghosts>>

Open(p) ==
  /\ At(p, "open") /\ hashLock[job[p].hash] = Free
  /\ ReconcilePending(job[p].hash) /\ Go(p, "done")
  /\ UNCHANGED <<bucket, uploads, fileHash, locks, res, needsLow, calm, overdrawn>>

\* A history replay replaces the media of a message.
Replay(m, h) ==
  /\ m \in replays /\ h # truth[m]
  /\ replays' = replays \ {m}
  /\ fileHash' = [fileHash EXCEPT ![m] = h] /\ truth' = [truth EXCEPT ![m] = h]
  /\ UNCHANGED <<bucket, catalog, refs, deletions, uploads, locks, res, needsLow, job, scene, todo, faults,
                 crashes, ghosts>>

\* The process stops between two steps and starts again.
Crash ==
  /\ crashes > 0 /\ crashes' = crashes - 1
  /\ \E p \in Procs : job[p] # Idle
  /\ hashLock' = [h \in Hashes |-> Free] /\ quotaLock' = Free
  /\ res' = [p \in Procs |-> NoRes] /\ needsLow' = FALSE
  /\ job' = [p \in Procs |-> Idle] /\ misled' = misled \cap deletions
  /\ UNCHANGED <<store, scene, todo, faults, replays, truth, overdrawn>>

-----------------------------------------------------------------------------

PutStep(p) ==
  \/ StartPut(p) \/ Bind(p) \/ LockHash(p) \/ Stat(p) \/ Upload(p) \/ Verify(p) \/ Commit(p)
  \/ Clean(p) \/ Unannounce(p) \/ End(p)

RemoveStep(p) ==
  \/ StartDelete(p) \/ Recheck(p) \/ NothingSelected(p) \/ Count(p) \/ WriteMarker(p) \/ Unreference(p)
  \/ DeleteFails(p) \/ Remove(p) \/ Erase(p) \/ Settle(p) \/ DeleteReturns(p) \/ Done(p)
  \/ \E h \in Hashes : LockObject(p, h)

QuotaStep(p) == Account(p) \/ Evict(p) \/ Decide(p)

SweepStep(p) ==
  \/ Sweep(p) \/ Drop(p) \/ Forget(p)
  \/ \E task \in {"deletion", "upload", "orphan"}, h \in Hashes : StartSweep(p, task, h)

Step(p) == PutStep(p) \/ RemoveStep(p) \/ QuotaStep(p) \/ SweepStep(p) \/ StartOpen(p) \/ Open(p)

\* No goroutine is at work.
Rest == (\A p \in Procs : job[p] = Idle) /\ UNCHANGED s3Vars

S3Next ==
  \/ \E p \in Procs : Step(p)
  \/ \E m \in Messages, h \in Hashes : Replay(m, h)
  \/ Crash
  \/ Rest

-----------------------------------------------------------------------------
(* Properties *)

\* Whatever fails and wherever the process stops, a reference never leads to an object that
\* is gone, unless the deletion marker warns its readers: the marker precedes the removal,
\* the last reference is decided under the content lock, and the row outlives the object.
ReferencesLive ==
  \A m \in Messages : refs[m] # None => refs[m] \in bucket \cup deletions

Purgeable == scene.evictable \cup UNION {t.msgs : t \in {t \in UNION {scene.jobs[p] : p \in Procs} : t.op = "delete"}}

\* Purging one message does not take the identical bytes from another: a cached message
\* that no purge and no eviction selected stays cached, also when it is published while the
\* object is being removed and the removal fails halfway.  One case is excepted: Delete
\* compares two counts of separate statements, and a selected message whose replaced media
\* is published under another object between them leaves a sibling counted in its place.
OthersKept == \A m \in Messages \ Purgeable : refs[m] # None => refs'[m] # None \/ refs[m] \in misled

\* Every object in the bucket is charged, in the catalog or in the upload journal, at every
\* moment of every failed, cancelled or interrupted publication, removal and sweep.
ObjectsCharged == bucket \subseteq catalog \cup uploads

\* The bucket never holds more than the quota, with publications, evictions and purges
\* running side by side, but for one object each time an eviction removed an object that
\* another writer had a reservation for (its bytes are then taken off twice).
QuotaHeld == Cardinality(bucket) <= scene.quota + overdrawn

\* What a reader of a message may be given is what the archive last learnt the message to
\* contain: a transfer that a history replay overtook does not publish under the message.
RightContent == \A m \in Messages : Usable(m, refs[m]) => refs[m] = truth[m]

\* Once requests succeed, the sweeps settle everything that failures and restarts left: no
\* marker, no announcement and no unreferenced object stays.
Reclaimed == scene.sweeps => deletions = {} /\ uploads = {} /\ \A h \in bucket : Referenced(h)

=============================================================================
