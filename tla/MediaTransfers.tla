--------------------------- MODULE MediaTransfers ---------------------------
(***************************************************************************)
(* Downloads of one media file into the local cache.  REST downloads,      *)
(* capped stream reads, the automatic download pool, the synchronous       *)
(* webhook image and the cache copy of a sent file can all ask for the     *)
(* same destination; mediaTransferGroup runs one transfer per destination  *)
(* and hands its result to every caller waiting for it.  A transfer is     *)
(* detached from the caller that started it, takes the client gate by      *)
(* itself, and is drained by Shutdown before the store is closed.          *)
(* The store is the local one (backend "local").                            *)
(***************************************************************************)
EXTENDS Naturals, FiniteSets

CONSTANTS
  Manual,    \* POST /api/download: no cap
  Readers,   \* GET /api/media/blob with max_bytes: capped at ReadCap
  Workers,   \* jobs in the hands of the automatic download pool
  Hooks,     \* the synchronous image download of handleMessage
  Job,       \* the detached "sent-cache:" job of one sent file
  None,      \* no starter
  ReadCap,   \* max_bytes of the readers
  AutoCap,   \* WHATSAPP_MEDIA_MAX_BYTES, 0 disables it
  Scenes     \* bound: who asks, what else happens ("send", "handoff", "logout",
             \* "shutdown") and the possible plaintext sizes of the file

Downloads == Manual \cup Readers \cup Workers \cup Hooks
Callers == Downloads \cup {Job}

ASSUME MediaAssumption ==
  /\ ReadCap \in Nat \ {0} /\ AutoCap \in Nat
  /\ Scenes \subseteq [callers : SUBSET Downloads, sizes : SUBSET Nat,
                       events : SUBSET {"send", "handoff", "logout", "shutdown"}]
  /\ IsFiniteSet(Callers) /\ Job \notin Downloads /\ None \notin Callers
  /\ Manual \cap (Readers \cup Workers \cup Hooks) = {} /\ Readers \cap (Workers \cup Hooks) = {}

VARIABLES
  scene,     \* who asks and what else happens in this behaviour
  size,      \* plaintext bytes of the file
  cached,    \* the file stands under its final name
  pc,        \* where each caller is
  on,        \* the starter of the call a caller waits for
  got,       \* the result a finished call published to a waiter
  answer,    \* what the caller was told, whether its context was done then, and
             \* who had started the call
  inflight,  \* starter of the call the group maps the destination to
  phase,     \* step of the transfer each starter's goroutine runs
  expired,   \* callers whose own deadline passed
  hungup,    \* callers cancelled by their client
  parked,    \* operatorLogout
  writer,    \* installClient at clientGate: none, queued or held
  sender,    \* the send request that waits for Job
  stage      \* progress of Shutdown

callVars == <<pc, on, got, answer>>
groupVars == <<inflight, phase>>
ctxVars == <<expired, hungup>>
gateVars == <<parked, writer>>
vars == <<scene, size, cached, pc, on, got, answer, inflight, phase, expired, hungup,
          parked, writer, sender, stage>>

Automatic(p) == p \in Workers \cup Hooks
Limit(p) == IF p \in Readers THEN ReadCap ELSE IF Automatic(p) THEN AutoCap ELSE 0

Stages == <<"up", "draining", "cancelled", "stopped", "waited">>
Reached(s) == \E i, j \in 1..5 : Stages[i] = s /\ Stages[j] = stage /\ i <= j
Lifecycle == Reached("cancelled")     \* b.ctx is done
Stopped == Reached("stopped")         \* mediaTransfers.stopped

Errors == {"ok", "limit", "quota", "quotaBusy", "busy", "failed", "deadline",
           "cancelled"}
NoResult == [err |-> "none", starter |-> None]

\* do returns the context's error without a result.
Refused == [err |-> "cancelled", starter |-> None]

Init ==
  /\ scene \in Scenes /\ size \in scene.sizes /\ cached = FALSE
  /\ pc = [p \in Callers |-> "idle"]
  /\ on = [p \in Callers |-> None]
  /\ got = [p \in Callers |-> NoResult]
  /\ answer = [p \in Callers |-> [err |-> "none", gone |-> FALSE, starter |-> None]]
  /\ inflight = None
  /\ phase = [p \in Callers |-> "none"]
  /\ expired = {} /\ hungup = {}
  /\ parked = FALSE /\ writer = "none"
  /\ sender = "idle" /\ stage = "up"

-----------------------------------------------------------------------------
\* Contexts.  A worker and the sent job follow the bridge lifecycle; a reader is
\* cancelled by its client, by stopRequests and by the lifecycle; a manual
\* download only by its client; the webhook image runs under Background.
CtxDone(p) ==
  \/ p \in expired \cup hungup
  \/ p \in Workers \cup {Job} /\ Lifecycle
  \/ p \in Readers /\ Reached("draining")

HasDeadline(p) == p \in Downloads \ Hooks

\* A caller's own deadline passes.  It bounds the transfer it started too.
Expire(p) ==
  /\ HasDeadline(p) /\ p \notin expired
  /\ pc[p] \notin {"idle", "done"} \/ phase[p] # "none"
  /\ expired' = expired \cup {p}
  /\ UNCHANGED <<scene, size, cached, callVars, groupVars, hungup, gateVars, sender, stage>>

\* The HTTP client of a request goes away: that cancels the request alone.
HangUp(p) ==
  /\ p \in Manual \cup Readers /\ pc[p] \notin {"idle", "done"} /\ p \notin hungup
  /\ hungup' = hungup \cup {p}
  /\ UNCHANGED <<scene, size, cached, callVars, groupVars, expired, gateVars, sender, stage>>

\* What ends the context of the transfer started by s, and nothing else does.
TransferDone(s) == Lifecycle \/ s \in expired

-----------------------------------------------------------------------------
\* clientGate, a sync.RWMutex: a queued writer keeps new readers out.
Admitted == {p \in Downloads : pc[p] \notin {"idle", "done"}}
GateReaders ==
  Admitted \cup {s \in Downloads : phase[s] = "fill"}
           \cup (IF sender = "waiting" THEN {Job} ELSE {})

QueueWriter ==
  /\ "handoff" \in scene.events /\ writer = "none" /\ stage = "up" /\ ~parked
  /\ writer' = "queued"
  /\ UNCHANGED <<scene, size, cached, callVars, groupVars, ctxVars, parked, sender, stage>>

LockWriter ==
  /\ writer = "queued" /\ GateReaders = {}
  /\ writer' = "held"
  /\ UNCHANGED <<scene, size, cached, callVars, groupVars, ctxVars, parked, sender, stage>>

UnlockWriter ==
  /\ writer = "held" /\ writer' = "none"
  /\ UNCHANGED <<scene, size, cached, callVars, groupVars, ctxVars, parked, sender, stage>>

\* Operator logout parks the device before it drains the gate with TryLock.
Park ==
  /\ "logout" \in scene.events /\ ~parked /\ stage = "up" /\ parked' = TRUE
  /\ UNCHANGED <<scene, size, cached, callVars, groupVars, ctxVars, writer, sender, stage>>

-----------------------------------------------------------------------------
\* downloadMedia.

\* The caller leaves with its answer; its deadline still bounds the transfer it
\* started, if that is running.
Return(p, err, starter) ==
  /\ pc' = [pc EXCEPT ![p] = "done"]
  /\ on' = [on EXCEPT ![p] = None]
  /\ got' = [got EXCEPT ![p] = NoResult]
  /\ answer' = [answer EXCEPT ![p] = [err |-> err, gone |-> CtxDone(p), starter |-> starter]]
  /\ hungup' = hungup \ {p}
  /\ expired' = IF phase[p] = "none" THEN expired \ {p} ELSE expired

Again(p) ==
  /\ pc' = [pc EXCEPT ![p] = IF p = Job THEN "do" ELSE "look"]
  /\ on' = [on EXCEPT ![p] = None]
  /\ got' = [got EXCEPT ![p] = NoResult]
  /\ UNCHANGED <<answer, ctxVars>>

\* A request, a pool worker or the event handler takes the gate and starts a
\* download.  No REST request enters once the server drains, a worker stops with
\* the lifecycle, and a reader is tracked only until requests are stopped.
Enter(p) ==
  /\ p \in scene.callers /\ pc[p] = "idle" /\ writer = "none"
  /\ p \in Manual \cup Readers => stage = "up"
  /\ p \in Workers => ~Lifecycle
  /\ p \in Hooks => ~parked
  /\ IF p \in Workers /\ parked
     THEN Return(p, "failed", None)
     ELSE pc' = [pc EXCEPT ![p] = "look"] /\ UNCHANGED <<on, got, answer, ctxVars>>
  /\ UNCHANGED <<scene, size, cached, groupVars, gateVars, sender, stage>>

Over(p) == Limit(p) > 0 /\ size > Limit(p)

\* The cache lookup of one attempt; a cached file is held against the own cap.
Lookup(p) ==
  /\ pc[p] = "look"
  /\ IF cached
     THEN Return(p, IF Over(p) THEN "limit" ELSE "ok", None)
     ELSE pc' = [pc EXCEPT ![p] = "do"] /\ UNCHANGED <<on, got, answer, ctxVars>>
  /\ UNCHANGED <<scene, size, cached, groupVars, gateVars, sender, stage>>

\* mediaTransferCall.result: a success over the waiter's own cap is refused too.
Outcome(p, res) == IF res.err = "ok" /\ Over(p) THEN "limit" ELSE res.err

\* A refusal by the cap of the call's starter (mediaTransferLimitError).
SharedCap(res) ==
  IF res.err = "limit" /\ res.starter # None THEN Limit(res.starter) ELSE 0

\* Whether downloadMedia goes round again under this caller's own limit.
\* Fault: the quota refusal of an automatic starter is final for a manual waiter.
MutRetries(p, res) ==
  /\ ~CtxDone(p) /\ SharedCap(res) > 0
  /\ Limit(p) > SharedCap(res) \/ (Limit(p) = 0 /\ ~Automatic(p))
Retries(p, res) ==
  /\ ~CtxDone(p)
  /\ \/ /\ SharedCap(res) > 0
        /\ Limit(p) > SharedCap(res) \/ (Limit(p) = 0 /\ ~Automatic(p))
     \/ /\ ~Automatic(p) /\ Limit(p) = 0
        /\ Outcome(p, res) \in {"limit", "quota", "quotaBusy"}

\* The job of a sent file ends unless a download it had joined failed.
\* Faults: the job takes a joined download's failure for its own; it goes on
\* asking after the bridge stopped.
MutJobRetries(res) == FALSE
JobRetries(res) == res.err # "ok" /\ ~Lifecycle /\ res.starter # Job

\* What a caller does with the result of do.
Settle(p, res) ==
  IF (p = Job /\ JobRetries(res)) \/ (p # Job /\ Retries(p, res))
  THEN Again(p) ELSE Return(p, Outcome(p, res), res.starter)

Running(p) == inflight # None

\* Fault: do no longer looks at stopped.
MutRefuses == FALSE
Refuses == Stopped

\* mediaTransferGroup.do: refused after stop, else join the call or start one.
Do(p) ==
  /\ pc[p] = "do"
  /\ \/ /\ Refuses /\ Settle(p, Refused)
        /\ UNCHANGED groupVars
     \/ /\ ~Refuses
        /\ pc' = [pc EXCEPT ![p] = "wait"]
        /\ IF Running(p)
           THEN on' = [on EXCEPT ![p] = inflight] /\ UNCHANGED groupVars
           ELSE /\ on' = [on EXCEPT ![p] = p]
                /\ inflight' = p
                /\ phase' = [phase EXCEPT ![p] = "gate"]
        /\ UNCHANGED <<got, answer, ctxVars>>
  /\ UNCHANGED <<scene, size, cached, gateVars, sender, stage>>

\* The selects of do: the published result, or the caller's own context.  The
\* second select may take either when both are ready, so the first, which
\* prefers the result, adds no outcome.
Wake(p) ==
  /\ pc[p] = "wait"
  /\ \/ got[p] # NoResult /\ Settle(p, got[p])
     \/ CtxDone(p) /\ Settle(p, Refused)
  /\ UNCHANGED <<scene, size, cached, groupVars, gateVars, sender, stage>>

-----------------------------------------------------------------------------
\* The transfer goroutine of starter s.

\* The deferred delete, close(done) and wg.Done: every waiter sees the result.
Publish(s, err) ==
  /\ phase' = [phase EXCEPT ![s] = "none"]
  /\ inflight' = None
  /\ got' = [p \in Callers |->
               IF on[p] = s /\ pc[p] = "wait" /\ got[p] = NoResult
               THEN [err |-> err, starter |-> s] ELSE got[p]]
  /\ expired' = IF pc[s] = "done" THEN expired \ {s} ELSE expired
  /\ UNCHANGED <<pc, on, answer, hungup>>

\* TryRLock of the detached transfer: it never waits behind a queued writer,
\* because the caller that waits for it may hold the gate.
\* Fault: the transfer takes the gate with a blocking RLock.
MutGateFree(s) == writer = "none"
GateFree(s) == TRUE

QuotaRefusals(s) ==
  (IF Automatic(s) \/ s = Job THEN {"quota"} ELSE {})
    \cup (IF s \in Hooks THEN {"quotaBusy"} ELSE {})

\* Gate, operator logout and quota admission; then the ".part" file is created.
\* The job of a sent file takes no gate and stops at a file already cached.
AdmitTransfer(s) ==
  /\ phase[s] = "gate" /\ GateFree(s)
  /\ \/ s # Job /\ writer # "none" /\ Publish(s, "busy")
     \/ s # Job /\ writer = "none" /\ parked /\ Publish(s, "failed")
     \/ s = Job /\ cached /\ Publish(s, "ok")
     \/ /\ s = Job => ~cached
        /\ s # Job => writer = "none" /\ ~parked
        /\ \/ \E err \in QuotaRefusals(s) : Publish(s, err)
           \/ /\ phase' = [phase EXCEPT ![s] = "fill"]
              /\ UNCHANGED <<inflight, callVars, ctxVars>>
  /\ UNCHANGED <<scene, size, cached, gateVars, sender, stage>>

\* The CDN, the phone's re-upload or the disk delivers: the bytes are renamed
\* over the final name unless they exceed the transfer's cap.  Under a quota
\* budget the same excess is reported as a quota refusal.
Fill(s) ==
  /\ phase[s] = "fill"
  /\ \/ /\ ~Over(s) /\ ~TransferDone(s)
        /\ cached' = TRUE /\ Publish(s, "ok")
     \/ /\ Over(s) /\ cached' = cached
        /\ \E err \in {"limit"} \cup (QuotaRefusals(s) \cap {"quota"}) : Publish(s, err)
     \/ cached' = cached /\ Publish(s, "failed")   \* refusal, bad hash or panic
  /\ UNCHANGED <<scene, size, gateVars, sender, stage>>

\* The transfer's own context ends it.
Abort(s) ==
  /\ phase[s] = "fill" /\ TransferDone(s)
  /\ Publish(s, IF s \in expired THEN "deadline" ELSE "cancelled")
  /\ UNCHANGED <<scene, size, cached, gateVars, sender, stage>>

-----------------------------------------------------------------------------
\* cacheOutboundMedia: the send request waits for a job that keeps the bytes.

Send ==
  /\ "send" \in scene.events /\ sender = "idle" /\ stage = "up" /\ writer = "none"
  /\ AutoCap > 0 => size <= AutoCap
  /\ sender' = "waiting"
  /\ pc' = [pc EXCEPT ![Job] = "do"]
  /\ UNCHANGED <<scene, size, cached, on, got, answer, groupVars, ctxVars, gateVars, stage>>

\* The request leaves with the job's result or at its own deadline.
Sent ==
  /\ sender = "waiting" /\ sender' = "done"
  /\ UNCHANGED <<scene, size, cached, callVars, groupVars, ctxVars, gateVars, stage>>

-----------------------------------------------------------------------------
\* Bridge.Shutdown.  Its HTTP drain may run into the timeout and go on with
\* handlers still inside; the model follows the run in which the final wait
\* returns before the timeout.

StopRequests ==
  /\ "shutdown" \in scene.events /\ stage = "up" /\ stage' = "draining"
  /\ UNCHANGED <<scene, size, cached, callVars, groupVars, ctxVars, gateVars, sender>>

CancelLifecycle ==
  /\ stage = "draining" /\ stage' = "cancelled"
  /\ UNCHANGED <<scene, size, cached, callVars, groupVars, ctxVars, gateVars, sender>>

StopTransfers ==
  /\ stage = "cancelled" /\ stage' = "stopped"
  /\ UNCHANGED <<scene, size, cached, callVars, groupVars, ctxVars, gateVars, sender>>

\* autoDownloads.wait and mediaTransfers.wait: workers, tracked readers,
\* transfers and the sent-file job have all ended.
Drained ==
  /\ \A s \in Callers : phase[s] = "none"
  /\ \A p \in Workers \cup Readers \cup {Job} : pc[p] \in {"idle", "done"}

WaitTransfers ==
  /\ stage = "stopped" /\ Drained /\ stage' = "waited"
  /\ UNCHANGED <<scene, size, cached, callVars, groupVars, ctxVars, gateVars, sender>>

Next ==
  \/ \E p \in Downloads : Enter(p) \/ Lookup(p) \/ Expire(p) \/ HangUp(p)
  \/ \E p \in Callers : Do(p) \/ Wake(p)
  \/ \E s \in Callers : AdmitTransfer(s) \/ Fill(s) \/ Abort(s)
  \/ QueueWriter \/ LockWriter \/ UnlockWriter \/ Park
  \/ Send \/ Sent
  \/ StopRequests \/ CancelLifecycle \/ StopTransfers \/ WaitTransfers

Spec == Init /\ [][Next]_vars

\* A caller, its deadline, and the goroutine of a transfer; what an operator, a client
\* or the CDN does is no part.  The job of a sent file writes to the disk alone.
Caller(p) == Do(p) \/ Wake(p) \/ (p \in Downloads /\ Lookup(p))
Deadline(p) == p \in Downloads /\ Expire(p)
Transfer(s) == AdmitTransfer(s) \/ Abort(s) \/ (s = Job /\ Fill(s))
Handoff == LockWriter \/ UnlockWriter
Shutdown == CancelLifecycle \/ StopTransfers \/ WaitTransfers

-----------------------------------------------------------------------------
\* A caller with a cap is never handed a file above it, even one that another
\* caller transferred without a cap (result, checkCachedMediaLimit).
CapHonoured ==
  \A p \in Downloads : answer[p].err = "ok" /\ Limit(p) > 0 => size <= Limit(p)

\* "A shared refusal belongs to the starter's cap": a caller is told that the file is
\* too large only when it exceeds that caller's own cap (a caller whose context is done
\* gets whatever the call ended with, and an automatic download that has no cap keeps a
\* reader's refusal).
SizeIsOwn ==
  \A p \in Downloads :
    answer[p].err = "limit" => Over(p) \/ answer[p].gone \/ (Automatic(p) /\ AutoCap = 0)

\* The quota is the starter's: it refuses only what an automatic download or the sent
\* job started, yet everyone waiting there but a manual download is refused with it, a
\* capped reader too (downloadMedia goes round again only for a caller without a cap).
QuotaIsStarters ==
  \A p \in Downloads :
    answer[p].err \in {"quota", "quotaBusy"} =>
      /\ answer[p].starter \in Callers /\ answer[p].err \in QuotaRefusals(answer[p].starter)
      /\ p \in Manual => answer[p].gone

\* The deadline of a transfer is its starter's and nobody else's: transferContext lets
\* a waiter with a longer horizon inherit it, but the webhook image and the sent job,
\* which have none, end nobody's download with one.
DeadlineIsStarters ==
  \A p \in Callers :
    answer[p].err = "deadline" => answer[p].starter \in Downloads /\ HasDeadline(answer[p].starter)

\* Nobody is told "cancelled" because another caller hung up: the transfer is
\* detached from its starter's cancellation (transferContext).
CancelledByOwnContext ==
  \A p \in Callers :
    answer[p].err = "cancelled" => answer[p].gone \/ Lifecycle

\* What a caller that shares a transfer is refused with has a reason it can be held to:
\* its own cap, its own cancellation, or the quota or the deadline of the caller that
\* started the transfer (downloadMedia, mediaTransferGroup.do, transferContext).
RefusalsExplained ==
  CapHonoured /\ SizeIsOwn /\ QuotaIsStarters /\ DeadlineIsStarters /\ CancelledByOwnContext

\* The bytes of a sent file are not lost to somebody else's failed download:
\* the job ends with the file cached, its own write tried, or the bridge stopping.
SentBytesKept ==
  pc[Job] = "done" => cached \/ Lifecycle \/ answer[Job].starter = Job

\* Once Shutdown's wait returned no transfer runs or can start again, so nothing
\* reads messages.db after main closes it (mediaTransferGroup.wait, stop).
QuietAfterWait ==
  stage = "waited" => inflight = None /\ \A s \in Callers : phase[s] = "none"

\* The webhook image is fetched under Background and whatsmeow's client has no timeout:
\* such a transfer may hang until Shutdown cancels the lifecycle.
Unbounded == ~Lifecycle /\ \E s \in Hooks : phase[s] = "fill"

\* A client handoff waits for the gate, or Shutdown for the transfers.
Awaited == writer = "queued" \/ (Stopped /\ stage # "waited")
=============================================================================
