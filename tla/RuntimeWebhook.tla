--------------------------- MODULE RuntimeWebhook ---------------------------
(***************************************************************************)
(* The runtime webhook receiver of the bridge (webhook_runtime.go).        *)
(*                                                                         *)
(* An operator PUT installs a generation: a receiver URL, the selected     *)
(* events, a bounded queue, a delivery semaphore and one worker goroutine. *)
(* The next PUT or DELETE cancels the generation and drains its queue.     *)
(* Message handlers capture the generation when they admit a message and   *)
(* enqueue later; connection transitions and storage warnings are recorded *)
(* and enqueued under the same mutex as configure.  Synthetic tests share  *)
(* the semaphore with the worker.  Every section that runs under w.mu is   *)
(* one action; the POST itself runs without the mutex.                     *)
(***************************************************************************)
EXTENDS Integers, Sequences, FiniteSets

CONSTANTS
  URLs,          \* receiver URLs an operator may configure
  Selections,    \* event selections an operator may configure
  Tests,         \* synthetic test requests (each runs once)
  MaxGen,        \* bound: generations created by PUT
  MaxMsg,        \* bound: inbound messages
  MaxConn,       \* bound: connection transitions
  MaxWarn,       \* bound: storage warnings raised
  QueueCap,      \* capacity of a generation's queue (256 in the code)
  Attempts,      \* delivery attempts per event (5 in the code)
  FailureLimit   \* failed events before automatic disablement

Kinds    == {"message.received", "connection.changed", "storage.warning"}
Warnings == {1, 2}                \* 1 = store, 2 = media_quota
Gens     == 1..MaxGen
Messages == 1..MaxMsg
Runners  == Gens \cup Tests       \* the goroutines that call attempt
NoGen    == 0
Free     == 0
PCs      == {"idle", "loop", "sem", "post", "finish", "settle", "exited"}
Outcomes == {"ok", "retry", "permanent"}
Endings  == {"answered", "full", "spent", "replaced"}   \* how a transition ends for a receiver

\* body numbers the payload among those of its kind.
Delivery == [event : Kinds, body : Nat]

ASSUME WebhookAssumption ==
  /\ URLs # {}
  /\ Selections \subseteq (SUBSET Kinds) \ {{}}
  /\ Selections # {}
  /\ MaxGen \in Nat \ {0} /\ MaxMsg \in Nat /\ MaxConn \in Nat /\ MaxWarn \in Nat
  /\ QueueCap \in Nat \ {0} /\ Attempts \in Nat \ {0} /\ FailureLimit \in Nat \ {0}
  /\ Tests \cap Int = {}

VARIABLES
  gen, nGen, cfg,        \* current generation, generations made, their configuration
  cancelled, queue, sem, \* per generation: context done, queue, delivery semaphore
  enabled, failures,     \* runtimeWebhookState
  lastConn,              \* latest recorded transition, 0 for none
  warning, nWarn,        \* active storage warnings (0 for none), warnings raised
  mgen, mdone,           \* message handlers: captured generation, enqueue done
  pc, tgen, item,        \* goroutines: control, a test's generation, the worker's event
  tries, expired, outcome, destFail,
  down,                  \* the bridge lifecycle context is cancelled
  dropped, delivered, accepted, \* process-lifetime counts of events
  receipts, seenConn,           \* history: what a generation's receiver was sent
  settled                       \* history: transitions a receiver will not be sent again

genVars    == <<gen, nGen, cfg, cancelled, down>>
stateVars  == <<enabled, failures>>
warnVars   == <<warning, nWarn>>
msgVars    == <<mgen, mdone>>
sourceVars == <<lastConn, warnVars, msgVars>>
runVars    == <<pc, tgen, item, tries, expired, outcome, destFail>>
histVars   == <<receipts, seenConn>>
vars == <<genVars, queue, sem, stateVars, sourceVars, runVars,
          dropped, delivered, accepted, histVars, settled>>

NoDelivery == [event |-> "message.received", body |-> 0]
MinOf(a, b) == IF a <= b THEN a ELSE b

GenTypeOK ==
  /\ gen \in 0..nGen /\ nGen \in 0..MaxGen
  /\ cfg \in [Gens -> [url : URLs, events : SUBSET Kinds]]
  /\ cancelled \in [Gens -> BOOLEAN]
  /\ queue \in [Gens -> Seq(Delivery)]
  /\ sem \in [Gens -> Runners \cup {Free}]
  /\ enabled \in BOOLEAN /\ failures \in Nat /\ down \in BOOLEAN

SourceTypeOK ==
  /\ lastConn \in 0..MaxConn
  /\ warning \in [Warnings -> 0..MaxWarn] /\ nWarn \in 0..MaxWarn
  /\ mgen \in [Messages -> (-1)..MaxGen] /\ mdone \in [Messages -> BOOLEAN]

RunTypeOK ==
  /\ pc \in [Runners -> PCs]
  /\ tgen \in [Tests -> 0..MaxGen]
  /\ item \in [Gens -> Delivery]
  /\ tries \in [Gens -> 0..Attempts]
  /\ expired \in [Runners -> BOOLEAN]
  /\ outcome \in [Runners -> Outcomes]
  /\ destFail \in [Gens -> BOOLEAN]

CountTypeOK ==
  /\ dropped \in Nat /\ delivered \in Nat /\ accepted \in Nat
  /\ receipts \subseteq [by : Gens, event : Kinds, body : Nat]
  /\ seenConn \in [Gens -> Nat]
  /\ settled \subseteq [url : URLs, body : Nat, how : Endings]

\* The type invariant: an event gets at most Attempts attempts, a generation in
\* force has been created, counters never go below zero.
TypeOK == GenTypeOK /\ SourceTypeOK /\ RunTypeOK /\ CountTypeOK

\* mgen[m] = -1: not yet received; 0: no subscriber; g: generation g admitted m.
Init ==
  /\ gen = NoGen /\ nGen = 0
  /\ cfg = [g \in Gens |-> [url |-> CHOOSE u \in URLs : TRUE, events |-> {}]]
  /\ cancelled = [g \in Gens |-> FALSE]
  /\ queue = [g \in Gens |-> <<>>]
  /\ sem = [g \in Gens |-> Free]
  /\ enabled = FALSE /\ failures = 0
  /\ lastConn = 0
  /\ warning = [w \in Warnings |-> 0] /\ nWarn = 0
  /\ mgen = [m \in Messages |-> -1] /\ mdone = [m \in Messages |-> FALSE]
  /\ pc = [r \in Runners |-> "idle"]
  /\ tgen = [t \in Tests |-> NoGen]
  /\ item = [g \in Gens |-> NoDelivery]
  /\ tries = [g \in Gens |-> 0]
  /\ expired = [r \in Runners |-> FALSE]
  /\ outcome = [r \in Runners |-> "ok"]
  /\ destFail = [g \in Gens |-> FALSE]
  /\ down = FALSE
  /\ dropped = 0 /\ delivered = 0 /\ accepted = 0
  /\ receipts = {} /\ seenConn = [g \in Gens |-> 0]
  /\ settled = {}
-----------------------------------------------------------------------------
Connection(n) == [event |-> "connection.changed", body |-> n]
Ending(u, n, how) == [url |-> u, body |-> n, how |-> how]

\* Transition n waits in the queue of g or is in the hands of its worker.
Holds(g, n) ==
  item[g] = Connection(n) \/ \E i \in 1..Len(queue[g]) : queue[g][i] = Connection(n)

Selects(g, event) == g # NoGen /\ event \in cfg[g].events

\* An event admitted for a replaced, removed or disabled receiver is dropped.
Admits(g) == g = gen /\ enabled

\* enqueueLocked: g is the generation that admitted the event.  fits is FALSE
\* for a payload above 64 KiB.
EnqueueLocked(g, event, body, fits) ==
  IF ~Selects(g, event)
  THEN UNCHANGED <<queue, dropped, accepted>>
  ELSE /\ accepted' = accepted + 1
       /\ IF ~Admits(g) \/ ~fits \/ Len(queue[g]) >= QueueCap
          THEN dropped' = dropped + 1 /\ UNCHANGED queue
          ELSE /\ queue' = [queue EXCEPT ![g] =
                              Append(@, [event |-> event, body |-> body])]
               /\ UNCHANGED dropped

\* Fault: a PUT or DELETE discards the queue without counting it.
MutAbandoned == 0

\* drainLocked: what a PUT or DELETE abandons.
Abandoned == IF gen = NoGen THEN 0 ELSE Len(queue[gen])

\* The events a new generation starts with: the latest transition when the
\* receiver newly selects it, then every active storage warning it selects.
Replay(g, events, newlySelected) ==
  LET conn == IF newlySelected /\ lastConn # 0 /\ "connection.changed" \in events
              THEN <<[event |-> "connection.changed", body |-> lastConn]>>
              ELSE <<>>
      warn(w) == IF warning[w] # 0 /\ "storage.warning" \in events
                 THEN <<[event |-> "storage.warning", body |-> warning[w]]>>
                 ELSE <<>>
  IN conn \o warn(1) \o warn(2)

\* Fault: a re-enabled receiver is not treated as new.
MutNewlySelected(url) ==
  gen = NoGen \/ cfg[gen].url # url \/ "connection.changed" \notin cfg[gen].events

NewlySelected(url) ==
  \/ gen = NoGen
  \/ ~enabled
  \/ cfg[gen].url # url
  \/ "connection.changed" \notin cfg[gen].events

\* A PUT that leaves the URL and the selection of transitions of an enabled
\* receiver alone: the one case in which nothing is replayed.
KeepsTransitions(url, events) ==
  /\ gen # NoGen /\ enabled /\ cfg[gen].url = url
  /\ "connection.changed" \in cfg[gen].events \cap events

\* configure, after validation: cancel and drain the previous generation,
\* reset the state, queue the replay and start the worker.
Configure(url, events) ==
  /\ nGen < MaxGen /\ ~down
  /\ LET g      == nGen + 1
         replay == Replay(g, events, NewlySelected(url))
         room   == MinOf(QueueCap, Len(replay))
         kept   == IF gen = NoGen THEN queue ELSE [queue EXCEPT ![gen] = <<>>]
     IN /\ nGen' = g /\ gen' = g
        /\ cfg' = [cfg EXCEPT ![g] = [url |-> url, events |-> events]]
        /\ cancelled' = IF gen = NoGen THEN cancelled ELSE [cancelled EXCEPT ![gen] = TRUE]
        /\ queue' = [kept EXCEPT ![g] = SubSeq(replay, 1, room)]
        /\ dropped' = dropped + Abandoned + (Len(replay) - room)
        /\ accepted' = accepted + Len(replay)
  /\ settled' = IF KeepsTransitions(url, events) /\ Holds(gen, lastConn)
                THEN settled \cup {Ending(url, lastConn, "replaced")} ELSE settled
  /\ enabled' = TRUE /\ failures' = 0
  /\ UNCHANGED <<down, sem, sourceVars, runVars, delivered, histVars>>

\* remove (DELETE, and Shutdown after it cancelled the lifecycle context).
Remove ==
  /\ gen # NoGen
  /\ gen' = NoGen
  /\ cancelled' = [cancelled EXCEPT ![gen] = TRUE]
  /\ queue' = [queue EXCEPT ![gen] = <<>>]
  /\ dropped' = dropped + Abandoned
  /\ enabled' = FALSE /\ failures' = 0
  /\ UNCHANGED <<nGen, cfg, down, sem, sourceVars, runVars, delivered, accepted, histVars, settled>>

\* Shutdown cancels the lifecycle context every generation derives from.
ShutdownCancel ==
  /\ ~down
  /\ down' = TRUE
  /\ cancelled' = [g \in Gens |-> cancelled[g] \/ g <= nGen]
  /\ UNCHANGED <<gen, nGen, cfg, queue, sem, stateVars, sourceVars, runVars,
                 dropped, delivered, accepted, histVars, settled>>

\* queueRuntimeConnection: record the transition and queue it, under w.mu.
QueueRuntimeConnection ==
  /\ lastConn < MaxConn
  /\ lastConn' = lastConn + 1
  /\ EnqueueLocked(gen, "connection.changed", lastConn + 1, TRUE)
  /\ settled' = IF Selects(gen, "connection.changed") /\ Admits(gen) /\ Len(queue[gen]) >= QueueCap
                THEN settled \cup {Ending(cfg[gen].url, lastConn + 1, "full")} ELSE settled
  /\ UNCHANGED <<genVars, sem, stateVars, warnVars, msgVars, runVars, delivered, histVars>>

\* queueRuntimeStorageWarning: an empty state clears the warning silently.
QueueRuntimeStorageWarning(w) ==
  /\ nWarn < MaxWarn
  /\ nWarn' = nWarn + 1
  /\ warning' = [warning EXCEPT ![w] = nWarn + 1]
  /\ EnqueueLocked(gen, "storage.warning", nWarn + 1, TRUE)
  /\ UNCHANGED <<genVars, sem, stateVars, lastConn, msgVars, runVars, delivered, histVars, settled>>

ClearStorageWarning(w) ==
  /\ warning[w] # 0
  /\ warning' = [warning EXCEPT ![w] = 0]
  /\ UNCHANGED <<genVars, queue, sem, stateVars, lastConn, nWarn, msgVars, runVars,
                 dropped, delivered, accepted, histVars, settled>>

\* subscriber: the handler of message m captures the generation that admits it.
Subscriber(m) ==
  /\ mgen[m] = -1
  /\ mgen' = [mgen EXCEPT ![m] = IF Selects(gen, "message.received") THEN gen ELSE NoGen]
  /\ UNCHANGED <<mdone, genVars, queue, sem, stateVars, lastConn, warnVars, runVars,
                 dropped, delivered, accepted, histVars, settled>>

\* Fault: the message goes to whichever generation is current at enqueue.
MutQueueRuntimeMessage(m, fits) ==
  /\ mgen[m] >= 0 /\ ~mdone[m]
  /\ mdone' = [mdone EXCEPT ![m] = TRUE]
  /\ EnqueueLocked(gen, "message.received", m, fits)
  /\ UNCHANGED <<mgen, genVars, sem, stateVars, lastConn, warnVars, runVars, delivered, histVars, settled>>

\* queueRuntimeMessage: enqueue for the captured generation, if there is one.
QueueRuntimeMessage(m, fits) ==
  /\ mgen[m] >= 0 /\ ~mdone[m]
  /\ mdone' = [mdone EXCEPT ![m] = TRUE]
  /\ EnqueueLocked(mgen[m], "message.received", m, fits)
  /\ UNCHANGED <<mgen, genVars, sem, stateVars, lastConn, warnVars, runVars, delivered, histVars, settled>>
-----------------------------------------------------------------------------
\* The worker of g, and a test of the generation it captured, call attempt.
GenOf(r)   == IF r \in Tests THEN tgen[r] ELSE r
CtxDone(r) == expired[r] \/ cancelled[GenOf(r)]

\* The worker's locals of one event go out of scope when it is resolved.
Forget(g) ==
  /\ pc' = [pc EXCEPT ![g] = "idle"]
  /\ item' = [item EXCEPT ![g] = NoDelivery]
  /\ tries' = [tries EXCEPT ![g] = 0]
  /\ expired' = [expired EXCEPT ![g] = FALSE]
  /\ destFail' = [destFail EXCEPT ![g] = FALSE]

\* Fault: the newest event is taken first.
MutDequeue(g) ==
  /\ pc[g] = "idle" /\ queue[g] # <<>>
  /\ item' = [item EXCEPT ![g] = queue[g][Len(queue[g])]]
  /\ queue' = [queue EXCEPT ![g] = SubSeq(@, 1, Len(@) - 1)]
  /\ pc' = [pc EXCEPT ![g] = "loop"]
  /\ UNCHANGED <<genVars, sem, stateVars, sourceVars, tgen, tries, expired, outcome, destFail,
                 dropped, delivered, accepted, histVars, settled>>

\* run: take an event; select may choose the queue even when g.ctx is done.
Dequeue(g) ==
  /\ pc[g] = "idle" /\ queue[g] # <<>>
  /\ item' = [item EXCEPT ![g] = Head(queue[g])]
  /\ queue' = [queue EXCEPT ![g] = Tail(@)]
  /\ pc' = [pc EXCEPT ![g] = "loop"]
  /\ UNCHANGED <<genVars, sem, stateVars, sourceVars, tgen, tries, expired, outcome, destFail,
                 dropped, delivered, accepted, histVars, settled>>

WorkerExit(g) ==
  /\ pc[g] = "idle" /\ cancelled[g]
  /\ pc' = [pc EXCEPT ![g] = "exited"]
  /\ UNCHANGED <<genVars, queue, sem, stateVars, sourceVars, tgen, item, tries, expired,
                 outcome, destFail, dropped, delivered, accepted, histVars, settled>>

\* Head of the attempt loop, after any backoff: stop once the context is done.
LoopHead(g) ==
  /\ pc[g] = "loop"
  /\ pc' = [pc EXCEPT ![g] = IF CtxDone(g) THEN "settle" ELSE "sem"]
  /\ UNCHANGED <<genVars, queue, sem, stateVars, sourceVars, tgen, item, tries, expired,
                 outcome, destFail, dropped, delivered, accepted, histVars, settled>>

\* handleRuntimeWebhookTest: capture the enabled generation, then attempt.
StartTest(t) ==
  /\ pc[t] = "idle" /\ gen # NoGen /\ enabled
  /\ tgen' = [tgen EXCEPT ![t] = gen]
  /\ pc' = [pc EXCEPT ![t] = "sem"]
  /\ UNCHANGED <<genVars, queue, sem, stateVars, sourceVars, item, tries, expired,
                 outcome, destFail, dropped, delivered, accepted, histVars, settled>>

\* The 5-minute age of a queued event, or a test's 12 s timeout, runs out.  During
\* a POST it may come before the answer; the answer is judged in FinishFail.
Expire(r) ==
  /\ pc[r] \in {"loop", "sem", "post"} /\ ~expired[r]
  /\ expired' = [expired EXCEPT ![r] = TRUE]
  /\ UNCHANGED <<genVars, queue, sem, stateVars, sourceVars, pc, tgen, item, tries,
                 outcome, destFail, dropped, delivered, accepted, histVars, settled>>

LastAttempt(r) == tries[r] + 1 = Attempts

\* Fault: a failed POST keeps the semaphore.
MutRelease(r) == sem' = IF outcome[r] = "ok" THEN [sem EXCEPT ![GenOf(r)] = Free] ELSE sem

\* attempt gives the delivery semaphore back on every return after acquiring it.
Release(r) == sem' = [sem EXCEPT ![GenOf(r)] = Free]

\* A failed attempt of r: a test answers its request; the worker backs off and
\* loops, unless this was the last attempt or the failure is permanent.
AfterFailure(r, destination, stop) ==
  IF r \in Tests
  THEN pc' = [pc EXCEPT ![r] = "exited"] /\ UNCHANGED <<tries, destFail>>
  ELSE /\ tries' = [tries EXCEPT ![r] = @ + 1]
       /\ destFail' = [destFail EXCEPT ![r] = @ \/ destination]
       /\ pc' = [pc EXCEPT ![r] = IF stop \/ LastAttempt(r) THEN "settle" ELSE "loop"]

\* attempt takes the semaphore, then checks under w.mu that g still delivers.
Active(g) == gen = g /\ enabled /\ ~cancelled[g]

Acquire(r) ==
  /\ pc[r] = "sem" /\ sem[GenOf(r)] = Free
  /\ IF Active(GenOf(r))
     THEN /\ sem' = [sem EXCEPT ![GenOf(r)] = r]
          /\ pc' = [pc EXCEPT ![r] = "post"]
          /\ UNCHANGED <<tries, destFail>>
     ELSE AfterFailure(r, FALSE, FALSE) /\ UNCHANGED sem
  /\ UNCHANGED <<genVars, queue, stateVars, sourceVars, tgen, item, expired,
                 outcome, dropped, delivered, accepted, histVars, settled>>

\* Waiting for the semaphore ends when r's context or g's is done.
AcquireCancelled(r) ==
  /\ pc[r] = "sem" /\ CtxDone(r)
  /\ AfterFailure(r, FALSE, FALSE)
  /\ UNCHANGED <<genVars, queue, sem, stateVars, sourceVars, tgen, item, expired,
                 outcome, dropped, delivered, accepted, histVars, settled>>

\* deliver, without the mutex.  "retry" is a transport failure, a lost answer
\* or a 5xx/408/429; "permanent" any other 3xx or 4xx.
Post(r, o) ==
  /\ pc[r] = "post"
  /\ outcome' = [outcome EXCEPT ![r] = o]
  /\ pc' = [pc EXCEPT ![r] = "finish"]
  /\ IF r \in Tests
     THEN UNCHANGED histVars
     ELSE /\ receipts' = receipts \cup
               {[by |-> r, event |-> item[r].event, body |-> item[r].body]}
          /\ seenConn' = IF item[r].event = "connection.changed"
                         THEN [seenConn EXCEPT ![r] = item[r].body] ELSE seenConn
  /\ UNCHANGED <<genVars, queue, sem, stateVars, sourceVars, tgen, item, tries, expired,
                 destFail, dropped, delivered, accepted, settled>>

\* Fault: an old generation's success resets the new one's count.
MutOwnState(r) == r \notin Tests

\* A late answer may touch the state of its own, still current generation only.
OwnState(r) == gen = GenOf(r) /\ r \notin Tests

\* attempt, after the POST, under w.mu: a 2xx counts whatever happened since,
\* but only the current generation's own event resets the failure count.
FinishOk(r) ==
  /\ pc[r] = "finish" /\ outcome[r] = "ok"
  /\ Release(r)
  /\ failures' = IF OwnState(r) THEN 0 ELSE failures
  /\ IF r \in Tests
     THEN /\ pc' = [pc EXCEPT ![r] = "exited"]
          /\ UNCHANGED <<item, tries, expired, destFail, delivered>>
     ELSE Forget(r) /\ delivered' = delivered + 1
  /\ settled' = IF r \notin Tests /\ item[r].event = "connection.changed"
                THEN settled \cup {Ending(cfg[r].url, item[r].body, "answered")} ELSE settled
  /\ UNCHANGED <<genVars, queue, enabled, sourceVars, tgen, outcome,
                 dropped, accepted, histVars>>

\* A failure belongs to the destination only while g is current and r's
\* context lives; only then can its HTTP status stop the retries.
FinishFail(r) ==
  /\ pc[r] = "finish" /\ outcome[r] # "ok"
  /\ Release(r)
  /\ LET destination == gen = GenOf(r) /\ ~CtxDone(r)
     IN AfterFailure(r, destination, destination /\ outcome[r] = "permanent")
  /\ outcome' = [outcome EXCEPT ![r] = "ok"]
  /\ UNCHANGED <<genVars, queue, stateVars, sourceVars, tgen, item, expired,
                 dropped, delivered, accepted, histVars, settled>>

\* An undelivered event counts as a failed one when its generation is active
\* and some attempt failed at the destination.
Counts(g) == gen = g /\ ~cancelled[g] /\ destFail[g]

\* Fault: the limit is off by one.
MutDisables(g) == Counts(g) /\ failures >= FailureLimit

Disables(g) == Counts(g) /\ failures + 1 >= FailureLimit

Discarded(g) == IF Disables(g) THEN Len(queue[g]) ELSE 0

\* run, for an undelivered event, under w.mu: count the drop; a failed event may
\* reach the limit, which disables the receiver and drains its queue.
Settle(g) ==
  /\ pc[g] = "settle"
  /\ Forget(g)
  /\ failures' = IF Counts(g) THEN failures + 1 ELSE failures
  /\ enabled' = (enabled /\ ~Disables(g))
  /\ cancelled' = [cancelled EXCEPT ![g] = @ \/ Disables(g)]
  /\ queue' = [queue EXCEPT ![g] = IF Disables(g) THEN <<>> ELSE @]
  /\ dropped' = dropped + 1 + Discarded(g)
  /\ settled' = IF item[g].event = "connection.changed" /\ gen = g /\ ~Disables(g)
                THEN settled \cup {Ending(cfg[g].url, item[g].body, "spent")} ELSE settled
  /\ UNCHANGED <<gen, nGen, cfg, down, sem, sourceVars, tgen, outcome,
                 delivered, accepted, histVars>>
-----------------------------------------------------------------------------
WorkerStep(g) == Dequeue(g) \/ WorkerExit(g) \/ LoopHead(g) \/ Settle(g)
AttemptStep(r) ==
  \/ Acquire(r) \/ AcquireCancelled(r)
  \/ \E o \in Outcomes : Post(r, o)
  \/ FinishOk(r) \/ FinishFail(r)

Next ==
  \/ \E u \in URLs, ev \in Selections : Configure(u, ev)
  \/ Remove
  \/ ShutdownCancel
  \/ QueueRuntimeConnection
  \/ \E w \in Warnings : QueueRuntimeStorageWarning(w) \/ ClearStorageWarning(w)
  \/ \E m \in Messages : Subscriber(m) \/ \E fits \in BOOLEAN : QueueRuntimeMessage(m, fits)
  \/ \E g \in Gens : g <= nGen /\ WorkerStep(g)
  \/ \E t \in Tests : StartTest(t)
  \/ \E r \in Runners : Expire(r) \/ AttemptStep(r)

Spec == Init /\ [][Next]_vars

\* Goroutines are scheduled, every POST is bounded by the client's 10 s
\* timeout, and Shutdown always reaches remove.  Operators, message handlers
\* and timers owe no progress.
Fairness ==
  /\ \A g \in Gens : WF_vars(g <= nGen /\ (WorkerStep(g) \/ AttemptStep(g)))
  /\ \A t \in Tests : WF_vars(AttemptStep(t))
  /\ WF_vars(down /\ Remove)

FairSpec == Spec /\ Fairness
-----------------------------------------------------------------------------
\* A POST carries only what its generation selected, and a message reaches only
\* the generation that admitted it: a PUT between admission (subscriber) and
\* enqueue, or during the delivery, never redirects it to the new receiver.
ReceiverIsolation ==
  \A r \in receipts :
    /\ r.event \in cfg[r.by].events
    /\ r.event = "message.received" => mgen[r.body] = r.by

\* Nothing waits behind a receiver that will not deliver: a generation replaced,
\* removed or automatically disabled has an empty queue and a done context.
RetiredDrained ==
  \A g \in 1..nGen :
    g # gen \/ ~enabled => queue[g] = <<>> /\ cancelled[g]

\* A configured receiver is enabled exactly while its failed events are below the
\* limit, whatever successes, late answers and PUTs came in between.
FailureBudget == gen # NoGen => (enabled <=> failures < FailureLimit)

\* At most one POST per generation runs at a time: whoever is past the delivery
\* semaphore, worker or test, is the one that holds it.
OneDelivery ==
  \A r \in Runners :
    pc[r] \in {"post", "finish"} => sem[GenOf(r)] = r

\* The failure count of a configured receiver changes only when the worker of
\* that same generation resolves an event: an answer to a retired generation
\* or to a synthetic test leaves the new receiver's state alone.
FailureCountOwner ==
  [][gen' = gen /\ failures' # failures
       => pc[gen] \in {"finish", "settle"} /\ pc'[gen] = "idle"]_vars

\* One generation's receiver sees connection transitions in the order they were
\* recorded, the replayed one first (queueRuntimeConnection shares w.mu with
\* configure); a retry may repeat a transition, never go back behind it.
TransitionsInOrder == [][\A g \in Gens : seenConn'[g] >= seenConn[g]]_seenConn

\* The latest transition is never just missing for an enabled receiver that
\* selects connection.changed: it waits in the generation in force or in the
\* hands of its worker, or it ended for that URL in one of the four ways the code
\* has: answered with a 2xx, refused by a full queue, given up by the worker, or
\* abandoned by a PUT that kept URL and selection (configure drains the queue and
\* replays nothing).  A detour over another URL, a DELETE, a narrower selection or
\* an automatic disablement never loses it.
LatestTransitionKept ==
  gen # NoGen /\ enabled /\ lastConn # 0 /\ "connection.changed" \in cfg[gen].events
    => \/ Holds(gen, lastConn)
       \/ \E how \in Endings : Ending(cfg[gen].url, lastConn, how) \in settled

InFlight == {g \in Gens : pc[g] \notin {"idle", "exited"}}
Queued   == IF gen = NoGen THEN 0 ELSE Len(queue[gen])

\* Every event admitted for a receiver is in exactly one place: delivered, counted as
\* dropped, in the one queue that is not empty, or in the hands of a worker.  The
\* dropped counter an operator reads therefore covers abandoned queues, retired
\* generations' in-flight events, overflow, oversized payloads and disablement.
Conservation ==
  /\ \A g \in Gens \ {gen} : queue[g] = <<>>
  /\ accepted = delivered + dropped + Queued + Cardinality(InFlight)

Quiet(g) == queue[g] = <<>> /\ pc[g] \in {"idle", "exited"}

\* Every queued event is eventually delivered or dropped and its worker returns
\* to its queue: no answer, cancellation, shutdown or synthetic test that shares
\* the delivery semaphore leaves a worker stuck.
EventsResolved == \A g \in Gens : []<>Quiet(g)
=============================================================================
