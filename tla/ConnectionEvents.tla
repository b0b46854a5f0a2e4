-------------------------- MODULE ConnectionEvents --------------------------
(***************************************************************************)
(* Connection transitions told to the webhooks (connection_events.go).     *)
(*                                                                         *)
(* notifyConnection runs under connectionEventsMu.  An ordinary disconnect *)
(* waits out a debounce and is cancelled by any other transition; every    *)
(* transition told is recorded, queued for the runtime receiver and, with  *)
(* the legacy sender, posted by a goroutine of its own.  The goroutines    *)
(* form a queue: each waits for the done channel of its predecessor.  A    *)
(* terminal transition is posted synchronously and gives up after two      *)
(* seconds, but keeps its place.  Shutdown cancels, closes and drains.     *)
(***************************************************************************)
EXTENDS Integers, Sequences

CONSTANTS
  Calls,      \* the transitions: [state, reason, immediate, synchronous]
  MaxCalls    \* bound: calls of notifyConnection

ASSUME EventsAssumption ==
  /\ MaxCalls \in Nat
  /\ \A c \in Calls : c.immediate \in BOOLEAN /\ c.synchronous \in BOOLEAN
  /\ \A c \in Calls : c.state # "disconnected" => c.immediate

Ids  == 1..MaxCalls
None == 0

VARIABLES
  n, call,         \* calls so far and their arguments
  last,            \* lastConnectionEvent: the call recorded last
  pending,         \* connectionDisconnectCancel: the call it would cancel
  tail, prev,      \* connectionDeliveryDone; predecessor of each delivery
  pc,              \* the goroutine of each call; "done" also: its channel is closed
  cancelled,       \* contexts of debounced calls
  closing, ctxDone,
  drained,         \* connectionEvents.Wait has returned
  legacy, runtime, \* the configured receivers
  log, posts       \* history: calls recorded, calls posted

notifyVars == <<n, call, last, pending, cancelled, log>>
queueVars  == <<tail, prev>>
downVars   == <<closing, ctxDone, drained>>
config     == <<legacy, runtime>>
vars == <<notifyVars, queueVars, pc, downVars, config, posts>>

Init ==
  /\ n = 0 /\ call = <<>> /\ last = None /\ pending = None
  /\ tail = None /\ prev = [i \in Ids |-> None] /\ pc = [i \in Ids |-> "none"]
  /\ cancelled = [i \in Ids |-> FALSE]
  /\ closing = FALSE /\ ctxDone = FALSE /\ drained = FALSE
  /\ legacy \in BOOLEAN /\ runtime \in BOOLEAN
  /\ log = <<>> /\ posts = <<>>
-----------------------------------------------------------------------------
(* notifyConnection, up to its unlock *)

Key(c)     == <<c.state, c.reason>>
Cancels(c) == c.state # "disconnected" \/ c.immediate

\* Nothing is taken while closing, and one pending disconnect is enough.
Ignored(c) == closing \/ ctxDone \/ (~Cancels(c) /\ pending # None)

Repeated(c) == last # None /\ Key(call[last]) = Key(c)

\* Without the legacy sender an immediate transition is only recorded.
Direct(c)  == ~legacy /\ (c.immediate \/ ~runtime)

Called(c) == n < MaxCalls /\ n' = n + 1 /\ call' = Append(call, c)

\* Fault: a repeated event returns before it cancels the pending disconnect.
MutCancelPending(c) ==
  IF Cancels(c) /\ pending # None /\ ~Repeated(c)
  THEN cancelled' = [cancelled EXCEPT ![pending] = TRUE] /\ pending' = None
  ELSE UNCHANGED <<cancelled, pending>>

CancelPending(c) ==
  IF Cancels(c) /\ pending # None
  THEN cancelled' = [cancelled EXCEPT ![pending] = TRUE] /\ pending' = None
  ELSE UNCHANGED <<cancelled, pending>>

\* lastConnectionEvent and queueRuntimeConnection.
Record(i) == last' = i /\ log' = Append(log, i)

\* queueConnectionDeliveryLocked.
Reserve(i) == prev' = [prev EXCEPT ![i] = tail] /\ tail' = i

NotifyIgnored(c) ==
  /\ Called(c) /\ Ignored(c)
  /\ UNCHANGED <<last, pending, cancelled, log, queueVars, pc, downVars, config, posts>>

NotifyRepeated(c) ==
  /\ Called(c) /\ ~Ignored(c)
  /\ CancelPending(c)
  /\ Repeated(c)
  /\ UNCHANGED <<last, log, queueVars, pc, downVars, config, posts>>

NotifyDirect(c) ==
  /\ Called(c) /\ ~Ignored(c)
  /\ CancelPending(c)
  /\ ~Repeated(c) /\ Direct(c)
  /\ Record(n + 1)
  /\ UNCHANGED <<queueVars, pc, downVars, config, posts>>

NotifyImmediate(c) ==
  /\ Called(c) /\ ~Ignored(c)
  /\ CancelPending(c)
  /\ ~Repeated(c) /\ ~Direct(c) /\ c.immediate
  /\ Record(n + 1) /\ Reserve(n + 1)
  /\ pc' = [pc EXCEPT ![n + 1] = "queue"]
  /\ UNCHANGED <<downVars, config, posts>>

NotifyDebounced(c) ==
  /\ Called(c) /\ ~Ignored(c)
  /\ ~Repeated(c) /\ ~Direct(c) /\ ~c.immediate
  /\ pending' = n + 1
  /\ pc' = [pc EXCEPT ![n + 1] = "debounce"]
  /\ UNCHANGED <<last, cancelled, log, queueVars, downVars, config, posts>>
-----------------------------------------------------------------------------
(* post: the goroutine of a call *)

Goto(i, where) == pc' = [pc EXCEPT ![i] = where]

\* The debounce ends: by its timer, or because the context is done.
TimerFires(i) ==
  /\ pc[i] = "debounce" /\ Goto(i, "fired")
  /\ UNCHANGED <<notifyVars, queueVars, downVars, config, posts>>

TimerCancelled(i) ==
  /\ pc[i] = "debounce" /\ (cancelled[i] \/ ctxDone) /\ Goto(i, "done")
  /\ UNCHANGED <<notifyVars, queueVars, downVars, config, posts>>

\* Fault: a cancellation that came between the timer and the lock is missed.
MutStillDown(i) == ~ctxDone

\* The check under the lock after the debounce.
StillDown(i) == ~cancelled[i] /\ ~ctxDone

Debounced(i) ==
  /\ pc[i] = "fired"
  /\ IF StillDown(i)
     THEN /\ Record(i) /\ pending' = None
          /\ IF legacy THEN Reserve(i) /\ Goto(i, "queue")
             ELSE UNCHANGED queueVars /\ Goto(i, "done")
     ELSE Goto(i, "done") /\ UNCHANGED <<last, log, pending, queueVars>>
  /\ UNCHANGED <<n, call, cancelled, downVars, config, posts>>

Closed(i) == i # None => pc[i] = "done"

\* The predecessor is done: POST.
Post(i) ==
  /\ pc[i] = "queue" /\ Closed(prev[i])
  /\ Goto(i, "post") /\ posts' = Append(posts, i)
  /\ UNCHANGED <<notifyVars, queueVars, downVars, config>>

\* The two seconds of a terminal transition, or shutdown, end the wait.
GiveUp(i) ==
  /\ pc[i] = "queue" /\ prev[i] # None
  /\ call[i].synchronous \/ ctxDone
  /\ Goto(i, "finish")
  /\ UNCHANGED <<notifyVars, queueVars, downVars, config, posts>>

\* sendJSON returns: an answer, an error or its two-second deadline.
PostEnds(i) ==
  /\ pc[i] = "post" /\ Goto(i, "finish")
  /\ UNCHANGED <<notifyVars, queueVars, downVars, config, posts>>

\* finishConnectionDelivery keeps the place behind an unfinished predecessor.
Place(i) == IF Closed(prev[i]) THEN "done" ELSE "hold"

Finish(i) ==
  /\ pc[i] = "finish" /\ Goto(i, Place(i))
  /\ UNCHANGED <<notifyVars, queueVars, downVars, config, posts>>

HandOver(i) == pc[i] = "hold" /\ Closed(prev[i])

Release(i) ==
  /\ HandOver(i) /\ Goto(i, "done")
  /\ UNCHANGED <<notifyVars, queueVars, downVars, config, posts>>
-----------------------------------------------------------------------------
(* Shutdown *)

Cancel ==
  /\ ~ctxDone /\ ctxDone' = TRUE
  /\ UNCHANGED <<notifyVars, queueVars, pc, closing, drained, config, posts>>

\* stopConnectionEvents.
Stop ==
  /\ ctxDone /\ ~closing /\ closing' = TRUE
  /\ pending' = None
  /\ cancelled' = IF pending = None THEN cancelled ELSE [cancelled EXCEPT ![pending] = TRUE]
  /\ UNCHANGED <<n, call, last, log, queueVars, pc, ctxDone, drained, config, posts>>

\* connectionEvents.Wait.
Idle(i) == pc[i] \in {"none", "done"}
Drain ==
  /\ closing /\ ~drained /\ \A i \in Ids : Idle(i)
  /\ drained' = TRUE
  /\ UNCHANGED <<notifyVars, queueVars, pc, closing, ctxDone, config, posts>>
-----------------------------------------------------------------------------
Notify(c) == NotifyIgnored(c) \/ NotifyRepeated(c) \/ NotifyDirect(c)
             \/ NotifyImmediate(c) \/ NotifyDebounced(c)

Goroutine(i) == TimerFires(i) \/ TimerCancelled(i) \/ Debounced(i) \/ Post(i) \/ GiveUp(i)
                \/ PostEnds(i) \/ Finish(i) \/ Release(i)

Next == \/ \E c \in Calls : Notify(c)
        \/ \E i \in Ids : Goroutine(i)
        \/ Cancel \/ Stop \/ Drain

Spec == Init /\ [][Next]_vars
-----------------------------------------------------------------------------
\* Recording, the queue of goroutines and their deadlines implement the ordered
\* feed: what is told and posted, seen from the receivers.
Feed == INSTANCE OrderedFeed WITH Transitions <- Ids, told <- log, sent <- posts,
                                  busy <- {i \in Ids : pc[i] = "post"}
ImplementsFeed == Feed!Spec

\* With no disconnect pending, the state told last is the state notified last.
LatestStateTold ==
  n # 0 /\ pending = None /\ ~ctxDone => last # None /\ call[last].state = call[n].state

\* A delivery holds its place in the queue, or Shutdown waits for all of them.
Owed == (ctxDone /\ ~drained) \/ \E i \in Ids : pc[i] \notin {"none", "done"}
=============================================================================
