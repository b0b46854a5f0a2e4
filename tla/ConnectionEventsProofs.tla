----------------------- MODULE ConnectionEventsProofs -----------------------
(***************************************************************************)
(* For any number of calls: the state told last is the state notified      *)
(* last, and the queue of goroutines implements the ordered feed.          *)
(*                                                                         *)
(* A place in the queue is only visible through the pointers that lead to  *)
(* it: tail, and prev of the next place.  The argument rests on Queue: a   *)
(* channel in the queue is closed only when nobody before it is under way, *)
(* so whoever sees its predecessor closed is first.                        *)
(***************************************************************************)
EXTENDS ConnectionEvents, TLAPS

Waits  == {"debounce", "fired"}
Active == {"queue", "post", "finish", "hold"}

TypeOK ==
  /\ n \in 0..MaxCalls /\ call \in Seq(Calls) /\ Len(call) = n
  /\ last \in 0..n /\ pending \in 0..n /\ tail \in 0..n
  /\ prev \in [Ids -> Ids \cup {None}]
  /\ pc \in [Ids -> {"none", "done"} \cup Waits \cup Active]
  /\ cancelled \in [Ids -> BOOLEAN]
  /\ closing \in BOOLEAN /\ ctxDone \in BOOLEAN /\ legacy \in BOOLEAN /\ runtime \in BOOLEAN
  /\ log \in Seq(Ids) /\ posts \in Seq(Ids)

\* A disconnect that is still wanted is the pending one, nothing was recorded since, and
\* the calls since were disconnects as well.
Told ==
  /\ \A i \in Ids : i > n => pc[i] = "none"
  /\ \A k \in DOMAIN log : log[k] <= n
  /\ \A i \in Ids : pc[i] \in Waits /\ ~cancelled[i] => pending = i
  /\ pending # None => tail < pending /\ \A k \in DOMAIN log : log[k] < pending
  /\ pending # None /\ ~ctxDone => call[pending].state = "disconnected" /\ call[n].state = "disconnected"
  /\ closing => ctxDone

\* Places of the queue: all that were ever reserved.
Places == ({tail} \cup {prev[i] : i \in Ids}) \ {None}

Queue ==
  /\ \A i \in Ids : pc[i] \in Active => i \in Places
  /\ \A i \in Places : pc[i] \in Active \cup {"done"} /\ i <= tail
  /\ \A i \in Ids : i > tail => prev[i] = None
  /\ \A i, j \in Places : j < i => j <= prev[i]
  /\ \A i \in Places, j \in Ids : pc[i] = "done" /\ pc[j] \in Active => i < j

\* What was posted was recorded, and no goroutine before it is under way.
Posted ==
  /\ \A i \in Places : \E k \in DOMAIN log : log[k] = i
  /\ \A i \in Ids : pc[i] = "post" => \E k \in DOMAIN posts : posts[k] = i
  /\ \A k \in DOMAIN posts : posts[k] \in Places /\ pc[posts[k]] # "queue"
  /\ \A k \in DOMAIN posts, i \in Ids : pc[i] \in Active => posts[k] <= i

IInv == TypeOK /\ Told /\ LatestStateTold /\ Queue /\ Posted
-----------------------------------------------------------------------------
(* Types *)

\* A call is numbered and kept.
LEMMA CalledTypes ==
  ASSUME TypeOK, NEW c \in Calls, Called(c)
  PROVE  /\ n + 1 \in Ids /\ n \in Nat /\ n' = n + 1 /\ n' \in 0..MaxCalls
         /\ call' \in Seq(Calls) /\ Len(call') = n + 1 /\ call'[n + 1] = c
         /\ \A i \in 1..n : call'[i] = call[i]
BY EventsAssumption DEF TypeOK, Ids, Called

\* The pending disconnect is cancelled, or nothing happens.
LEMMA CancelTypes ==
  ASSUME TypeOK, NEW c \in Calls, CancelPending(c)
  PROVE  /\ pending' \in {pending, None}
         /\ cancelled' \in [Ids -> BOOLEAN]
         /\ \A i \in Ids : cancelled'[i] <=> (cancelled[i] \/ (pending' # pending /\ i = pending))
         /\ Cancels(c) => pending' = None
         /\ ~Cancels(c) => pending' = pending
<1>1. CASE Cancels(c) /\ pending # None
  <2>1. pending \in Ids BY <1>1, EventsAssumption DEF TypeOK, Ids, None
  <2>2. cancelled' = [cancelled EXCEPT ![pending] = TRUE] /\ pending' = None BY <1>1 DEF CancelPending
  <2> QED BY <1>1, <2>1, <2>2, Zenon DEF TypeOK
<1>2. CASE ~(Cancels(c) /\ pending # None)
  <2>1. cancelled' = cancelled /\ pending' = pending BY <1>2 DEF CancelPending
  <2> QED BY <1>2, <2>1, Zenon DEF TypeOK
<1> QED BY <1>1, <1>2

\* Every variable keeps its type under every action.
LEMMA TypeKept == ASSUME TypeOK, Told, [Next]_vars PROVE TypeOK'
<1> USE EventsAssumption DEF Ids, None, Waits, Active
<1>1. ASSUME NEW c \in Calls, Notify(c) PROVE TypeOK'
  <2>1. Called(c)
    BY <1>1, Zenon DEF Notify, NotifyIgnored, NotifyRepeated, NotifyDirect, NotifyImmediate, NotifyDebounced
  <2>2. /\ n + 1 \in Ids /\ n \in Nat /\ n' = n + 1 /\ n' \in 0..MaxCalls
        /\ call' \in Seq(Calls) /\ Len(call') = n + 1
    BY <2>1, CalledTypes
  <2>3. CASE NotifyIgnored(c)
    BY <2>2, <2>3 DEF NotifyIgnored, queueVars, downVars, config, TypeOK
  <2>4. CASE NotifyRepeated(c)
    <3>1. pending' \in {pending, None} /\ cancelled' \in [Ids -> BOOLEAN] BY <2>4, CancelTypes DEF NotifyRepeated
    <3> QED BY <2>2, <2>4, <3>1 DEF NotifyRepeated, queueVars, downVars, config, TypeOK
  <2>5. CASE NotifyDirect(c)
    <3>1. pending' \in {pending, None} /\ cancelled' \in [Ids -> BOOLEAN] BY <2>5, CancelTypes DEF NotifyDirect
    <3> QED BY <2>2, <2>5, <3>1 DEF NotifyDirect, Record, queueVars, downVars, config, TypeOK
  <2>6. CASE NotifyImmediate(c)
    <3>1. pending' \in {pending, None} /\ cancelled' \in [Ids -> BOOLEAN] BY <2>6, CancelTypes DEF NotifyImmediate
    <3> QED BY <2>2, <2>6, <3>1 DEF NotifyImmediate, Record, Reserve, downVars, config, TypeOK
  <2>7. CASE NotifyDebounced(c)
    BY <2>2, <2>7 DEF NotifyDebounced, queueVars, downVars, config, TypeOK
  <2> QED BY <1>1, <2>3, <2>4, <2>5, <2>6, <2>7 DEF Notify
<1>2. ASSUME NEW i \in Ids, Goroutine(i) PROVE TypeOK'
  <2>1. CASE Debounced(i)
    <3>1. i <= n BY <2>1 DEF Debounced, Told, TypeOK
    <3>2. CASE StillDown(i)
      <4>1. /\ UNCHANGED <<n, call, cancelled, downVars, config, posts>>
            /\ last' = i /\ log' = Append(log, i) /\ pending' = None
        BY <2>1, <3>2, Zenon DEF Debounced, Record
      <4>2. \/ prev' = [prev EXCEPT ![i] = tail] /\ tail' = i /\ pc' = [pc EXCEPT ![i] = "queue"]
            \/ prev' = prev /\ tail' = tail /\ pc' = [pc EXCEPT ![i] = "done"]
        BY <2>1, <3>2 DEF Debounced, Reserve, Goto, queueVars
      <4>3. prev' \in [Ids -> Ids \cup {None}] /\ tail' \in 0..n
        <5>1. tail \in 0..n /\ tail \in Ids \cup {None} /\ i \in 0..n /\ prev \in [Ids -> Ids \cup {None}]
          BY <3>1 DEF TypeOK
        <5> HIDE DEF Ids, None
        <5> QED BY <4>2, <5>1, Zenon
      <4>4. pc' \in [Ids -> {"none", "done"} \cup Waits \cup Active]
        BY <4>2, Zenon DEF TypeOK
      <4>5. log' \in Seq(Ids) /\ last' \in 0..n /\ pending' \in 0..n
        BY <3>1, <4>1 DEF TypeOK
      <4> QED BY <4>1, <4>3, <4>4, <4>5 DEF downVars, config, TypeOK
    <3>3. CASE ~StillDown(i)
      BY <2>1, <3>3 DEF Debounced, Goto, queueVars, downVars, config, TypeOK
    <3> QED BY <3>2, <3>3
  <2>2. CASE Post(i)
    BY <2>2 DEF Post, Goto, notifyVars, queueVars, downVars, config, TypeOK
  <2>3. CASE TimerFires(i) \/ TimerCancelled(i) \/ GiveUp(i) \/ PostEnds(i) \/ Finish(i) \/ Release(i)
    BY <2>3, Zenon DEF TimerFires, TimerCancelled, GiveUp, PostEnds, Finish, Place, Release, Goto,
                notifyVars, queueVars, downVars, config, TypeOK
  <2> QED BY <1>2, <2>1, <2>2, <2>3 DEF Goroutine
<1>3. CASE Cancel \/ Drain
  BY <1>3, Zenon DEF Cancel, Drain, notifyVars, queueVars, downVars, config, TypeOK
<1>4. CASE Stop
  <2>1. cancelled' \in [Ids -> BOOLEAN]
    <3>1. CASE pending = None BY <1>4, <3>1 DEF Stop, TypeOK
    <3>2. CASE pending # None
      <4>1. pending \in Ids BY <3>2 DEF TypeOK
      <4>2. cancelled' = [cancelled EXCEPT ![pending] = TRUE] BY <1>4, <3>2 DEF Stop
      <4> HIDE DEF Ids
      <4> QED BY <4>1, <4>2, Zenon DEF TypeOK
    <3> QED BY <3>1, <3>2
  <2> QED BY <1>4, <2>1 DEF Stop, queueVars, config, TypeOK
<1>5. CASE UNCHANGED vars
  BY <1>5 DEF vars, notifyVars, queueVars, downVars, config, TypeOK
<1> QED BY <1>1, <1>2, <1>3, <1>4, <1>5 DEF Next
-----------------------------------------------------------------------------
(* What is told *)

LEMMA ToldByNotify ==
  ASSUME TypeOK, Told, LatestStateTold, NEW c \in Calls, Notify(c)
  PROVE  Told' /\ LatestStateTold'
<1>1. Called(c)
  BY Zenon DEF Notify, NotifyIgnored, NotifyRepeated, NotifyDirect, NotifyImmediate, NotifyDebounced
<1>2. /\ n + 1 \in Ids /\ n \in Nat /\ n' = n + 1 /\ n' # 0
      /\ call'[n + 1] = c /\ \A i \in 1..n : call'[i] = call[i]
  BY <1>1, CalledTypes
<1>3. /\ pending \in 0..n /\ last \in 0..n /\ tail \in 0..n /\ log \in Seq(Ids)
      /\ pc \in [Ids -> {"none", "done"} \cup Waits \cup Active]
  BY DEF TypeOK
<1>4. c.state # "disconnected" => c.immediate BY EventsAssumption
<1>5. UNCHANGED <<closing, ctxDone>>
  BY Zenon DEF Notify, NotifyIgnored, NotifyRepeated, NotifyDirect, NotifyImmediate, NotifyDebounced, downVars
<1>0. MaxCalls \in Nat BY EventsAssumption
<1> USE <1>0 DEF Ids, None
<1>6. CASE NotifyIgnored(c)
  <2>1. UNCHANGED <<last, pending, cancelled, log, tail, pc>> /\ Ignored(c)
    BY <1>6 DEF NotifyIgnored, queueVars
  <2>2. Told'
    <3>1. pending # None /\ ~ctxDone => c.state = "disconnected"
      BY <2>1 DEF Ignored, Cancels, Told
    <3>2. \A k \in DOMAIN log : log[k] \in Nat BY <1>3
    <3>3. pending' # None /\ ~ctxDone' =>
            call'[pending'].state = "disconnected" /\ call'[n'].state = "disconnected"
      <4>1. pending # None => call'[pending] = call[pending] BY <1>2, <1>3
      <4>2. pending' = pending /\ ctxDone' = ctxDone /\ call'[n'] = c BY <1>2, <1>5, <2>1
      <4> QED BY <3>1, <4>1, <4>2 DEF Told
    <3> QED BY <1>2, <1>3, <1>5, <2>1, <3>2, <3>3 DEF Told
  <2>3. pending = None => ctxDone BY <2>1 DEF Ignored, Cancels, Told
  <2> QED BY <1>5, <2>1, <2>2, <2>3 DEF LatestStateTold
<1>7. CASE NotifyRepeated(c)
  <2>1. UNCHANGED <<last, log, tail, pc>> /\ ~Ignored(c) /\ CancelPending(c) /\ Repeated(c)
    BY <1>7 DEF NotifyRepeated, queueVars
  <2>2. pending' = None
    BY <2>1, CancelTypes DEF Ignored
  <2>3. Told'
    <3>1. \A i \in Ids : pc[i] \in Waits => cancelled'[i]
      BY <2>1, <2>2, CancelTypes DEF Told
    <3>2. \A k \in DOMAIN log : log[k] \in Nat BY <1>3
    <3> QED BY <1>2, <1>3, <1>5, <2>1, <2>2, <3>1, <3>2 DEF Told
  <2>4. last # None /\ call[last].state = c.state BY <2>1 DEF Repeated, Key
  <2> QED BY <1>2, <1>3, <2>1, <2>3, <2>4 DEF LatestStateTold
<1>8. CASE NotifyDirect(c) \/ NotifyImmediate(c)
  <2>1. /\ ~Ignored(c) /\ CancelPending(c)
        /\ last' = n + 1 /\ log' = Append(log, n + 1)
        /\ pc' = pc \/ pc' = [pc EXCEPT ![n + 1] = "queue"]
    BY <1>8 DEF NotifyDirect, NotifyImmediate, Record, queueVars
  <2>2. pending' = None
    BY <2>1, CancelTypes DEF Ignored
  <2>3. Told'
    <3>1. \A i \in Ids : pc[i] \in Waits => cancelled'[i]
      BY <2>1, <2>2, CancelTypes DEF Told
    <3>2. \A i \in Ids : /\ pc'[i] \in Waits => cancelled'[i]
                         /\ i > n + 1 => pc'[i] = "none"
      BY <1>2, <1>3, <2>1, <3>1 DEF Told, Waits
    <3>3. \A k \in DOMAIN log' : log'[k] <= n + 1
      BY <1>2, <1>3, <2>1 DEF Told
    <3> QED BY <1>2, <1>5, <2>2, <3>2, <3>3 DEF Told
  <2> QED BY <1>2, <2>1, <2>3 DEF LatestStateTold
<1>9. CASE NotifyDebounced(c)
  <2>1. /\ UNCHANGED <<last, log, tail, cancelled>> /\ ~Ignored(c) /\ ~c.immediate
        /\ pending' = n + 1 /\ pc' = [pc EXCEPT ![n + 1] = "debounce"]
    BY <1>9 DEF NotifyDebounced, queueVars
  <2>2. c.state = "disconnected" /\ pending = None BY <1>4, <2>1 DEF Ignored, Cancels
  <2>3. Told'
    <3>1. \A i \in Ids : /\ pc'[i] \in Waits /\ ~cancelled'[i] => pending' = i
                         /\ i > n + 1 => pc'[i] = "none"
      BY <1>2, <1>3, <2>1, <2>2 DEF Told, Waits
    <3>2. \A k \in DOMAIN log : log[k] \in Nat /\ log[k] < n + 1
      BY <1>2, <1>3 DEF Told
    <3> QED BY <1>2, <1>3, <1>5, <2>1, <2>2, <3>1, <3>2 DEF Told
  <2> QED BY <1>2, <2>1, <2>3 DEF LatestStateTold
<1> QED BY <1>6, <1>7, <1>8, <1>9 DEF Notify

LEMMA ToldByGoroutine ==
  ASSUME TypeOK, Told, LatestStateTold, NEW i \in Ids, Goroutine(i)
  PROVE  Told' /\ LatestStateTold'
<1>1. /\ n \in Nat /\ pending \in 0..n /\ last \in 0..n /\ tail \in 0..n /\ log \in Seq(Ids)
      /\ pc \in [Ids -> {"none", "done"} \cup Waits \cup Active]
  BY EventsAssumption DEF TypeOK
<1>0. MaxCalls \in Nat BY EventsAssumption
<1> USE <1>0 DEF Ids, None
<1>2. CASE Debounced(i) /\ StillDown(i)
  <2>1. /\ UNCHANGED <<n, call, cancelled, closing, ctxDone>> /\ pc[i] = "fired" /\ ~cancelled[i] /\ ~ctxDone
        /\ last' = i /\ log' = Append(log, i) /\ pending' = None
        /\ pc' = [pc EXCEPT ![i] = "queue"] \/ pc' = [pc EXCEPT ![i] = "done"]
    BY <1>2 DEF Debounced, StillDown, Record, Goto, downVars
  <2>2. pending = i /\ i <= n BY <1>1, <2>1 DEF Told, Waits
  <2>3. Told'
    <3>1. \A j \in Ids : /\ ~(pc'[j] \in Waits /\ ~cancelled'[j])
                         /\ j > n => pc'[j] = "none"
      BY <1>1, <2>1, <2>2, Zenon DEF Told, Waits
    <3>2. \A k \in DOMAIN log' : log'[k] <= n
      BY <1>1, <2>1, <2>2 DEF Told
    <3> QED BY <2>1, <3>1, <3>2 DEF Told
  <2>4. call[i].state = call[n].state BY <2>1, <2>2 DEF Told
  <2> QED BY <2>1, <2>3, <2>4 DEF LatestStateTold
<1>3. CASE ~(Debounced(i) /\ StillDown(i))
  <2>1. /\ UNCHANGED <<n, call, cancelled, last, log, pending, tail, closing, ctxDone>>
        /\ \E w \in {"fired", "done"} \cup Active : pc' = [pc EXCEPT ![i] = w]
        /\ pc[i] # "none"
        /\ pc'[i] \in Waits => pc[i] \in Waits
    BY <1>1, <1>3, Zenon DEF Goroutine, Debounced, TimerFires, TimerCancelled, Post, GiveUp, PostEnds, Finish, Place,
                      HandOver, Release, Goto, notifyVars, queueVars, downVars, Waits, Active
  <2>2. Told' BY <1>1, <2>1 DEF Told
  <2> QED BY <2>1, <2>2 DEF LatestStateTold
<1> QED BY <1>2, <1>3

LEMMA ToldKept == ASSUME TypeOK, Told, LatestStateTold, [Next]_vars PROVE Told' /\ LatestStateTold'
<1>1. CASE \E c \in Calls : Notify(c) BY <1>1, ToldByNotify
<1>2. CASE \E i \in Ids : Goroutine(i) BY <1>2, ToldByGoroutine
<1>3. CASE Cancel \/ Drain
  BY <1>3 DEF Cancel, Drain, notifyVars, queueVars, downVars, Told, LatestStateTold
<1>4. CASE Stop
  <2>1. /\ UNCHANGED <<n, call, last, log, tail, pc, ctxDone>> /\ ctxDone /\ pending' = None
        /\ cancelled' = IF pending = None THEN cancelled ELSE [cancelled EXCEPT ![pending] = TRUE]
    BY <1>4 DEF Stop, queueVars
  <2>2. \A i \in Ids : pc[i] \in Waits => cancelled'[i]
    BY <2>1 DEF Told, TypeOK, Ids, None
  <2> QED BY <2>1, <2>2 DEF Told, LatestStateTold
<1>5. CASE UNCHANGED vars
  BY <1>5 DEF vars, notifyVars, queueVars, downVars, Told, LatestStateTold
<1> QED BY <1>1, <1>2, <1>3, <1>4, <1>5 DEF Next
-----------------------------------------------------------------------------
(* The queue *)

\* The log is only appended to.
LogGrows == \A k \in DOMAIN log : k \in DOMAIN log' /\ log'[k] = log[k]

LEMMA PlaceTypes ==
  ASSUME TypeOK
  PROVE  /\ MaxCalls \in Nat /\ Places \subseteq Ids
         /\ tail # None => tail \in Places
         /\ \A i \in Ids : prev[i] # None => prev[i] \in Places
BY EventsAssumption DEF TypeOK, Places, Ids, None

\* Who sees its predecessor closed is the first in the queue: nobody before it is
\* under way.
LEMMA FirstInQueue ==
  ASSUME TypeOK, Queue, NEW i \in Ids, pc[i] \in Active, Closed(prev[i])
  PROVE  \A j \in Ids : pc[j] \in Active => i <= j
<1> SUFFICES ASSUME NEW j \in Ids, pc[j] \in Active, j < i PROVE FALSE
  BY PlaceTypes DEF Ids
<1>1. i \in Places /\ j \in Places BY DEF Queue
<1>2. j <= prev[i] BY <1>1 DEF Queue
<1>3. prev[i] # None BY <1>2 DEF Ids, None
<1>4. prev[i] \in Places /\ pc[prev[i]] = "done" BY <1>3, PlaceTypes DEF Closed
<1>5. prev[i] < j BY <1>4 DEF Queue
<1>6. prev[i] \in Ids BY <1>4, PlaceTypes
<1> QED BY <1>2, <1>5, <1>6, PlaceTypes DEF Ids

\* queueConnectionDeliveryLocked: a call behind the tail becomes the last place.
LEMMA ReserveKeeps ==
  ASSUME TypeOK, Queue, Posted, NEW i \in Ids, tail < i, pc[i] \in {"none", "fired"},
         Reserve(i), pc' = [pc EXCEPT ![i] = "queue"], posts' = posts, log' = Append(log, i)
  PROVE  Queue' /\ Posted'
<1>1. Places' = Places \cup {i}
  <2>1. prev[i] = None BY DEF Queue
  <2>2. prev' = [prev EXCEPT ![i] = tail] /\ tail' = i BY DEF Reserve
  <2>3. prev \in [Ids -> Ids \cup {None}] /\ i # None BY DEF TypeOK, Ids, None
  <2>4. {prev'[j] : j \in Ids} = ({prev[j] : j \in Ids \ {i}}) \cup {tail} BY <2>2, <2>3
  <2>5. {prev[j] : j \in Ids} \ {None} = {prev[j] : j \in Ids \ {i}} \ {None} BY <2>1
  <2> QED BY <2>2, <2>3, <2>4, <2>5 DEF Places
<1>2. /\ pc \in [Ids -> {"none", "done"} \cup Waits \cup Active] /\ tail \in Ids \cup {None}
      /\ prev \in [Ids -> Ids \cup {None}] /\ log \in Seq(Ids)
  BY EventsAssumption DEF TypeOK, Ids, None
<1>3. tail' = i /\ \A j \in Ids : prev'[j] = IF j = i THEN tail ELSE prev[j]
  BY <1>2 DEF Reserve
<1>4. \A j \in Ids : pc'[j] = IF j = i THEN "queue" ELSE pc[j] BY <1>2
<1>5. Places \subseteq Ids /\ MaxCalls \in Nat BY PlaceTypes
<1>6. \A j \in Places : j <= tail /\ j < i /\ j # i
  BY <1>2, <1>5 DEF Queue, Ids, None
<1>7. Queue'
  <2>1. \A j \in Ids : pc'[j] \in Active => j \in Places' BY <1>1, <1>4 DEF Queue
  <2>2. \A j \in Places' : pc'[j] \in Active \cup {"done"} /\ j <= tail'
    BY <1>1, <1>3, <1>4, <1>5, <1>6 DEF Queue, Active, Ids
  <2>3. \A j \in Ids : j > tail' => prev'[j] = None
    BY <1>2, <1>3, <1>5 DEF Queue, Ids, None
  <2>4. \A j, k \in Places' : k < j => k <= prev'[j]
    BY <1>1, <1>3, <1>5, <1>6 DEF Queue, Ids
  <2>5. \A j \in Places', k \in Ids : pc'[j] = "done" /\ pc'[k] \in Active => j < k
    BY <1>1, <1>4, <1>5, <1>6 DEF Queue
  <2> QED BY <2>1, <2>2, <2>3, <2>4, <2>5 DEF Queue
<1>8. Posted'
  <2>1. \A j \in Places' : \E k \in DOMAIN log' : log'[k] = j
    <3>1. \A k \in DOMAIN log : k \in DOMAIN log' /\ log'[k] = log[k] BY <1>2
    <3>2. Len(log) + 1 \in DOMAIN log' /\ log'[Len(log) + 1] = i BY <1>2
    <3> QED BY <1>1, <3>1, <3>2 DEF Posted
  <2>2. \A j \in Ids : pc'[j] = "post" => \E k \in DOMAIN posts : posts[k] = j BY <1>4 DEF Posted
  <2>3. \A k \in DOMAIN posts : posts[k] \in Places' /\ pc'[posts[k]] # "queue"
    BY <1>1, <1>4, <1>5, <1>6 DEF Posted
  <2>4. \A k \in DOMAIN posts, j \in Ids : pc'[j] \in Active => posts[k] <= j
    <3> SUFFICES ASSUME NEW k \in DOMAIN posts, NEW j \in Ids, pc'[j] \in Active PROVE posts[k] <= j
      OBVIOUS
    <3>1. posts[k] \in Places BY DEF Posted
    <3>2. CASE j = i
      <4>1. posts[k] < i /\ posts[k] \in Ids BY <1>5, <1>6, <3>1
      <4> QED BY <1>5, <3>2, <4>1 DEF Ids
    <3>3. CASE j # i BY <1>4, <3>3 DEF Posted
    <3> QED BY <3>2, <3>3
  <2> QED BY <2>1, <2>2, <2>3, <2>4 DEF Posted
<1> QED BY <1>7, <1>8

\* A call outside the queue moves on without a place.
LEMMA OutsideKeeps ==
  ASSUME TypeOK, Queue, Posted, NEW i \in Ids, NEW w, pc[i] \notin Active \cup {"done"}, w \notin Active,
         pc' = [pc EXCEPT ![i] = w], UNCHANGED <<tail, prev, posts>>, LogGrows
  PROVE  Queue' /\ Posted'
<1>1. Places' = Places /\ Places \subseteq Ids BY PlaceTypes DEF Places
<1>2. \A j \in Ids : pc'[j] = IF j = i THEN w ELSE pc[j] BY DEF TypeOK
<1>3. i \notin Places BY DEF Queue
<1>4. Queue' BY <1>1, <1>2, <1>3 DEF Queue
<1>5. Posted'
  <2>1. \A j \in Places' : \E k \in DOMAIN log' : log'[k] = j BY <1>1 DEF Posted, LogGrows
  <2> QED BY <1>1, <1>2, <1>3, <2>1 DEF Posted, Active
<1> QED BY <1>4, <1>5

\* A place is kept, or given up by the first in the queue.
LEMMA InsideKeeps ==
  ASSUME TypeOK, Queue, Posted, NEW i \in Ids, NEW w, pc[i] \in Active,
         w \in {"finish", "hold"} \/ (w = "done" /\ Closed(prev[i])),
         pc' = [pc EXCEPT ![i] = w], UNCHANGED <<tail, prev, posts, log>>
  PROVE  Queue' /\ Posted'
<1>1. Places' = Places /\ Places \subseteq Ids BY PlaceTypes DEF Places
<1>2. \A j \in Ids : pc'[j] = IF j = i THEN w ELSE pc[j] BY DEF TypeOK
<1>3. \A j \in Ids : pc'[j] \in Active => pc[j] \in Active BY <1>2
<1>4. w = "done" => \A j \in Ids : pc'[j] \in Active => i < j
  <2> SUFFICES ASSUME w = "done", NEW j \in Ids, pc'[j] \in Active PROVE i < j OBVIOUS
  <2>1. j # i BY <1>2 DEF Active
  <2>2. i <= j BY <1>3, FirstInQueue
  <2> QED BY <2>1, <2>2, PlaceTypes DEF Ids
<1>5. Queue'
  <2>1. \A j \in Places' : pc'[j] \in Active \cup {"done"} /\ j <= tail' BY <1>1, <1>2 DEF Queue, Active
  <2>2. \A j \in Places', k \in Ids : pc'[j] = "done" /\ pc'[k] \in Active => j < k
    BY <1>1, <1>2, <1>3, <1>4 DEF Queue
  <2> QED BY <1>1, <1>3, <2>1, <2>2 DEF Queue
<1>6. Posted' BY <1>1, <1>2, <1>3 DEF Posted
<1> QED BY <1>5, <1>6

\* The head of the queue posts.
LEMMA PostKeeps ==
  ASSUME TypeOK, Queue, Posted, NEW i \in Ids, Post(i)
  PROVE  Queue' /\ Posted'
<1>1. /\ pc[i] = "queue" /\ Closed(prev[i]) /\ pc' = [pc EXCEPT ![i] = "post"] /\ posts' = Append(posts, i)
      /\ UNCHANGED <<tail, prev, log>>
  BY DEF Post, Goto, notifyVars, queueVars
<1>2. Places' = Places /\ Places \subseteq Ids BY <1>1, PlaceTypes DEF Places
<1>3. \A j \in Ids : pc'[j] = IF j = i THEN "post" ELSE pc[j] BY <1>1 DEF TypeOK
<1>4. \A j \in Ids : pc'[j] \in Active <=> pc[j] \in Active BY <1>1, <1>3 DEF Active
<1>5. \A j \in Ids : pc[j] \in Active => i <= j BY <1>1, FirstInQueue DEF Active
<1>6. i \in Places BY <1>1 DEF Queue, Active
<1>7. \A k \in DOMAIN posts' : (k \in DOMAIN posts /\ posts'[k] = posts[k]) \/ posts'[k] = i
  BY <1>1 DEF TypeOK
<1>8. /\ \A k \in DOMAIN posts : k \in DOMAIN posts' /\ posts'[k] = posts[k]
      /\ Len(posts) + 1 \in DOMAIN posts' /\ posts'[Len(posts) + 1] = i
  BY <1>1 DEF TypeOK
<1>9. Queue' BY <1>1, <1>2, <1>3, <1>4 DEF Queue, Active
<1>10. Posted'
  <2>1. \A j \in Ids : pc'[j] = "post" => \E k \in DOMAIN posts' : posts'[k] = j
    BY <1>3, <1>8 DEF Posted
  <2>2. \A k \in DOMAIN posts' : posts'[k] \in Places' /\ pc'[posts'[k]] # "queue"
    BY <1>2, <1>3, <1>6, <1>7 DEF Posted
  <2>3. \A k \in DOMAIN posts', j \in Ids : pc'[j] \in Active => posts'[k] <= j
    BY <1>4, <1>5, <1>7 DEF Posted
  <2> QED BY <1>1, <1>2, <2>1, <2>2, <2>3 DEF Posted
<1> QED BY <1>9, <1>10

LEMMA RestKeeps ==
  ASSUME Queue, Posted, UNCHANGED <<tail, prev, pc, posts, log>>
  PROVE  Queue' /\ Posted'
<1>1. Places' = Places BY DEF Places
<1>2. Queue' BY <1>1 DEF Queue
<1>3. Posted' BY <1>1 DEF Posted
<1> QED BY <1>2, <1>3

\* Every action keeps the order of the queue and of what is posted.
LEMMA QueueKept == ASSUME TypeOK, Told, Queue, Posted, [Next]_vars PROVE Queue' /\ Posted'
<1>1. ASSUME NEW c \in Calls, Notify(c) PROVE Queue' /\ Posted'
  <2>1. Called(c)
    BY <1>1, Zenon DEF Notify, NotifyIgnored, NotifyRepeated, NotifyDirect, NotifyImmediate, NotifyDebounced
  <2>2. n + 1 \in Ids /\ n \in Nat /\ n < n + 1 BY <2>1, CalledTypes
  <2>3. pc[n + 1] = "none" /\ tail < n + 1 /\ log \in Seq(Ids) BY <2>2 DEF Told, TypeOK
  <2>4. CASE NotifyIgnored(c) \/ NotifyRepeated(c)
    BY <2>4, RestKeeps DEF NotifyIgnored, NotifyRepeated, queueVars
  <2>5. CASE NotifyDirect(c)
    <3>1. UNCHANGED <<pc, tail, prev, posts>> /\ log' = Append(log, n + 1)
      BY <2>5 DEF NotifyDirect, Record, queueVars
    <3>2. LogGrows BY <2>3, <3>1 DEF LogGrows
    <3>3. \A i \in Places : \E k \in DOMAIN log' : log'[k] = i BY <3>2 DEF Posted, LogGrows
    <3>4. Places' = Places BY <3>1 DEF Places
    <3>5. Queue' BY <3>1, <3>4 DEF Queue
    <3>6. Posted' BY <3>1, <3>3, <3>4 DEF Posted
    <3> QED BY <3>5, <3>6
  <2>6. CASE NotifyImmediate(c)
    BY <2>2, <2>3, <2>6, ReserveKeeps, Zenon DEF NotifyImmediate, Record
  <2>7. CASE NotifyDebounced(c)
    <3>1. pc' = [pc EXCEPT ![n + 1] = "debounce"] /\ UNCHANGED <<tail, prev, posts>> /\ LogGrows
      BY <2>7 DEF NotifyDebounced, queueVars, LogGrows
    <3> QED BY <2>2, <2>3, <3>1, OutsideKeeps, Zenon DEF Active
  <2> QED BY <1>1, <2>4, <2>5, <2>6, <2>7 DEF Notify
<1>2. ASSUME NEW i \in Ids, Goroutine(i) PROVE Queue' /\ Posted'
  <2>1. CASE TimerFires(i) \/ TimerCancelled(i)
    <3>1. /\ pc[i] = "debounce" /\ UNCHANGED <<tail, prev, posts>> /\ LogGrows
          /\ pc' = [pc EXCEPT ![i] = "fired"] \/ pc' = [pc EXCEPT ![i] = "done"]
      BY <2>1 DEF TimerFires, TimerCancelled, Goto, notifyVars, queueVars, LogGrows
    <3> QED BY <3>1, OutsideKeeps DEF Active
  <2>2. CASE Debounced(i) /\ ~StillDown(i)
    <3>1. pc[i] = "fired" /\ pc' = [pc EXCEPT ![i] = "done"] /\ UNCHANGED <<tail, prev, posts>> /\ LogGrows
      BY <2>2 DEF Debounced, Goto, queueVars, LogGrows
    <3> QED BY <3>1, OutsideKeeps, Zenon DEF Active
  <2>3. CASE Debounced(i) /\ StillDown(i)
    <3>1. pc[i] = "fired" /\ ~cancelled[i] /\ log' = Append(log, i) /\ posts' = posts
      BY <2>3 DEF Debounced, StillDown, Record
    <3>2. pending = i BY <3>1 DEF Told, Waits
    <3>3. tail < i BY <3>2, PlaceTypes DEF Told, Ids, None
    <3>4. LogGrows BY <3>1 DEF TypeOK, LogGrows
    <3>5. CASE legacy
      <4>1. Reserve(i) /\ pc' = [pc EXCEPT ![i] = "queue"] BY <2>3, <3>5 DEF Debounced, Goto
      <4> QED BY <3>1, <3>3, <4>1, ReserveKeeps, Zenon
    <3>6. CASE ~legacy
      <4>1. UNCHANGED <<tail, prev>> /\ pc' = [pc EXCEPT ![i] = "done"]
        BY <2>3, <3>6 DEF Debounced, Goto, queueVars
      <4> QED BY <3>1, <3>4, <4>1, OutsideKeeps, Zenon DEF Active
    <3> QED BY <3>5, <3>6
  <2>4. CASE Post(i) BY <2>4, PostKeeps
  <2>5. CASE GiveUp(i) \/ PostEnds(i) \/ Finish(i) \/ Release(i)
    <3>1. /\ pc[i] \in Active /\ UNCHANGED <<tail, prev, posts, log>>
          /\ \/ pc' = [pc EXCEPT ![i] = "finish"] \/ pc' = [pc EXCEPT ![i] = "hold"]
             \/ pc' = [pc EXCEPT ![i] = "done"] /\ Closed(prev[i])
      BY <2>5 DEF GiveUp, PostEnds, Finish, Place, HandOver, Release, Goto, notifyVars, queueVars, Active
    <3> QED BY <3>1, InsideKeeps
  <2> QED BY <1>2, <2>1, <2>2, <2>3, <2>4, <2>5 DEF Goroutine
<1>3. CASE Cancel \/ Stop \/ Drain
  BY <1>3, RestKeeps DEF Cancel, Stop, Drain, notifyVars, queueVars
<1>4. CASE UNCHANGED vars
  BY <1>4, RestKeeps DEF vars, notifyVars, queueVars
<1> QED BY <1>1, <1>2, <1>3, <1>4 DEF Next
-----------------------------------------------------------------------------
(* The results *)

LEMMA InitInv == Init => IInv
<1> SUFFICES ASSUME Init PROVE IInv OBVIOUS
<1>1. TypeOK
  <2>1. n = 0 /\ MaxCalls \in Nat /\ call \in Seq(Calls) /\ Len(call) = 0
    BY EventsAssumption DEF Init
  <2>2. cancelled \in [Ids -> BOOLEAN] /\ closing \in BOOLEAN /\ ctxDone \in BOOLEAN
    BY Zenon DEF Init
  <2> QED BY <2>1, <2>2 DEF Init, TypeOK, None
<1>2. Told /\ LatestStateTold BY EventsAssumption DEF Init, Told, LatestStateTold, Ids, None, Waits
<1>3. Places = {} BY DEF Init, Places
<1>4. Queue /\ Posted BY <1>3 DEF Init, Queue, Posted, Active
<1> QED BY <1>1, <1>2, <1>4 DEF IInv

LEMMA StepInv == IInv /\ [Next]_vars => IInv'
BY TypeKept, ToldKept, QueueKept DEF IInv

\* The inductive invariant holds in every state.
LEMMA Invariant == Spec => []IInv
BY InitInv, StepInv, PTL DEF Spec

\* notifyConnection never loses the state of the connection: with no disconnect in its
\* debounce, the state told last is the state notified last, whatever was repeated,
\* ignored or cancelled before.
THEOREM LatestTold == Spec => []LatestStateTold
<1>1. IInv => LatestStateTold BY DEF IInv
<1> QED BY <1>1, Invariant, PTL

\* A step of the goroutines is a step of the ordered feed, or none.
LEMMA FeedStep == IInv /\ [Next]_vars => [Feed!Next]_Feed!vars
<1> SUFFICES ASSUME IInv, [Next]_vars PROVE [Feed!Next]_Feed!vars OBVIOUS
<1> DEFINE busy == {i \in Ids : pc[i] = "post"}
<1>1. TypeOK /\ Told /\ Queue /\ Posted BY DEF IInv
<1>2. pc \in [Ids -> {"none", "done"} \cup Waits \cup Active] /\ log \in Seq(Ids) /\ posts \in Seq(Ids)
  BY <1>1 DEF TypeOK
<1>3. ASSUME NEW i \in Ids, NEW w, pc[i] # "post", w # "post", pc' = pc \/ pc' = [pc EXCEPT ![i] = w]
      PROVE  busy' = busy
  BY <1>2, <1>3
<1>4. ASSUME NEW i \in Ids, \A k \in DOMAIN log : log[k] < i, log' = Append(log, i), posts' = posts, busy' = busy
      PROVE  Feed!Next
  BY <1>4 DEF Feed!Next, Feed!Tell, Feed!After
<1>5. ASSUME log' = log, posts' = posts, busy' = busy PROVE UNCHANGED Feed!vars
  BY <1>5 DEF Feed!vars
<1>6. ASSUME NEW c \in Calls, Notify(c) PROVE [Feed!Next]_Feed!vars
  <2>1. Called(c)
    BY <1>6, Zenon DEF Notify, NotifyIgnored, NotifyRepeated, NotifyDirect, NotifyImmediate, NotifyDebounced
  <2>2. n + 1 \in Ids /\ n \in Nat /\ MaxCalls \in Nat BY <1>1, <2>1, CalledTypes, EventsAssumption
  <2>3. pc[n + 1] = "none" /\ \A k \in DOMAIN log : log[k] < n + 1
    BY <1>1, <1>2, <2>2 DEF Told, Ids
  <2>4. /\ posts' = posts
        /\ pc' = pc \/ \E w \in {"queue", "debounce"} : pc' = [pc EXCEPT ![n + 1] = w]
        /\ log' = log \/ log' = Append(log, n + 1)
    BY <1>6 DEF Notify, NotifyIgnored, NotifyRepeated, NotifyDirect, NotifyImmediate, NotifyDebounced,
                Record, notifyVars
  <2>5. busy' = busy BY <1>3, <2>2, <2>3, <2>4, Zenon
  <2> QED BY <1>4, <1>5, <2>2, <2>3, <2>4, <2>5
<1>7. ASSUME NEW i \in Ids, Goroutine(i) PROVE [Feed!Next]_Feed!vars
  <2>1. CASE Debounced(i)
    <3>1. pc[i] = "fired" /\ posts' = posts
      BY <2>1 DEF Debounced
    <3>2. pc' = [pc EXCEPT ![i] = "queue"] \/ pc' = [pc EXCEPT ![i] = "done"]
      BY <2>1 DEF Debounced, Goto
    <3>3. busy' = busy BY <1>3, <3>1, <3>2
    <3>4. CASE StillDown(i)
      <4>1. pending = i BY <1>1, <3>1, <3>4 DEF Told, StillDown, Waits
      <4>2. \A k \in DOMAIN log : log[k] < i BY <1>1, <4>1, PlaceTypes DEF Told, Ids, None
      <4>3. log' = Append(log, i) BY <2>1, <3>4 DEF Debounced, Record
      <4> QED BY <1>4, <3>1, <3>3, <4>2, <4>3
    <3>5. CASE ~StillDown(i)
      BY <1>5, <2>1, <3>1, <3>3, <3>5 DEF Debounced
    <3> QED BY <3>4, <3>5
  <2>2. CASE Post(i)
    <3>1. /\ pc[i] = "queue" /\ Closed(prev[i]) /\ pc' = [pc EXCEPT ![i] = "post"]
          /\ posts' = Append(posts, i) /\ log' = log
      BY <2>2 DEF Post, Goto, notifyVars
    <3>2. i \in Places /\ pc[i] \in Active BY <1>1, <3>1 DEF Queue, Active
    <3>3. \A j \in Ids : pc[j] \in Active => i <= j BY <1>1, <3>1, <3>2, FirstInQueue
    <3>4. \A k \in DOMAIN posts : posts[k] <= i /\ posts[k] # i
      BY <1>1, <3>1, <3>2 DEF Posted
    <3>5. \A k \in DOMAIN posts : posts[k] < i
      BY <1>1, <1>2, <3>4, PlaceTypes DEF Ids
    <3>6. busy = {}
      <4> SUFFICES ASSUME NEW j \in Ids, pc[j] = "post" PROVE FALSE OBVIOUS
      <4>1. PICK k \in DOMAIN posts : posts[k] = j BY <1>1 DEF Posted
      <4>2. j < i /\ i <= j BY <3>3, <3>5, <4>1 DEF Active
      <4> QED BY <1>1, <4>2, PlaceTypes DEF Ids
    <3>7. busy' = {i} BY <1>2, <3>1, <3>6
    <3>8. PICK k \in DOMAIN log : log[k] = i BY <1>1, <3>2 DEF Posted
    <3> QED BY <3>1, <3>5, <3>6, <3>7, <3>8 DEF Feed!Next, Feed!Start, Feed!After
  <2>3. CASE PostEnds(i)
    <3>1. pc[i] = "post" /\ pc' = [pc EXCEPT ![i] = "finish"] /\ UNCHANGED <<log, posts>>
      BY <2>3 DEF PostEnds, Goto, notifyVars
    <3>2. ASSUME NEW j \in Ids, pc[j] = "post" PROVE j = i
      <4>1. PICK k \in DOMAIN posts : posts[k] = j BY <1>1, <3>2 DEF Posted
      <4>2. PICK l \in DOMAIN posts : posts[l] = i BY <1>1, <3>1 DEF Posted
      <4>3. j <= i /\ i <= j BY <1>1, <3>1, <3>2, <4>1, <4>2 DEF Posted, Active
      <4> QED BY <1>1, <4>3, PlaceTypes DEF Ids
    <3>3. i \in busy /\ busy' = {} BY <1>2, <3>1, <3>2
    <3> QED BY <3>1, <3>3 DEF Feed!Next, Feed!End
  <2>4. CASE TimerFires(i) \/ TimerCancelled(i) \/ GiveUp(i) \/ Finish(i) \/ Release(i)
    <3>1. /\ pc[i] # "post" /\ UNCHANGED <<log, posts>>
          /\ \E w \in {"fired", "done", "finish", "hold"} : pc' = [pc EXCEPT ![i] = w]
      BY <2>4 DEF TimerFires, TimerCancelled, GiveUp, Finish, Place, HandOver, Release, Goto, notifyVars
    <3> QED BY <1>3, <1>5, <3>1, Zenon
  <2> QED BY <1>7, <2>1, <2>2, <2>3, <2>4 DEF Goroutine
<1>8. CASE Cancel \/ Stop \/ Drain \/ UNCHANGED vars
  BY <1>5, <1>8 DEF Cancel, Stop, Drain, vars, notifyVars
<1> QED BY <1>6, <1>7, <1>8 DEF Next

\* The done channels, the debounce and the deadlines of post and
\* finishConnectionDelivery implement the ordered feed: transitions are told in the
\* order of their calls, and posted one at a time in that order.
THEOREM FeedImplemented == Spec => ImplementsFeed
<1>1. Init => Feed!Init BY DEF Init, Feed!Init
<1> QED BY <1>1, Invariant, FeedStep, PTL DEF Spec, Feed!Spec, ImplementsFeed
=============================================================================
