----------------------- MODULE RuntimeWebhookDelivery -----------------------
(***************************************************************************)
(* What happens to an event of RuntimeWebhook: a receiver is sent its own  *)
(* messages only, never just misses the latest transition and sees them in *)
(* order, only its own events count against it, and every admitted event   *)
(* is accounted for.                                                       *)
(***************************************************************************)
EXTENDS RuntimeWebhookSafety, FiniteSetTheorems

USE DEF Gens, Messages, NoGen, Free
-----------------------------------------------------------------------------
(* Isolation of receivers: what a generation may be sent, in its queue, in its  *)
(* worker's hands and at its endpoint.                                          *)

\* d may be sent by generation g.
Fit(g, d) ==
  /\ d.event \in cfg[g].events
  /\ d.event = "message.received" => d.body \in Messages /\ mgen[d.body] = g

QueuesFit  == \A g \in Gens : \A i \in 1..Len(queue[g]) : Fit(g, queue[g][i])
ItemsFit   == \A g \in Gens : pc[g] \in Busy => Fit(g, item[g])
ReceiptFit == \A x \in receipts : x.by \in 1..nGen /\ Fit(x.by, x)
IsoInv == QueuesFit /\ ItemsFit /\ ReceiptFit

\* The initial state satisfies the isolation invariant.
LEMMA IsoInit == Init => IsoInv
<1> SUFFICES ASSUME Init PROVE IsoInv
  OBVIOUS
<1>1. QueuesFit
  BY DEF Init, QueuesFit
<1>2. ItemsFit
  BY Zenon, RunnerSplit DEF Init, ItemsFit, Busy
<1>3. ReceiptFit
  BY DEF Init, ReceiptFit
<1> QED BY <1>1, <1>2, <1>3 DEF IsoInv

\* What a generation may send does not change once it exists: its configuration
\* is fixed and a captured generation is never captured again.
LEMMA FitStable ==
  ASSUME TypeInv, NEW g \in 1..nGen, NEW d, Fit(g, d),
         cfg'[g] = cfg[g],
         \A m \in Messages : mgen[m] # -1 => mgen'[m] = mgen[m]
  PROVE  Fit(g, d)'
BY DEF Fit

\* The steps that touch neither configurations nor queues nor the worker's event.
LEMMA IsoFrame ==
  ASSUME IsoInv, UNCHANGED <<cfg, mgen, queue, item, receipts, nGen>>,
         \A g \in Gens : pc'[g] \in Busy => pc[g] \in Busy
  PROVE  IsoInv'
<1>1. \A g, d : Fit(g, d)' <=> Fit(g, d)
  BY DEF Fit
<1>2. QueuesFit'
  BY <1>1 DEF IsoInv, QueuesFit
<1>3. ItemsFit'
  BY <1>1 DEF IsoInv, ItemsFit
<1>4. ReceiptFit'
  BY <1>1 DEF IsoInv, ReceiptFit
<1> QED BY <1>2, <1>3, <1>4 DEF IsoInv

\* A step whose queues only hold fitting events.
LEMMA IsoQueue ==
  ASSUME IsoInv, UNCHANGED <<cfg, mgen, item, pc, receipts, nGen>>,
         \A g \in Gens : \A i \in 1..Len(queue'[g]) : Fit(g, queue'[g][i])
  PROVE  IsoInv'
<1>1. \A g, d : Fit(g, d)' <=> Fit(g, d)
  BY DEF Fit
<1>2. QueuesFit'
  BY <1>1 DEF QueuesFit
<1>3. ItemsFit'
  BY <1>1 DEF IsoInv, ItemsFit
<1>4. ReceiptFit'
  BY <1>1 DEF IsoInv, ReceiptFit
<1> QED BY <1>2, <1>3, <1>4 DEF IsoInv

\* An enqueue for the generation that admitted the event leaves only fitting events.
LEMMA EnqueueIso ==
  ASSUME TypeInv, IsoInv, NEW g \in 0..nGen, NEW e, NEW b, NEW fits,
         EnqueueLocked(g, e, b, fits),
         e = "message.received" => b \in Messages /\ mgen[b] = g
  PROVE  \A h \in Gens : \A i \in 1..Len(queue'[h]) : Fit(h, queue'[h][i])
<1> DEFINE d == [event |-> e, body |-> b]
<1>1. CASE UNCHANGED queue
  BY <1>1 DEF IsoInv, QueuesFit
<1>2. CASE queue' # queue
  <2>1. /\ g # 0 /\ e \in cfg[g].events
        /\ queue' = [queue EXCEPT ![g] = Append(queue[g], d)]
    BY <1>2 DEF EnqueueLocked, Selects
  <2>2. g \in Gens /\ queue[g] \in Seq(Delivery)
    BY <2>1, Bounds DEF TypeInv, TypeOK, GenTypeOK
  <2>3. Fit(g, d)
    BY <2>1 DEF Fit
  <2>4. ASSUME NEW h \in Gens, NEW i \in 1..Len(queue'[h]) PROVE Fit(h, queue'[h][i])
    <3>1. CASE h # g
      BY <3>1, <2>1 DEF IsoInv, QueuesFit, TypeInv, TypeOK, GenTypeOK
    <3>2. CASE h = g
      <4>1. queue'[h] = Append(queue[h], d)
        BY <3>2, <2>1, <2>2 DEF TypeInv, TypeOK, GenTypeOK
      <4>2. queue'[h][i] = d \/ (i \in 1..Len(queue[h]) /\ queue'[h][i] = queue[h][i])
        BY <4>1, <2>2, <3>2
      <4> QED BY <4>2, <2>3, <3>2 DEF IsoInv, QueuesFit
    <3> QED BY <3>1, <3>2
  <2> QED BY <2>4
<1> QED BY <1>1, <1>2

\* Configure keeps every queue, event in hand and receipt with its own receiver.
LEMMA ConfigureIso ==
  ASSUME TypeInv, SafeInv, IsoInv, NEW u \in URLs, NEW ev \in Selections, Configure(u, ev)
  PROVE  IsoInv'
<1> DEFINE n      == nGen + 1
           replay == Replay(n, ev, NewlySelected(u))
           room   == MinOf(QueueCap, Len(replay))
           kept   == IF gen = NoGen THEN queue ELSE [queue EXCEPT ![gen] = <<>>]
<1>0. /\ nGen < MaxGen /\ nGen' = n
      /\ cfg' = [cfg EXCEPT ![n] = [url |-> u, events |-> ev]]
      /\ queue' = [kept EXCEPT ![n] = SubSeq(replay, 1, room)]
      /\ UNCHANGED <<mgen, pc, item, receipts>>
  BY DEF Configure, sourceVars, msgVars, runVars, histVars
<1>1. n \in Gens /\ nGen \in 0..MaxGen /\ gen \in 0..nGen
  BY <1>0, Bounds DEF TypeInv, TypeOK, GenTypeOK
<1>6. \A g \in 1..nGen : cfg'[g] = cfg[g] /\ g \in 1..nGen'
  <2>1. DOMAIN cfg = Gens BY DEF TypeInv, TypeOK, GenTypeOK
  <2>2. nGen \in Nat /\ nGen < MaxGen /\ MaxGen \in Nat /\ nGen' = nGen + 1 BY <1>0, <1>1, Bounds
  <2>3. ASSUME NEW g \in 1..nGen PROVE g # n /\ g \in Gens /\ g \in 1..nGen' BY <2>2
  <2> QED BY <1>0, <2>1, <2>3
<1>2. ASSUME NEW g \in 1..nGen, NEW d, Fit(g, d) PROVE Fit(g, d)'
  BY <1>6, <1>0, <1>2, FitStable
<1>3. QueuesFit'
  <2> SUFFICES ASSUME NEW g \in Gens, NEW i \in 1..Len(queue'[g])
               PROVE  Fit(g, queue[g][i])'
    BY DEF QueuesFit
  <2>1. CASE g = n
    <3>1. cfg'[g].events = ev
      BY <2>1, <1>0, <1>1 DEF TypeInv, TypeOK, GenTypeOK
    <3>2. replay \in Seq(Delivery)
      BY Zenon, ReplayType DEF NewlySelected
    <3>3. room \in 0..Len(replay)
      BY <3>2, Bounds DEF MinOf
    <3>4. queue'[g] = SubSeq(replay, 1, room)
      BY Zenon, <2>1, <1>0, <1>1 DEF TypeInv, TypeOK, GenTypeOK
    <3>5. i \in 1..Len(replay) /\ queue'[g][i] = replay[i]
      <4> HIDE DEF replay, room
      <4> QED BY <3>2, <3>3, <3>4
    <3>6. replay[i].event \in ev /\ replay[i].event # "message.received"
      BY <3>5 DEF Replay
    <3> QED BY <3>1, <3>5, <3>6 DEF Fit
  <2>2. CASE g # n
    <3>1. queue'[g] = kept[g] /\ kept[g] \in {queue[g], <<>>}
      BY <2>2, <1>0, <1>1, Zenon DEF TypeInv, TypeOK, GenTypeOK
    <3>2. queue'[g] = queue[g] /\ i \in 1..Len(queue[g])
      BY <3>1
    <3>3. g \in 1..nGen
      BY <3>2, <2>2, <1>1 DEF TypeInv, LoopInv
    <3>4. Fit(g, queue[g][i])
      BY <3>2 DEF IsoInv, QueuesFit
    <3>5. \A d : Fit(g, d) => Fit(g, d)'
      BY <1>2, <3>3
    <3> QED BY <3>2, <3>4, <3>5
  <2> QED BY <2>1, <2>2
<1>4. ItemsFit'
  <2> SUFFICES ASSUME NEW g \in Gens, pc'[g] \in Busy PROVE Fit(g, item[g])'
    BY DEF ItemsFit
  <2>1. g \in 1..nGen /\ Fit(g, item[g])
    BY <1>0, <1>1 DEF IsoInv, ItemsFit, TypeInv, LoopInv, Busy
  <2>2. cfg'[g] = cfg[g]
    BY <1>6, <2>1, Zenon
  <2> QED BY <2>1, <2>2, <1>0 DEF Fit
<1>5. ReceiptFit'
  <2> SUFFICES ASSUME NEW x \in receipts' PROVE (x.by \in 1..nGen /\ Fit(x.by, x))'
    BY DEF ReceiptFit
  <2>1. x.by \in 1..nGen /\ Fit(x.by, x)
    BY <1>0 DEF IsoInv, ReceiptFit
  <2>2. cfg'[x.by] = cfg[x.by] /\ x.by \in 1..nGen'
    BY <1>6, <2>1, Zenon
  <2> QED BY <2>1, <2>2, <1>0 DEF Fit
<1> QED BY <1>3, <1>4, <1>5 DEF IsoInv

\* Subscriber keeps every queue, event in hand and receipt with its own receiver.
LEMMA SubscriberIso ==
  ASSUME TypeInv, IsoInv, NEW m \in Messages, Subscriber(m)
  PROVE  IsoInv'
<1>1. /\ UNCHANGED <<cfg, queue, item, pc, receipts, nGen>>
      /\ \A q \in Messages : mgen[q] # -1 => mgen'[q] = mgen[q]
  BY DEF Subscriber, genVars, runVars, histVars, TypeInv, TypeOK
<1>2. \A g, d : g # -1 /\ Fit(g, d) => Fit(g, d)'
  BY <1>1 DEF Fit
<1>3. QueuesFit'
  BY <1>1, <1>2 DEF IsoInv, QueuesFit
<1>4. ItemsFit'
  BY <1>1, <1>2 DEF IsoInv, ItemsFit
<1>5. ReceiptFit'
  BY <1>1, <1>2 DEF IsoInv, ReceiptFit, TypeInv, TypeOK, GenTypeOK
<1> QED BY <1>3, <1>4, <1>5 DEF IsoInv

\* Dequeue keeps every queue, event in hand and receipt with its own receiver.
LEMMA DequeueIso ==
  ASSUME TypeInv, IsoInv, NEW g \in Gens, Dequeue(g)
  PROVE  IsoInv'
<1>1. /\ UNCHANGED <<cfg, mgen, receipts, nGen>>
      /\ pc' = [pc EXCEPT ![g] = "loop"] /\ queue[g] # <<>>
      /\ item' = [item EXCEPT ![g] = Head(queue[g])]
      /\ queue' = [queue EXCEPT ![g] = Tail(queue[g])]
  BY DEF Dequeue, genVars, sourceVars, msgVars, histVars
<1>2. \A h, d : Fit(h, d)' <=> Fit(h, d)
  BY <1>1, Zenon DEF Fit
<1>3. queue[g] \in Seq(Delivery)
  BY DEF TypeInv, TypeOK, GenTypeOK
<1>4. ASSUME NEW h \in Gens, NEW i \in 1..Len(queue'[h]) PROVE Fit(h, queue'[h][i])
  <2>1. CASE h # g
    BY <1>1, <2>1, Zenon DEF IsoInv, QueuesFit, TypeInv, TypeOK, GenTypeOK
  <2>2. CASE h = g
    <3>1. queue'[h] = Tail(queue[h])
      BY <1>1, <2>2 DEF TypeInv, TypeOK, GenTypeOK
    <3>2. i + 1 \in 1..Len(queue[h]) /\ queue'[h][i] = queue[h][i + 1]
      <4>1. queue[h] \in Seq(Delivery) /\ queue[h] # <<>>
        BY <1>1, <1>3, <2>2
      <4>2. Len(Tail(queue[h])) = Len(queue[h]) - 1 /\ Len(queue[h]) \in Nat
        BY <4>1
      <4>3. i \in 1..(Len(queue[h]) - 1)
        BY <3>1, <4>2
      <4> QED BY <3>1, <4>1, <4>2, <4>3
    <3> QED BY <3>2 DEF IsoInv, QueuesFit
  <2> QED BY <2>1, <2>2, Zenon
<1>5. QueuesFit'
  BY Zenon, <1>2, <1>4 DEF QueuesFit
<1>6. ItemsFit'
  <2>1. item'[g] = queue[g][1] /\ 1 \in 1..Len(queue[g])
    BY <1>1, <1>3 DEF TypeInv, TypeOK, RunTypeOK
  <2>2. Fit(g, item'[g])
    BY <2>1 DEF IsoInv, QueuesFit
  <2>3. \A h \in Gens \ {g} : item'[h] = item[h] /\ pc'[h] = pc[h]
    BY <1>1 DEF TypeInv, TypeOK, RunTypeOK
  <2>4. \A h \in Gens : pc'[h] \in Busy => Fit(h, item'[h])
    BY <2>2, <2>3 DEF IsoInv, ItemsFit
  <2> QED BY <1>1, <2>4 DEF ItemsFit, Fit
<1>7. ReceiptFit'
  BY <1>1, <1>2 DEF IsoInv, ReceiptFit
<1> QED BY <1>5, <1>6, <1>7 DEF IsoInv

\* Resolving an event forgets it.
LEMMA ForgetIso ==
  ASSUME TypeInv, IsoInv, NEW g \in Gens, Forget(g), UNCHANGED <<cfg, mgen, receipts, nGen>>,
         \A h \in Gens : queue'[h] = queue[h] \/ queue'[h] = <<>>
  PROVE  IsoInv'
<1>1. \A h, d : Fit(h, d)' <=> Fit(h, d)
  BY Zenon DEF Fit
<1>2. QueuesFit'
  <2>1. \A h \in Gens : \A i \in 1..Len(queue'[h]) : Fit(h, queue'[h][i])
    BY DEF IsoInv, QueuesFit
  <2> QED BY <2>1 DEF QueuesFit, Fit
<1>3. ItemsFit'
  <2>1. pc'[g] = "idle" /\ \A h \in Gens \ {g} : item'[h] = item[h] /\ pc'[h] = pc[h]
    BY RunnerSplit, Zenon DEF Forget, TypeInv, TypeOK, RunTypeOK
  <2>2. \A h \in Gens : pc'[h] \in Busy => Fit(h, item'[h])
    BY <2>1, Zenon DEF IsoInv, ItemsFit, Busy
  <2> QED BY <2>2, Zenon DEF ItemsFit, Fit
<1>4. ReceiptFit'
  BY <1>1 DEF IsoInv, ReceiptFit
<1> QED BY <1>2, <1>3, <1>4 DEF IsoInv

\* Post keeps every queue, event in hand and receipt with its own receiver.
LEMMA PostIso ==
  ASSUME TypeInv, IsoInv, NEW r \in Runners, NEW o \in Outcomes, Post(r, o)
  PROVE  IsoInv'
<1>1. /\ UNCHANGED <<cfg, mgen, queue, item, nGen>> /\ pc[r] = "post"
      /\ pc' = [pc EXCEPT ![r] = "finish"]
  BY Zenon DEF Post, genVars, sourceVars, msgVars
<1>2. \A h, d : Fit(h, d)' <=> Fit(h, d)
  BY <1>1, Zenon DEF Fit
<1>3. QueuesFit'
  BY <1>1, <1>2, Zenon DEF IsoInv, QueuesFit
<1>4. ItemsFit'
  <2>1. \A h \in Gens : pc'[h] \in Busy => pc[h] \in Busy
    BY <1>1 DEF TypeInv, TypeOK, RunTypeOK, Busy
  <2> QED BY <1>1, <1>2, <2>1, Zenon DEF IsoInv, ItemsFit
<1>5. ReceiptFit'
  <2>1. CASE r \in Tests
    BY <2>1, <1>1, <1>2, Zenon DEF Post, histVars, IsoInv, ReceiptFit
  <2>2. CASE r \in Gens
    <3> DEFINE x == [by |-> r, event |-> item[r].event, body |-> item[r].body]
    <3>1. receipts' = receipts \cup {x}
      BY <2>2, RunnerSplit, Zenon DEF Post
    <3>2. r \in 1..nGen
      <4>1. ~(r > nGen)
        BY <2>2, <1>1 DEF TypeInv, LoopInv
      <4> QED BY <2>2, <4>1 DEF TypeInv, TypeOK, GenTypeOK
    <3>3. Fit(r, x)
      BY <2>2, <1>1, Zenon DEF IsoInv, ItemsFit, Busy, Fit
    <3> QED BY <1>1, <1>2, <3>1, <3>2, <3>3 DEF IsoInv, ReceiptFit
  <2> QED BY <2>1, <2>2, RunnerSplit
<1> QED BY <1>3, <1>4, <1>5 DEF IsoInv

\* Every step keeps the isolation invariant: one case per action.
LEMMA IsoNext == TypeInv /\ SafeInv /\ IsoInv /\ [Next]_vars => IsoInv'
<1> SUFFICES ASSUME TypeInv, SafeInv, IsoInv, [Next]_vars PROVE IsoInv'
  BY Zenon
<1> USE DEF genVars, stateVars, warnVars, msgVars, sourceVars, runVars, histVars
<1>1. CASE \E u \in URLs, ev \in Selections : Configure(u, ev)
  BY <1>1, ConfigureIso, Zenon
<1>2. CASE Remove
  <2>1. \A g \in Gens : queue'[g] = queue[g] \/ queue'[g] = <<>>
    BY <1>2, Zenon DEF Remove, TypeInv, TypeOK, GenTypeOK
  <2>2. \A g \in Gens : \A i \in 1..Len(queue'[g]) : Fit(g, queue'[g][i])
    BY <2>1 DEF IsoInv, QueuesFit
  <2> QED BY <1>2, <2>2, IsoQueue, Zenon DEF Remove
<1>3. CASE ShutdownCancel
  BY <1>3, IsoFrame DEF ShutdownCancel
<1>4. CASE QueueRuntimeConnection
  <2>1. gen \in 0..nGen
    BY DEF TypeInv, TypeOK, GenTypeOK
  <2>2. \A g \in Gens : \A i \in 1..Len(queue'[g]) : Fit(g, queue'[g][i])
    BY Zenon, <1>4, <2>1, EnqueueIso DEF QueueRuntimeConnection
  <2> QED BY <1>4, <2>2, IsoQueue, Zenon DEF QueueRuntimeConnection
<1>5. ASSUME NEW w \in Warnings, QueueRuntimeStorageWarning(w) PROVE IsoInv'
  <2>1. gen \in 0..nGen
    BY DEF TypeInv, TypeOK, GenTypeOK
  <2>2. \A g \in Gens : \A i \in 1..Len(queue'[g]) : Fit(g, queue'[g][i])
    BY Zenon, <1>5, <2>1, EnqueueIso DEF QueueRuntimeStorageWarning
  <2> QED BY <1>5, <2>2, IsoQueue DEF QueueRuntimeStorageWarning
<1>6. ASSUME NEW w \in Warnings, ClearStorageWarning(w) PROVE IsoInv'
  BY <1>6, IsoFrame DEF ClearStorageWarning
<1>7. ASSUME NEW m \in Messages, Subscriber(m) PROVE IsoInv'
  BY <1>7, SubscriberIso, Zenon
<1>8. ASSUME NEW m \in Messages, NEW fits \in BOOLEAN, QueueRuntimeMessage(m, fits) PROVE IsoInv'
  <2>1. mgen[m] \in 0..nGen
    BY SMTT(30), <1>8 DEF QueueRuntimeMessage, TypeInv, TypeOK, GenTypeOK, SourceTypeOK, LoopInv
  <2>2. \A g \in Gens : \A i \in 1..Len(queue'[g]) : Fit(g, queue'[g][i])
    BY <1>8, <2>1, EnqueueIso DEF QueueRuntimeMessage
  <2> QED BY <1>8, <2>2, IsoQueue, Zenon DEF QueueRuntimeMessage
<1>9. ASSUME NEW g \in Gens, WorkerStep(g) PROVE IsoInv'
  <2>1. CASE Dequeue(g)
    BY <2>1, DequeueIso
  <2>2. CASE WorkerExit(g)
    <3>1. \A h \in Gens : pc'[h] \in Busy => pc[h] \in Busy
      BY <2>2 DEF WorkerExit, TypeInv, TypeOK, RunTypeOK, Busy
    <3> QED BY <2>2, <3>1, IsoFrame, Zenon DEF WorkerExit
  <2>3. CASE LoopHead(g)
    <3>1. \A h \in Gens : pc'[h] \in Busy => pc[h] \in Busy
      BY <2>3 DEF LoopHead, TypeInv, TypeOK, RunTypeOK, Busy
    <3> QED BY <2>3, <3>1, IsoFrame, Zenon DEF LoopHead
  <2>4. CASE Settle(g)
    <3>1. \A h \in Gens : queue'[h] = queue[h] \/ queue'[h] = <<>>
      BY <2>4, Zenon DEF Settle, TypeInv, TypeOK, GenTypeOK
    <3> QED BY <2>4, <3>1, ForgetIso, Zenon DEF Settle
  <2> QED BY <1>9, <2>1, <2>2, <2>3, <2>4 DEF WorkerStep
<1>10. ASSUME NEW t \in Tests, StartTest(t) PROVE IsoInv'
  <2>1. \A h \in Gens : pc'[h] = pc[h]
    BY Zenon, <1>10, RunnerSplit DEF StartTest, TypeInv, TypeOK, RunTypeOK
  <2> QED BY <1>10, <2>1, IsoFrame DEF StartTest
<1>11. ASSUME NEW r \in Runners, Expire(r) PROVE IsoInv'
  BY <1>11, IsoFrame DEF Expire
<1>12. ASSUME NEW r \in Runners, AttemptStep(r) PROVE IsoInv'
  <2>1. CASE Acquire(r) \/ AcquireCancelled(r) \/ FinishFail(r)
    <3>1. /\ pc[r] \in Busy /\ \A q \in Runners \ {r} : pc'[q] = pc[q]
          /\ UNCHANGED <<cfg, mgen, queue, item, receipts, nGen>>
      BY <2>1, Zenon DEF Acquire, AcquireCancelled, FinishFail, AfterFailure, TypeInv, TypeOK, RunTypeOK, Busy
    <3> QED BY <3>1, IsoFrame, RunnerSplit
  <2>2. CASE \E o \in Outcomes : Post(r, o)
    BY <2>2, PostIso
  <2>3. CASE FinishOk(r)
    <3>1. CASE r \in Gens
      BY <2>3, <3>1, RunnerSplit, ForgetIso, Zenon DEF FinishOk
    <3>2. CASE r \in Tests
      <4>1. \A h \in Gens : pc'[h] = pc[h]
        BY <2>3, <3>2, RunnerSplit, Zenon DEF FinishOk, TypeInv, TypeOK, RunTypeOK
      <4> QED BY <2>3, <3>2, <4>1, IsoFrame, Zenon DEF FinishOk
    <3> QED BY <3>1, <3>2, RunnerSplit
  <2> QED BY <1>12, <2>1, <2>2, <2>3, Zenon DEF AttemptStep
<1>13. CASE UNCHANGED vars
  BY <1>13, IsoFrame DEF vars
<1> QED BY <1>1, <1>2, <1>3, <1>4, <1>5, <1>6, <1>7, <1>8, <1>9, <1>10, <1>11, <1>12, <1>13 DEF Next

\* A message reaches only the receiver generation that admitted it, and only
\* selected events are sent, for any interleaving of PUTs with handlers and POSTs.
THEOREM ReceiverIsolationAlways == Spec => []ReceiverIsolation
<1>1. Init => TypeInv /\ SafeInv /\ IsoInv
  BY TypeInit, SafeInit, IsoInit
<1>2. TypeInv /\ SafeInv /\ IsoInv /\ [Next]_vars => (TypeInv /\ SafeInv /\ IsoInv)'
  BY TypeNext, SafeNext, IsoNext, Zenon
<1>3. IsoInv => ReceiverIsolation
  BY Zenon DEF IsoInv, ReceiptFit, Fit, ReceiverIsolation
<1> QED BY <1>1, <1>2, <1>3, PTL DEF Spec
-----------------------------------------------------------------------------
(* Who changes the failure count, and where the latest transition is *)

\* A step that changes the count of the current generation is the worker's own: the
\* end of a delivered event, or the settlement of one that was not.
LEMMA OwnerStep ==
  ASSUME TypeInv, [Next]_vars, gen' = gen, failures' # failures
  PROVE  pc[gen] \in {"finish", "settle"} /\ pc'[gen] = "idle"
<1> USE DEF genVars, stateVars, warnVars, msgVars, sourceVars, runVars, histVars
<1>0. gen \in 0..nGen /\ nGen \in Nat BY DEF TypeInv, TypeOK, GenTypeOK
<1>1. ASSUME NEW u \in URLs, NEW ev \in Selections, Configure(u, ev) PROVE FALSE
  <2>1. gen' = nGen + 1 BY <1>1, Zenon DEF Configure
  <2> QED BY <1>0, <2>1
<1>2. ~(Remove \/ ShutdownCancel \/ QueueRuntimeConnection)
  BY Zenon DEF Remove, ShutdownCancel, QueueRuntimeConnection
<1>3. /\ ~(\E w \in Warnings : QueueRuntimeStorageWarning(w) \/ ClearStorageWarning(w))
      /\ ~(\E m \in Messages : Subscriber(m) \/ \E fits \in BOOLEAN : QueueRuntimeMessage(m, fits))
      /\ ~(\E t \in Tests : StartTest(t))
  BY Zenon DEF QueueRuntimeStorageWarning, ClearStorageWarning, Subscriber, QueueRuntimeMessage, StartTest
<1>4. ASSUME NEW g \in Gens, WorkerStep(g) PROVE pc[gen] = "settle" /\ pc'[gen] = "idle"
  <2>1. Settle(g) BY <1>4 DEF WorkerStep, Dequeue, WorkerExit, LoopHead
  <2>2. gen = g /\ pc[g] = "settle" /\ pc' = [pc EXCEPT ![g] = "idle"]
    BY <2>1 DEF Settle, Counts, Forget
  <2> QED BY <2>2, RunnerSplit, Zenon DEF TypeInv, TypeOK, RunTypeOK
<1>5. ASSUME NEW r \in Runners, Expire(r) \/ AttemptStep(r) PROVE pc[gen] = "finish" /\ pc'[gen] = "idle"
  <2>1. FinishOk(r) BY <1>5, Zenon DEF AttemptStep, Expire, Acquire, AcquireCancelled, Post, FinishFail
  <2>2. gen = r /\ r \notin Tests /\ pc[r] = "finish" BY <2>1, Zenon DEF FinishOk, OwnState, GenOf
  <2>3. pc' = [pc EXCEPT ![r] = "idle"] BY <2>1, <2>2, Zenon DEF FinishOk, Forget
  <2> QED BY <2>2, <2>3 DEF TypeInv, TypeOK, RunTypeOK
<1>6. ~UNCHANGED vars BY DEF vars
<1> QED BY <1>1, <1>2, <1>3, <1>4, <1>5, <1>6 DEF Next

\* An answer to a replaced generation or to a synthetic test never changes the failure
\* count of the receiver in force (attempt and run, under w.mu).
THEOREM FailureCountOwned == Spec => FailureCountOwner
<1>1. TypeInv /\ [Next]_vars =>
        [gen' = gen /\ failures' # failures => pc[gen] \in {"finish", "settle"} /\ pc'[gen] = "idle"]_vars
  BY OwnerStep, Zenon
<1> QED BY <1>1, TypeInit, TypeNext, PTL DEF Spec, FailureCountOwner

\* A worker without an event holds none.
IdleEmpty == \A g \in Gens : pc[g] \in {"idle", "exited"} => item[g] = NoDelivery
KeptInv == LatestTransitionKept /\ IdleEmpty

\* NoDelivery is not a transition.
LEMMA NotTransition == \A n : NoDelivery # Connection(n)
BY DEF NoDelivery, Connection

\* A step that leaves receiver and transition alone keeps the latest transition when
\* what held it still does, or it has ended.
LEMMA KeptFrame ==
  ASSUME LatestTransitionKept, UNCHANGED <<gen, cfg, lastConn>>, enabled' => enabled,
         settled \subseteq settled',
         gen # NoGen /\ Holds(gen, lastConn) =>
           \/ item'[gen] = Connection(lastConn)
           \/ \E i \in 1..Len(queue'[gen]) : queue'[gen][i] = Connection(lastConn)
           \/ \E how \in Endings : Ending(cfg[gen].url, lastConn, how) \in settled'
  PROVE  LatestTransitionKept'
BY Zenon DEF LatestTransitionKept, Holds

\* The same for a step that touches neither queues nor events in hand.
LEMMA KeptStill ==
  ASSUME LatestTransitionKept, UNCHANGED <<gen, cfg, lastConn, settled, item, queue>>, enabled' => enabled
  PROVE  LatestTransitionKept'
BY Zenon DEF LatestTransitionKept, Holds

\* An enqueue moves nothing that waits.
LEMMA EnqueueKeeps ==
  ASSUME TypeInv, NEW g \in 0..nGen, NEW e, NEW b, NEW fits, EnqueueLocked(g, e, b, fits)
  PROVE  \A h \in Gens : \A i \in 1..Len(queue[h]) :
           i \in 1..Len(queue'[h]) /\ queue'[h][i] = queue[h][i]
<1> DEFINE d == [event |-> e, body |-> b]
<1>1. CASE UNCHANGED queue
  BY <1>1
<1>2. CASE queue' # queue
  <2>1. g # 0 /\ queue' = [queue EXCEPT ![g] = Append(queue[g], d)]
    BY <1>2 DEF EnqueueLocked, Selects
  <2>2. g \in Gens /\ queue \in [Gens -> Seq(Delivery)]
    BY <2>1, Bounds DEF TypeInv, TypeOK, GenTypeOK
  <2> HIDE DEF d
  <2>3. ASSUME NEW h \in Gens, NEW i \in 1..Len(queue[h])
        PROVE  i \in 1..Len(queue'[h]) /\ queue'[h][i] = queue[h][i]
    <3>1. CASE h # g
      BY <3>1, <2>1, <2>2, <2>3
    <3>2. CASE h = g
      <4>1. queue'[h] = Append(queue[h], d) /\ queue[h] \in Seq(Delivery)
        BY <3>2, <2>1, <2>2
      <4> QED BY <4>1, <2>3
    <3> QED BY <3>1, <3>2
  <2> QED BY <2>3
<1> QED BY <1>1, <1>2

\* The replay of a newly selected receiver starts with the latest transition.
LEMMA ReplayHead ==
  ASSUME TypeInv, NEW g, NEW ev, lastConn # 0, "connection.changed" \in ev
  PROVE  /\ Replay(g, ev, TRUE) \in Seq(Delivery)
         /\ Len(Replay(g, ev, TRUE)) >= 1
         /\ Replay(g, ev, TRUE)[1] = Connection(lastConn)
<1>1. /\ Connection(lastConn) \in Delivery
      /\ \A w \in Warnings : [event |-> "storage.warning", body |-> warning[w]] \in Delivery
  BY DEF TypeInv, TypeOK, SourceTypeOK, Delivery, Kinds, Connection
<1>2. 1 \in Warnings /\ 2 \in Warnings
  BY DEF Warnings
<1> QED BY SMTT(30), <1>1, <1>2 DEF Replay, Connection

\* A PUT replays the latest transition or inherits how it stands for the same URL.
LEMMA ConfigureKept ==
  ASSUME TypeInv, KeptInv, NEW u \in URLs, NEW ev \in Selections, Configure(u, ev)
  PROVE  LatestTransitionKept'
<1> DEFINE replay == Replay(nGen + 1, ev, NewlySelected(u))
           room   == MinOf(QueueCap, Len(replay))
           kept   == IF gen = NoGen THEN queue ELSE [queue EXCEPT ![gen] = <<>>]
<1>0. /\ gen \in 0..nGen /\ nGen \in 0..MaxGen /\ (gen # NoGen => gen \in Gens)
      /\ cfg \in [Gens -> [url : URLs, events : SUBSET Kinds]]
      /\ queue \in [Gens -> Seq(Delivery)]
  BY Bounds DEF TypeInv, TypeOK, GenTypeOK
<1>1. nGen < MaxGen
  BY DEF Configure
<1>2. nGen + 1 \in Gens
  BY <1>0, <1>1, Bounds
<1>3. /\ gen' = nGen + 1 /\ lastConn' = lastConn
      /\ cfg' = [cfg EXCEPT ![nGen + 1] = [url |-> u, events |-> ev]]
      /\ queue' = [kept EXCEPT ![nGen + 1] = SubSeq(replay, 1, room)]
      /\ settled \subseteq settled'
      /\ KeepsTransitions(u, ev) /\ Holds(gen, lastConn)
           => Ending(u, lastConn, "replaced") \in settled'
  BY Zenon DEF Configure, sourceVars
<1>9. cfg'[gen'] = [url |-> u, events |-> ev]
  BY <1>0, <1>2, <1>3, Zenon
<1>4. cfg'[gen'].url = u /\ cfg'[gen'].events = ev /\ lastConn' = lastConn
  BY <1>3, <1>9
<1>5. SUFFICES ASSUME lastConn # 0, "connection.changed" \in ev
               PROVE  \/ \E i \in 1..Len(queue'[gen']) : queue'[gen'][i] = Connection(lastConn)
                      \/ \E how \in Endings : Ending(u, lastConn, how) \in settled'
  BY <1>4, Zenon DEF LatestTransitionKept, Holds
<1>6. CASE NewlySelected(u)
  <2>1. replay \in Seq(Delivery) /\ Len(replay) >= 1 /\ replay[1] = Connection(lastConn)
    BY <1>5, <1>6, ReplayHead, Zenon
  <2>2. queue'[gen'] = SubSeq(replay, 1, room)
    <3>1. kept \in [Gens -> Seq(Delivery)]
      BY <1>0
    <3> QED BY <1>2, <1>3, <3>1, Zenon
  <2>3. room \in 1..Len(replay)
    BY <2>1, Bounds DEF MinOf
  <2> HIDE DEF replay, room
  <2>4. 1 \in 1..Len(SubSeq(replay, 1, room)) /\ SubSeq(replay, 1, room)[1] = replay[1]
    BY <2>1, <2>3
  <2> QED BY <2>1, <2>2, <2>4, Zenon
<1>7. CASE ~NewlySelected(u)
  <2>1. KeepsTransitions(u, ev) /\ gen # NoGen /\ enabled /\ cfg[gen].url = u
    BY <1>5, <1>7, Zenon DEF NewlySelected, KeepsTransitions
  <2>2. \/ Holds(gen, lastConn)
        \/ \E how \in Endings : Ending(u, lastConn, how) \in settled
    BY <1>5, <1>7, <2>1, Zenon DEF KeptInv, LatestTransitionKept, NewlySelected
  <2> QED BY <1>3, <2>1, <2>2, Zenon DEF Endings
<1> QED BY <1>6, <1>7

\* Taking the head of the queue moves it into the worker's hands.
LEMMA DequeueKept ==
  ASSUME TypeInv, KeptInv, NEW g \in Gens, Dequeue(g)
  PROVE  KeptInv'
<1>1. /\ pc[g] = "idle" /\ queue[g] # <<>>
      /\ item' = [item EXCEPT ![g] = Head(queue[g])]
      /\ queue' = [queue EXCEPT ![g] = Tail(queue[g])]
      /\ pc' = [pc EXCEPT ![g] = "loop"]
      /\ UNCHANGED <<gen, cfg, lastConn, enabled, settled>>
  BY Zenon DEF Dequeue, genVars, stateVars, sourceVars
<1>2. /\ queue \in [Gens -> Seq(Delivery)] /\ item \in [Gens -> Delivery]
      /\ pc \in [Runners -> PCs] /\ (gen # NoGen => gen \in Gens)
  BY Bounds DEF TypeInv, TypeOK, GenTypeOK, RunTypeOK
<1>3. ASSUME gen # NoGen, Holds(gen, lastConn)
      PROVE  \/ item'[gen] = Connection(lastConn)
             \/ \E i \in 1..Len(queue'[gen]) : queue'[gen][i] = Connection(lastConn)
  <2>1. CASE gen # g
    BY <1>1, <1>2, <1>3, <2>1, Zenon DEF Holds
  <2>2. CASE gen = g
    <3>1. item[g] = NoDelivery
      BY <1>1, Zenon DEF KeptInv, IdleEmpty
    <3>2. PICK i \in 1..Len(queue[g]) : queue[g][i] = Connection(lastConn)
      BY <1>3, <2>2, <3>1, NotTransition, Zenon DEF Holds
    <3>3. item'[g] = queue[g][1] /\ queue'[g] = Tail(queue[g]) /\ queue[g] \in Seq(Delivery)
      BY <1>1, <1>2
    <3>4. CASE i = 1
      BY <3>2, <3>3, <3>4, <2>2
    <3>5. CASE i # 1
      <4>1. i - 1 \in 1..Len(queue'[g]) /\ queue'[g][i - 1] = queue[g][i]
        BY <3>2, <3>3, <3>5
      <4> QED BY <4>1, <3>2, <2>2
    <3> QED BY <3>4, <3>5
  <2> QED BY <2>1, <2>2
<1>4. LatestTransitionKept'
  BY <1>1, <1>3, KeptFrame DEF KeptInv
<1>5. IdleEmpty'
  <2>1. \A h \in Gens : h # g => pc'[h] = pc[h] /\ item'[h] = item[h]
    BY <1>1, <1>2, RunnerSplit, Zenon
  <2>2. pc'[g] = "loop"
    BY <1>1, <1>2, RunnerSplit, Zenon
  <2> QED BY <2>1, <2>2 DEF KeptInv, IdleEmpty
<1> QED BY <1>4, <1>5 DEF KeptInv

\* The end of an event: the worker forgets it, and the receiver in force keeps its
\* queue.
LEMMA ForgetKept ==
  ASSUME TypeInv, KeptInv, NEW g \in Gens, Forget(g), UNCHANGED <<gen, cfg, lastConn>>,
         enabled' => enabled, settled \subseteq settled',
         gen # NoGen /\ enabled' => queue'[gen] = queue[gen],
         gen = g /\ enabled' /\ item[g] = Connection(lastConn)
           => \E how \in Endings : Ending(cfg[g].url, lastConn, how) \in settled'
  PROVE  KeptInv'
<1>1. /\ item \in [Gens -> Delivery] /\ pc \in [Runners -> PCs] /\ (gen # NoGen => gen \in Gens)
  BY Bounds DEF TypeInv, TypeOK, GenTypeOK, RunTypeOK
<1>2. item' = [item EXCEPT ![g] = NoDelivery] /\ pc' = [pc EXCEPT ![g] = "idle"]
  BY Zenon DEF Forget
<1>3. IdleEmpty'
  <2>1. \A h \in Gens : h # g => pc'[h] = pc[h] /\ item'[h] = item[h]
    BY <1>1, <1>2, RunnerSplit, Zenon
  <2>2. item'[g] = NoDelivery
    BY <1>1, <1>2, Zenon
  <2> QED BY <2>1, <2>2, Zenon DEF KeptInv, IdleEmpty
<1>4. LatestTransitionKept'
  <2>1. CASE enabled'
    <3>1. gen # NoGen /\ gen # g => item'[gen] = item[gen]
      BY <1>1, <1>2, Zenon
    <3>2. gen # NoGen /\ Holds(gen, lastConn) =>
           \/ item'[gen] = Connection(lastConn)
           \/ \E i \in 1..Len(queue'[gen]) : queue'[gen][i] = Connection(lastConn)
           \/ \E how \in Endings : Ending(cfg[gen].url, lastConn, how) \in settled'
      BY <2>1, <3>1, Zenon DEF Holds
    <3> QED BY <3>2, KeptFrame DEF KeptInv
  <2>2. CASE ~enabled'
    BY <2>2, Zenon DEF LatestTransitionKept
  <2> QED BY <2>1, <2>2, Zenon
<1> QED BY <1>3, <1>4, Zenon DEF KeptInv

\* A worker that moves on with its event in hand.
LEMMA IdleFrameKept ==
  ASSUME IdleEmpty, UNCHANGED item, \A g \in Gens : pc'[g] \in {"idle", "exited"} => pc[g] \in {"idle", "exited"}
  PROVE  IdleEmpty'
BY Zenon DEF IdleEmpty

LEMMA KeptNext == TypeInv /\ SafeInv /\ KeptInv /\ [Next]_vars => KeptInv'
<1> SUFFICES ASSUME TypeInv, SafeInv, KeptInv, [Next]_vars PROVE KeptInv'
  BY Zenon
<1> USE DEF genVars, stateVars, warnVars, msgVars, sourceVars, runVars, histVars
<1>0. /\ gen \in 0..nGen /\ (gen # NoGen => gen \in Gens) /\ pc \in [Runners -> PCs]
      /\ item \in [Gens -> Delivery] /\ queue \in [Gens -> Seq(Delivery)]
      /\ LatestTransitionKept /\ IdleEmpty
  BY Bounds DEF TypeInv, TypeOK, GenTypeOK, RunTypeOK, KeptInv
<1>1. ASSUME NEW u \in URLs, NEW ev \in Selections, Configure(u, ev) PROVE KeptInv'
  <2>1. UNCHANGED <<pc, item>> BY <1>1, Zenon DEF Configure
  <2> QED BY <1>0, <1>1, <2>1, ConfigureKept, IdleFrameKept, Zenon DEF KeptInv
<1>2. CASE Remove
  <2>1. UNCHANGED <<pc, item>> /\ gen' = NoGen BY <1>2, Zenon DEF Remove
  <2> QED BY <1>0, <2>1, IdleFrameKept, Zenon DEF KeptInv, LatestTransitionKept
<1>3. CASE ShutdownCancel
  <2>1. UNCHANGED <<gen, cfg, lastConn, settled, item, queue, enabled, pc>> BY <1>3, Zenon DEF ShutdownCancel
  <2> QED BY <1>0, <2>1, KeptStill, IdleFrameKept, Zenon DEF KeptInv
<1>4. CASE QueueRuntimeConnection
  <2>1. /\ UNCHANGED <<gen, cfg, enabled, pc, item>> /\ lastConn' = lastConn + 1
        /\ EnqueueLocked(gen, "connection.changed", lastConn + 1, TRUE)
        /\ settled' = IF Selects(gen, "connection.changed") /\ Admits(gen) /\ Len(queue[gen]) >= QueueCap
                      THEN settled \cup {Ending(cfg[gen].url, lastConn + 1, "full")} ELSE settled
    BY <1>4, Zenon DEF QueueRuntimeConnection
  <2>2. ASSUME gen # NoGen, enabled, "connection.changed" \in cfg[gen].events
        PROVE  \/ \E i \in 1..Len(queue'[gen]) : queue'[gen][i] = Connection(lastConn + 1)
               \/ Ending(cfg[gen].url, lastConn + 1, "full") \in settled'
    <3>1. CASE Len(queue[gen]) >= QueueCap
      BY <2>1, <2>2, <3>1, Zenon DEF Selects, Admits
    <3>2. CASE ~(Len(queue[gen]) >= QueueCap)
      <4>1. queue' = [queue EXCEPT ![gen] = Append(queue[gen], Connection(lastConn + 1))]
        BY <2>1, <2>2, <3>2, Zenon DEF EnqueueLocked, Selects, Admits, Connection
      <4>2. queue'[gen] = Append(queue[gen], Connection(lastConn + 1)) /\ queue[gen] \in Seq(Delivery)
        BY <1>0, <2>2, <4>1, Zenon
      <4>3. /\ Len(queue[gen]) + 1 \in 1..Len(queue'[gen])
            /\ queue'[gen][Len(queue[gen]) + 1] = Connection(lastConn + 1)
        BY <4>2
      <4> QED BY <4>3, Zenon
    <3> QED BY <3>1, <3>2
  <2>3. LatestTransitionKept'
    BY <2>1, <2>2, Zenon DEF LatestTransitionKept, Holds, Endings
  <2> QED BY <1>0, <2>1, <2>3, IdleFrameKept, Zenon DEF KeptInv
<1>5. ASSUME \/ \E w \in Warnings : QueueRuntimeStorageWarning(w)
             \/ \E m \in Messages, fits \in BOOLEAN : QueueRuntimeMessage(m, fits)
      PROVE  KeptInv'
  <2>1. /\ UNCHANGED <<gen, cfg, lastConn, settled, item, enabled, pc>>
        /\ \E h \in 0..nGen : \E e, b, fits : EnqueueLocked(h, e, b, fits)
    <3>1. \A m \in Messages : mgen[m] >= 0 => mgen[m] \in 0..nGen
      BY DEF TypeInv, TypeOK, LoopInv, SourceTypeOK
    <3> QED BY <1>0, <1>5, <3>1, Zenon DEF QueueRuntimeStorageWarning, QueueRuntimeMessage
  <2>2. \A h \in Gens : \A i \in 1..Len(queue[h]) : i \in 1..Len(queue'[h]) /\ queue'[h][i] = queue[h][i]
    BY <2>1, EnqueueKeeps, Zenon
  <2>3. LatestTransitionKept'
    BY <1>0, <2>1, <2>2, KeptFrame, Zenon DEF Holds
  <2> QED BY <1>0, <2>1, <2>3, IdleFrameKept, Zenon DEF KeptInv
<1>6. ASSUME \/ \E w \in Warnings : ClearStorageWarning(w)
             \/ \E m \in Messages : Subscriber(m)
             \/ \E t \in Tests : StartTest(t)
      PROVE  KeptInv'
  <2>1. /\ UNCHANGED <<gen, cfg, lastConn, settled, item, queue, enabled>>
        /\ \A g \in Gens : pc'[g] = pc[g]
    BY <1>0, <1>6, RunnerSplit, Zenon DEF ClearStorageWarning, Subscriber, StartTest
  <2> QED BY <1>0, <2>1, KeptStill, IdleFrameKept, Zenon DEF KeptInv
<1>7. ASSUME NEW g \in Gens, WorkerStep(g) PROVE KeptInv'
  <2>1. CASE Dequeue(g) BY <2>1, DequeueKept
  <2>2. CASE WorkerExit(g) \/ LoopHead(g)
    <3>1. /\ UNCHANGED <<gen, cfg, lastConn, settled, item, queue, enabled>>
          /\ \A h \in Gens : pc'[h] \in {"idle", "exited"} => pc[h] \in {"idle", "exited"}
      BY <1>0, <2>2, RunnerSplit DEF WorkerExit, LoopHead
    <3> QED BY <1>0, <3>1, KeptStill, IdleFrameKept, Zenon DEF KeptInv
  <2>3. CASE Settle(g)
    <3>1. /\ Forget(g) /\ UNCHANGED <<gen, cfg, lastConn>> /\ (enabled' => enabled)
          /\ settled \subseteq settled'
      BY <2>3, Zenon DEF Settle
    <3>2. ~Disables(g) => queue' = queue
      BY <1>0, <2>3, Zenon DEF Settle
    <3>3. enabled' => ~Disables(g)
      BY <2>3, Zenon DEF Settle
    <3>4. gen = g /\ enabled' /\ item[g] = Connection(lastConn)
            => Ending(cfg[g].url, lastConn, "spent") \in settled'
      <4>1. item[g] = Connection(lastConn) => item[g].event = "connection.changed" /\ item[g].body = lastConn
        BY DEF Connection
      <4> QED BY <2>3, <3>3, <4>1, Zenon DEF Settle
    <3> QED BY <3>1, <3>2, <3>3, <3>4, ForgetKept, Zenon DEF Endings
  <2> QED BY <1>7, <2>1, <2>2, <2>3, Zenon DEF WorkerStep
<1>8. ASSUME NEW r \in Runners, Expire(r) \/ AttemptStep(r) PROVE KeptInv'
  <2>1. CASE FinishOk(r) /\ r \in Gens
    <3>1. /\ Forget(r) /\ UNCHANGED <<gen, cfg, lastConn, enabled, queue>> /\ settled \subseteq settled'
      BY <2>1, RunnerSplit, Zenon DEF FinishOk
    <3>2. item[r] = Connection(lastConn) => Ending(cfg[r].url, lastConn, "answered") \in settled'
      <4>1. item[r] = Connection(lastConn) => item[r].event = "connection.changed" /\ item[r].body = lastConn
        BY DEF Connection
      <4> QED BY <2>1, <4>1, RunnerSplit, Zenon DEF FinishOk
    <3> QED BY <2>1, <3>1, <3>2, ForgetKept, Zenon DEF Endings
  <2>2. CASE ~(FinishOk(r) /\ r \in Gens)
    <3>1. UNCHANGED <<gen, cfg, lastConn, settled, item, queue, enabled>>
      BY <1>8, <2>2, RunnerSplit, Zenon DEF Expire, AttemptStep, Acquire, AcquireCancelled, Post, FinishOk, FinishFail
    <3>2. r \in Gens => pc'[r] \notin {"idle", "exited"} \/ pc'[r] = pc[r]
      BY <1>0, <1>8, <2>2, RunnerSplit, Zenon DEF Expire, AttemptStep, Acquire, AcquireCancelled, Post, FinishFail, AfterFailure
    <3>3. \A q \in Runners : q # r => pc'[q] = pc[q]
      BY <1>0, <1>8, <2>2, RunnerSplit, Zenon DEF Expire, AttemptStep, Acquire, AcquireCancelled, Post, FinishOk, FinishFail, AfterFailure
    <3>4. \A h \in Gens : pc'[h] \in {"idle", "exited"} => pc[h] \in {"idle", "exited"}
      BY <3>2, <3>3, RunnerSplit, Zenon
    <3> QED BY <1>0, <3>1, <3>4, KeptStill, IdleFrameKept, Zenon DEF KeptInv
  <2> QED BY <2>1, <2>2
<1>9. CASE UNCHANGED vars
  BY <1>0, <1>9, KeptStill, IdleFrameKept, Zenon DEF vars, KeptInv
<1> QED BY <1>1, <1>2, <1>3, <1>4, <1>5, <1>6, <1>7, <1>8, <1>9, Zenon DEF Next

\* For an enabled receiver that selects connection.changed the latest transition is
\* still on its way, or was answered, refused by a full queue, given up or abandoned by
\* a PUT for the same URL and selection: for any interleaving of PUTs, DELETEs,
\* disablements, transitions and answers (queueRuntimeConnection, configure, run).
THEOREM LatestKept == Spec => []LatestTransitionKept
<1>1. Init => KeptInv
  BY RunnerSplit, Zenon DEF Init, KeptInv, LatestTransitionKept, IdleEmpty
<1>2. KeptInv => LatestTransitionKept BY Zenon DEF KeptInv
<1> QED BY <1>1, <1>2, TypeInit, TypeNext, SafeInit, SafeNext, KeptNext, PTL DEF Spec
-----------------------------------------------------------------------------
(* The order of transitions at one receiver *)

Transition(d) == d.event = "connection.changed"

\* The transitions of generation g, from the endpoint back to the source: seen, in the
\* worker's hands, queued in order, recorded last.
Ordered(g) ==
  /\ seenConn[g] <= lastConn
  /\ \A i \in 1..Len(queue[g]) : Transition(queue[g][i]) =>
       seenConn[g] <= queue[g][i].body /\ queue[g][i].body <= lastConn
  /\ \A i, j \in 1..Len(queue[g]) :
       i < j /\ Transition(queue[g][i]) /\ Transition(queue[g][j]) => queue[g][i].body <= queue[g][j].body
  /\ pc[g] \in Busy /\ Transition(item[g]) =>
       /\ seenConn[g] <= item[g].body /\ item[g].body <= lastConn
       /\ \A i \in 1..Len(queue[g]) : Transition(queue[g][i]) => item[g].body <= queue[g][i].body
OrderInv == \A g \in Gens : Ordered(g)

LEMMA OrderTypes ==
  ASSUME TypeInv, NEW g \in Gens
  PROVE  /\ queue[g] \in Seq(Delivery) /\ Len(queue[g]) \in Nat /\ seenConn[g] \in Nat /\ lastConn \in Nat
         /\ item[g].body \in Nat /\ \A i \in 1..Len(queue[g]) : queue[g][i] \in Delivery /\ queue[g][i].body \in Nat
<1>1. queue[g] \in Seq(Delivery) BY Zenon DEF TypeInv, TypeOK, GenTypeOK
<1>2. item[g] \in Delivery BY Zenon DEF TypeInv, TypeOK, RunTypeOK
<1>3. seenConn[g] \in Nat /\ lastConn \in Nat BY Bounds DEF TypeInv, TypeOK, SourceTypeOK, CountTypeOK
<1>4. \A i \in 1..Len(queue[g]) : queue[g][i] \in Delivery BY <1>1
<1>5. \A x \in Delivery : x.body \in Nat BY DEF Delivery
<1>6. Len(queue[g]) \in Nat BY <1>1
<1> QED BY <1>1, <1>2, <1>3, <1>4, <1>5, <1>6, Zenon

\* A step that adds nothing to the queue of g and gives its worker nothing new.
LEMMA OrderFrame ==
  ASSUME NEW g \in Gens, Ordered(g), seenConn'[g] = seenConn[g], lastConn' = lastConn,
         queue'[g] = queue[g] \/ queue'[g] = <<>>,
         pc'[g] \in Busy => pc[g] \in Busy /\ item'[g] = item[g]
  PROVE  Ordered(g)'
<1>1. CASE queue'[g] = queue[g] BY <1>1, Zenon DEF Ordered, Transition
<1>2. CASE queue'[g] = <<>>
  <2>1. 1..Len(queue'[g]) = {} BY <1>2
  <2> QED BY <2>1, Zenon DEF Ordered, Transition
<1> QED BY <1>1, <1>2

\* An event is queued behind the others; a transition is the latest one.
LEMMA EnqueueOrder ==
  ASSUME TypeInv, OrderInv, NEW g \in 0..nGen, NEW e \in Kinds, NEW b \in Nat, NEW fits,
         EnqueueLocked(g, e, b, fits), UNCHANGED <<seenConn, pc, item>>,
         lastConn' \in Nat, lastConn <= lastConn',
         e = "connection.changed" => b = lastConn'
  PROVE  OrderInv'
<1> SUFFICES ASSUME NEW h \in Gens PROVE Ordered(h)' BY Zenon DEF OrderInv
<1> DEFINE d == [event |-> e, body |-> b]
<1>1. Ordered(h) BY DEF OrderInv
<1>2. queue'[h] = queue[h] \/ queue'[h] = Append(queue[h], d)
  <2>1. UNCHANGED queue \/ queue' = [queue EXCEPT ![g] = Append(queue[g], d)] BY Zenon DEF EnqueueLocked
  <2> QED BY <2>1, Zenon DEF TypeInv, TypeOK, GenTypeOK
<1>3. CASE queue'[h] = queue[h]
  <2>1. /\ lastConn \in Nat /\ seenConn[h] \in Nat /\ item[h].body \in Nat
        /\ \A i \in 1..Len(queue[h]) : queue[h][i].body \in Nat
    BY OrderTypes, Zenon
  <2>2. \A x \in Nat : x <= lastConn => x <= lastConn' BY <2>1
  <2> QED BY <1>1, <1>3, <2>1, <2>2, Zenon DEF Ordered, Transition
<1>4. CASE queue'[h] = Append(queue[h], d)
  <2> DEFINE q == queue[h]
             n == Len(queue[h])
  <2>1. n \in Nat /\ q \in Seq(Delivery) /\ Len(queue'[h]) = n + 1 /\ queue'[h][n + 1] = d
        /\ \A i \in 1..n : queue'[h][i] = q[i]
    BY <1>4, OrderTypes
  <2>2. \A i \in 1..(n + 1) : i = n + 1 \/ i \in 1..n BY <2>1
  <2>3. \A i \in 1..(n + 1) : Transition(queue'[h][i]) =>
           /\ seenConn[h] <= queue'[h][i].body /\ queue'[h][i].body <= lastConn'
           /\ i = n + 1 => queue'[h][i].body = lastConn'
    <3>1. seenConn[h] \in Nat /\ lastConn \in Nat /\ seenConn[h] <= lastConn BY <1>1, OrderTypes, Zenon DEF Ordered
    <3>2. Transition(d) => seenConn[h] <= d.body /\ d.body <= lastConn' /\ d.body = lastConn'
      BY <3>1 DEF Transition
    <3>3. \A i \in 1..n : Transition(q[i]) => seenConn[h] <= q[i].body /\ q[i].body <= lastConn'
      BY <1>1, <3>1, OrderTypes DEF Ordered
    <3>4. \A i \in 1..n : i # n + 1 BY <2>1
    <3> HIDE DEF d, q
    <3> QED BY <2>1, <2>2, <3>2, <3>3, <3>4, Zenon
  <2>4. \A i, j \in 1..(n + 1) : i < j /\ Transition(queue'[h][i]) /\ Transition(queue'[h][j])
           => queue'[h][i].body <= queue'[h][j].body
    <3> SUFFICES ASSUME NEW i \in 1..(n + 1), NEW j \in 1..(n + 1), i < j,
                        Transition(queue'[h][i]), Transition(queue'[h][j])
                 PROVE  queue'[h][i].body <= queue'[h][j].body
      BY Zenon
    <3>1. i \in 1..n BY <2>1
    <3>2. CASE j = n + 1 BY <2>3, <3>2
    <3>3. CASE j \in 1..n BY <1>1, <2>1, <3>1, <3>3, Zenon DEF Ordered
    <3> QED BY <2>2, <3>2, <3>3, Zenon
  <2>5. pc[h] \in Busy /\ Transition(item[h]) =>
          /\ seenConn[h] <= item[h].body /\ item[h].body <= lastConn'
          /\ \A i \in 1..(n + 1) : Transition(queue'[h][i]) => item[h].body <= queue'[h][i].body
    <3> SUFFICES ASSUME pc[h] \in Busy, Transition(item[h])
                 PROVE  /\ seenConn[h] <= item[h].body /\ item[h].body <= lastConn'
                        /\ \A i \in 1..(n + 1) : Transition(queue'[h][i]) => item[h].body <= queue'[h][i].body
      BY Zenon
    <3>1. seenConn[h] <= item[h].body /\ item[h].body <= lastConn' BY <1>1, OrderTypes DEF Ordered
    <3>2. \A i \in 1..n : Transition(q[i]) => item[h].body <= q[i].body BY <1>1, Zenon DEF Ordered
    <3> QED BY <2>1, <2>2, <2>3, <3>1, <3>2, Zenon
  <2>6. seenConn[h] <= lastConn' BY <1>1, OrderTypes DEF Ordered
  <2>7. UNCHANGED <<seenConn[h], pc[h], item[h]>> BY Zenon
  <2> QED BY <2>1, <2>3, <2>4, <2>5, <2>6, <2>7, Zenon DEF Ordered, Transition
<1> QED BY <1>2, <1>3, <1>4

\* A new generation starts with the latest transition at most; the others lose their
\* queue or keep it.
LEMMA ConfigureOrder ==
  ASSUME TypeInv, OrderInv, NEW u \in URLs, NEW ev \in Selections, Configure(u, ev)
  PROVE  OrderInv'
<1> DEFINE n      == nGen + 1
           replay == Replay(n, ev, NewlySelected(u))
           room   == MinOf(QueueCap, Len(replay))
           kept   == IF gen = NoGen THEN queue ELSE [queue EXCEPT ![gen] = <<>>]
<1>0. /\ nGen < MaxGen /\ queue' = [kept EXCEPT ![n] = SubSeq(replay, 1, room)]
      /\ UNCHANGED <<pc, item, seenConn, lastConn>>
  BY Zenon DEF Configure, sourceVars, runVars, histVars
<1>1. nGen \in 0..MaxGen /\ gen \in 0..nGen BY Zenon DEF TypeInv, TypeOK, GenTypeOK
<1>2. n \in Gens /\ nGen < n BY <1>0, <1>1, Bounds
<1> SUFFICES ASSUME NEW g \in Gens PROVE Ordered(g)' BY DEF OrderInv
<1>3. Ordered(g) BY DEF OrderInv
<1>4. CASE g = n
  <2>1. replay \in Seq(Delivery) BY Zenon, ReplayType DEF NewlySelected
  <2>2. room \in 0..Len(replay) BY <2>1, Bounds DEF MinOf
  <2>3. queue'[g] = SubSeq(replay, 1, room) BY Zenon, <1>4, <1>0, <1>2 DEF TypeInv, TypeOK, GenTypeOK
  <2>4. \A i \in 1..Len(replay) : Transition(replay[i]) => replay[i].body = lastConn
    BY SMTT(30) DEF Replay, Transition
  <2>5. \A i \in 1..Len(queue'[g]) : Transition(queue'[g][i]) => queue'[g][i].body = lastConn
    <3> HIDE DEF replay, room
    <3>1. \A i \in 1..Len(queue'[g]) : i \in 1..Len(replay) /\ queue'[g][i] = replay[i] BY <2>1, <2>2, <2>3
    <3> QED BY <2>4, <3>1, Zenon
  <2>6. pc'[g] = "idle" BY <1>0, <1>1, <1>2, <1>4 DEF TypeInv, LoopInv
  <2>7. seenConn[g] <= lastConn /\ lastConn <= lastConn BY <1>3, OrderTypes DEF Ordered
  <2> QED BY <1>0, <2>5, <2>6, <2>7, Zenon DEF Ordered, Transition, Busy
<1>5. CASE g # n
  <2>1. queue'[g] = queue[g] \/ queue'[g] = <<>>
    BY <1>0, <1>1, <1>2, <1>5, Zenon DEF TypeInv, TypeOK, GenTypeOK
  <2> QED BY <1>0, <1>3, <2>1, OrderFrame, Zenon
<1> QED BY <1>4, <1>5, Zenon

\* The worker takes the first event of its queue.
LEMMA DequeueOrder ==
  ASSUME TypeInv, OrderInv, NEW g \in Gens, Dequeue(g)
  PROVE  OrderInv'
<1>1. /\ UNCHANGED <<seenConn, lastConn>> /\ pc' = [pc EXCEPT ![g] = "loop"] /\ queue[g] # <<>>
      /\ item' = [item EXCEPT ![g] = Head(queue[g])] /\ queue' = [queue EXCEPT ![g] = Tail(queue[g])]
  BY Zenon DEF Dequeue, sourceVars, histVars
<1>2. ASSUME NEW h \in Gens, h # g PROVE Ordered(h)'
  <2>1. UNCHANGED <<queue[h], pc[h], item[h]>>
    BY <1>1, <1>2, RunnerSplit, Zenon DEF TypeInv, TypeOK, GenTypeOK, RunTypeOK
  <2> QED BY <1>1, <2>1, OrderFrame, Zenon DEF OrderInv
<1>3. Ordered(g)'
  <2> DEFINE q == queue[g]
             n == Len(queue[g])
  <2>1. Ordered(g) BY Zenon DEF OrderInv
  <2>2. q \in Seq(Delivery) /\ q # <<>> /\ n \in Nat \ {0} BY <1>1, OrderTypes
  <2>3. queue'[g] = Tail(q) /\ item'[g] = q[1]
    BY <1>1, <2>2 DEF TypeInv, TypeOK, GenTypeOK, RunTypeOK
  <2>4. /\ Len(queue'[g]) = n - 1 /\ 1 \in 1..n
        /\ \A i \in 1..(n - 1) : i + 1 \in 1..n /\ queue'[g][i] = q[i + 1] /\ 1 < i + 1
        /\ \A i, j \in 1..(n - 1) : i < j => i + 1 < j + 1
    BY <2>2, <2>3
  <2>5. \A i \in 1..(n - 1) : Transition(queue'[g][i]) =>
           seenConn[g] <= queue'[g][i].body /\ queue'[g][i].body <= lastConn
    BY <2>1, <2>4, Zenon DEF Ordered
  <2>6. \A i, j \in 1..(n - 1) : i < j /\ Transition(queue'[g][i]) /\ Transition(queue'[g][j])
           => queue'[g][i].body <= queue'[g][j].body
    BY <2>1, <2>4, Zenon DEF Ordered
  <2>7. Transition(q[1]) => seenConn[g] <= q[1].body /\ q[1].body <= lastConn
    BY <2>1, <2>4, Zenon DEF Ordered
  <2>8. Transition(q[1]) => \A i \in 1..(n - 1) : Transition(queue'[g][i]) => q[1].body <= queue'[g][i].body
    BY <2>1, <2>4, Zenon DEF Ordered
  <2>9. seenConn[g] <= lastConn BY <2>1, Zenon DEF Ordered
  <2> HIDE DEF q, n
  <2> QED BY <1>1, <2>3, <2>4, <2>5, <2>6, <2>7, <2>8, <2>9, Zenon DEF Ordered, Transition
<1> QED BY <1>2, <1>3, Zenon DEF OrderInv

\* A POST shows the event in hand, which is not older than what was seen.
LEMMA PostOrder ==
  ASSUME TypeInv, OrderInv, NEW r \in Runners, NEW o \in Outcomes, Post(r, o)
  PROVE  OrderInv' /\ \A g \in Gens : seenConn'[g] >= seenConn[g]
<1> SUFFICES ASSUME NEW g \in Gens PROVE Ordered(g)' /\ seenConn'[g] >= seenConn[g] BY DEF OrderInv
<1>1. /\ UNCHANGED <<queue, item, lastConn>> /\ pc[r] = "post" /\ pc' = [pc EXCEPT ![r] = "finish"]
  BY Zenon DEF Post, sourceVars
<1>2. pc'[g] \in Busy => pc[g] \in Busy
  BY <1>1, RunnerSplit, Zenon DEF TypeInv, TypeOK, RunTypeOK, Busy
<1>3. Ordered(g) /\ seenConn[g] \in Nat BY OrderTypes, Zenon DEF OrderInv
<1>4. CASE seenConn'[g] = seenConn[g] BY <1>1, <1>2, <1>3, <1>4, OrderFrame
<1>5. CASE seenConn'[g] # seenConn[g]
  <2>1. r \notin Tests /\ seenConn' = [seenConn EXCEPT ![r] = item[r].body] /\ Transition(item[r])
    BY <1>5, Zenon DEF Post, histVars, Transition
  <2>2. r = g /\ seenConn'[g] = item[g].body
    BY <1>5, <2>1 DEF TypeInv, TypeOK, CountTypeOK
  <2>3. /\ seenConn[g] <= item[g].body /\ item[g].body <= lastConn
        /\ \A i \in 1..Len(queue[g]) : Transition(queue[g][i]) => item[g].body <= queue[g][i].body
    BY <1>1, <1>3, <2>1, <2>2, Zenon DEF Ordered, Busy
  <2>4. item[g].body \in Nat /\ item[g].body <= item[g].body BY OrderTypes
  <2>5. /\ \A i \in 1..Len(queue[g]) : Transition(queue[g][i]) => queue[g][i].body <= lastConn
        /\ \A i, j \in 1..Len(queue[g]) :
             i < j /\ Transition(queue[g][i]) /\ Transition(queue[g][j]) => queue[g][i].body <= queue[g][j].body
    BY <1>3, Zenon DEF Ordered
  <2>6. Ordered(g)' BY <1>1, <2>2, <2>3, <2>4, <2>5, Zenon DEF Ordered, Transition
  <2> QED BY <1>3, <2>2, <2>3, <2>4, <2>6
<1> QED BY <1>3, <1>4, <1>5, Zenon

\* Every step keeps the order and shows no receiver an older transition.
LEMMA OrderNext ==
  ASSUME TypeInv, OrderInv, [Next]_vars
  PROVE  OrderInv' /\ \A g \in Gens : seenConn'[g] >= seenConn[g]
<1> USE DEF genVars, stateVars, warnVars, msgVars, sourceVars, runVars, histVars
<1> DEFINE Goal == OrderInv' /\ \A g \in Gens : seenConn'[g] >= seenConn[g]
<1> SUFFICES Goal BY Zenon
<1>0. ASSUME UNCHANGED seenConn PROVE \A g \in Gens : seenConn'[g] >= seenConn[g]
  BY <1>0, OrderTypes
<1>a. ASSUME UNCHANGED <<seenConn, lastConn>>,
             \A g \in Gens : /\ queue'[g] = queue[g] \/ queue'[g] = <<>>
                             /\ pc'[g] \in Busy => pc[g] \in Busy /\ item'[g] = item[g]
      PROVE  Goal
  <2>1. ASSUME NEW g \in Gens PROVE Ordered(g)' BY <1>a, OrderFrame DEF OrderInv
  <2> QED BY <1>0, <1>a, <2>1, Zenon DEF OrderInv
<1>1. ASSUME NEW u \in URLs, NEW ev \in Selections, Configure(u, ev) PROVE Goal
  BY <1>0, <1>1, ConfigureOrder, Zenon DEF Configure
<1>2. CASE Remove
  <2>1. \A g \in Gens : queue'[g] = queue[g] \/ queue'[g] = <<>>
    BY <1>2, Zenon DEF Remove, TypeInv, TypeOK, GenTypeOK
  <2>2. UNCHANGED <<seenConn, lastConn, pc, item>> BY <1>2, Zenon DEF Remove
  <2> QED BY <1>a, <2>1, <2>2, Zenon
<1>3. CASE ShutdownCancel
  <2>1. UNCHANGED <<seenConn, lastConn, pc, item, queue>> BY <1>3, Zenon DEF ShutdownCancel
  <2> QED BY <1>a, <2>1, Zenon
<1>4. CASE QueueRuntimeConnection
  <2>1. /\ lastConn' = lastConn + 1 /\ UNCHANGED <<seenConn, pc, item>>
        /\ EnqueueLocked(gen, "connection.changed", lastConn + 1, TRUE)
    BY <1>4, Zenon DEF QueueRuntimeConnection
  <2>2. gen \in 0..nGen /\ lastConn \in Nat BY Bounds DEF TypeInv, TypeOK, GenTypeOK, SourceTypeOK
  <2>3. "connection.changed" \in Kinds BY DEF Kinds
  <2>4. lastConn' \in Nat /\ lastConn <= lastConn' /\ lastConn + 1 \in Nat BY <2>1, <2>2
  <2>5. OrderInv' BY <2>1, <2>2, <2>3, <2>4, EnqueueOrder, Zenon
  <2> QED BY <1>0, <2>1, <2>5, Zenon
<1>5. ASSUME NEW w \in Warnings, QueueRuntimeStorageWarning(w) PROVE Goal
  <2>1. /\ UNCHANGED <<seenConn, pc, item, lastConn>>
        /\ EnqueueLocked(gen, "storage.warning", nWarn + 1, TRUE)
    BY <1>5, Zenon DEF QueueRuntimeStorageWarning
  <2>2. gen \in 0..nGen /\ lastConn \in Nat /\ nWarn \in Nat
    BY Bounds DEF TypeInv, TypeOK, GenTypeOK, SourceTypeOK
  <2>3. "storage.warning" \in Kinds /\ nWarn + 1 \in Nat /\ lastConn <= lastConn BY <2>2 DEF Kinds
  <2>4. OrderInv' BY <2>1, <2>2, <2>3, EnqueueOrder, Zenon
  <2> QED BY <1>0, <2>1, <2>4
<1>6. ASSUME NEW w \in Warnings, ClearStorageWarning(w) PROVE Goal
  <2>1. UNCHANGED <<seenConn, lastConn, pc, item, queue>> BY <1>6, Zenon DEF ClearStorageWarning
  <2> QED BY <1>a, <2>1, Zenon
<1>7. ASSUME NEW m \in Messages, Subscriber(m) PROVE Goal
  <2>1. UNCHANGED <<seenConn, lastConn, pc, item, queue>> BY <1>7, Zenon DEF Subscriber
  <2> QED BY <1>a, <2>1, Zenon
<1>8. ASSUME NEW m \in Messages, NEW fits \in BOOLEAN, QueueRuntimeMessage(m, fits) PROVE Goal
  <2>1. /\ UNCHANGED <<seenConn, pc, item, lastConn>> /\ mgen[m] >= 0
        /\ EnqueueLocked(mgen[m], "message.received", m, fits)
    BY <1>8 DEF QueueRuntimeMessage
  <2>2. mgen[m] \in (-1)..MaxGen /\ mgen[m] <= nGen /\ nGen \in Nat /\ lastConn \in Nat
    BY Bounds DEF TypeInv, TypeOK, GenTypeOK, SourceTypeOK, LoopInv
  <2>3. mgen[m] \in 0..nGen /\ m \in Nat /\ lastConn <= lastConn BY <2>1, <2>2, Bounds
  <2>4. "message.received" \in Kinds BY Zenon DEF Kinds
  <2>5. OrderInv' BY <2>1, <2>2, <2>3, <2>4, EnqueueOrder
  <2> QED BY <1>0, <2>1, <2>5, Zenon
<1>9. ASSUME NEW g \in Gens, WorkerStep(g) PROVE Goal
  <2>1. CASE Dequeue(g) BY <1>0, <2>1, DequeueOrder, Zenon DEF Dequeue
  <2>2. CASE WorkerExit(g) \/ LoopHead(g)
    <3>1. UNCHANGED <<seenConn, lastConn, item, queue>> BY <2>2, Zenon DEF WorkerExit, LoopHead
    <3>2. \A h \in Gens : pc'[h] \in Busy => pc[h] \in Busy
      BY <2>2, RunnerSplit, Zenon DEF WorkerExit, LoopHead, TypeInv, TypeOK, RunTypeOK, Busy
    <3> QED BY <1>a, <3>1, <3>2, Zenon
  <2>3. CASE Settle(g)
    <3>1. UNCHANGED <<seenConn, lastConn>> /\ Forget(g) BY <2>3 DEF Settle
    <3>2. \A h \in Gens : queue'[h] = queue[h] \/ queue'[h] = <<>>
      BY <2>3, Zenon DEF Settle, TypeInv, TypeOK, GenTypeOK
    <3>3. pc'[g] = "idle" /\ \A h \in Gens \ {g} : item'[h] = item[h] /\ pc'[h] = pc[h]
      BY <3>1, RunnerSplit, Zenon DEF Forget, TypeInv, TypeOK, RunTypeOK
    <3> QED BY <1>a, <3>1, <3>2, <3>3, Zenon DEF Busy
  <2> QED BY <1>9, <2>1, <2>2, <2>3 DEF WorkerStep
<1>10. ASSUME NEW t \in Tests, StartTest(t) PROVE Goal
  <2>1. \A h \in Gens : pc'[h] = pc[h]
    BY Zenon, <1>10, RunnerSplit DEF StartTest, TypeInv, TypeOK, RunTypeOK
  <2>2. UNCHANGED <<seenConn, lastConn, item, queue>> BY <1>10 DEF StartTest
  <2> QED BY <1>a, <2>1, <2>2, Zenon
<1>11. ASSUME NEW r \in Runners, Expire(r) PROVE Goal
  <2>1. UNCHANGED <<seenConn, lastConn, pc, item, queue>> BY <1>11, Zenon DEF Expire
  <2> QED BY <1>a, <2>1, Zenon
<1>12. ASSUME NEW r \in Runners, AttemptStep(r) PROVE Goal
  <2>1. CASE Acquire(r) \/ AcquireCancelled(r) \/ FinishFail(r)
    <3>1. pc[r] \in Busy /\ \A q \in Runners \ {r} : pc'[q] = pc[q]
      BY <2>1, Zenon DEF Acquire, AcquireCancelled, FinishFail, AfterFailure, TypeInv, TypeOK, RunTypeOK, Busy
    <3>2. UNCHANGED <<seenConn, lastConn, item, queue>>
      BY <2>1, Zenon DEF Acquire, AcquireCancelled, FinishFail
    <3> QED BY <1>a, <3>1, <3>2, RunnerSplit, Zenon
  <2>2. CASE \E o \in Outcomes : Post(r, o) BY <2>2, PostOrder, Zenon
  <2>3. CASE FinishOk(r)
    <3>1. UNCHANGED <<seenConn, lastConn, queue>> BY <2>3 DEF FinishOk
    <3>2. \A h \in Gens : pc'[h] \in Busy => pc[h] \in Busy /\ item'[h] = item[h]
      <4>1. CASE r \in Tests
        <5>1. UNCHANGED item /\ pc' = [pc EXCEPT ![r] = "exited"] BY <2>3, <4>1 DEF FinishOk
        <5>2. \A h \in Gens : h \in Runners /\ h # r BY <4>1, RunnerSplit, Zenon
        <5>3. \A h \in Gens : pc'[h] = pc[h] BY <5>1, <5>2, Zenon DEF TypeInv, TypeOK, RunTypeOK
        <5> QED BY <5>1, <5>3, Zenon
      <4>2. CASE r \notin Tests
        <5>1. Forget(r) BY <2>3, <4>2, Zenon DEF FinishOk
        <5>2. r \in Gens BY <4>2, RunnerSplit, Zenon
        <5>3. pc'[r] = "idle" /\ \A h \in Gens \ {r} : item'[h] = item[h] /\ pc'[h] = pc[h]
          BY <5>1, <5>2, RunnerSplit DEF Forget, TypeInv, TypeOK, RunTypeOK
        <5> QED BY <5>3, Zenon DEF Busy
      <4> QED BY <4>1, <4>2, Zenon
    <3> QED BY <1>a, <3>1, <3>2, Zenon
  <2> QED BY <1>12, <2>1, <2>2, <2>3 DEF AttemptStep
<1>13. CASE UNCHANGED vars
  <2>1. UNCHANGED <<seenConn, lastConn, pc, item, queue>> BY <1>13, Zenon DEF vars
  <2> QED BY <1>a, <2>1
<1> HIDE DEF Goal
<1> QED BY <1>1, <1>2, <1>3, <1>4, <1>5, <1>6, <1>7, <1>8, <1>9, <1>10, <1>11, <1>12, <1>13 DEF Next

\* One generation's receiver sees transitions in the order they were recorded; a retry
\* may repeat one and never goes back (queueRuntimeConnection, configure, run).
THEOREM TransitionsOrdered == Spec => TransitionsInOrder
<1>1. Init => OrderInv
  <2> SUFFICES ASSUME Init, NEW g \in Gens PROVE Ordered(g) BY DEF OrderInv
  <2>1. seenConn[g] = 0 /\ lastConn = 0 /\ queue[g] = <<>> /\ pc[g] = "idle"
    BY RunnerSplit, Zenon DEF Init
  <2> QED BY <2>1 DEF Ordered, Busy
<1>2. TypeInv /\ OrderInv /\ [Next]_vars => (TypeInv /\ OrderInv)' BY TypeNext, OrderNext, Zenon
<1>3. TypeInv /\ OrderInv /\ [Next]_vars => [\A g \in Gens : seenConn'[g] >= seenConn[g]]_seenConn
  BY OrderNext, Zenon
<1> QED BY <1>1, <1>2, <1>3, TypeInit, PTL DEF Spec, TransitionsInOrder
-----------------------------------------------------------------------------
(* Every admitted event is accounted for *)

\* The counts, and what the sum of Conservation is made of.
LEMMA CountTypes ==
  ASSUME TypeInv
  PROVE  /\ accepted \in Nat /\ delivered \in Nat /\ dropped \in Nat
         /\ \A g \in Gens : queue[g] \in Seq(Delivery) /\ Len(queue[g]) \in Nat
         /\ gen # NoGen => gen \in Gens
         /\ Queued \in Nat /\ IsFiniteSet(InFlight) /\ Cardinality(InFlight) \in Nat
<1>1. /\ accepted \in Nat /\ delivered \in Nat /\ dropped \in Nat
      /\ \A g \in Gens : queue[g] \in Seq(Delivery) /\ Len(queue[g]) \in Nat
  BY DEF TypeInv, TypeOK, GenTypeOK, CountTypeOK
<1>2. gen # NoGen => gen \in Gens BY Bounds DEF TypeInv, TypeOK, GenTypeOK
<1>3. Queued \in Nat BY <1>1, <1>2, Zenon DEF Queued
<1>4. IsFiniteSet(Gens) BY FS_Interval, Bounds
<1>5. InFlight \in SUBSET Gens BY Zenon DEF InFlight
<1>6. IsFiniteSet(InFlight) BY <1>4, <1>5, FS_Subset, Zenon
<1> QED BY <1>1, <1>2, <1>3, <1>6, FS_CardinalityType

\* A worker takes an event in hand, or has done with it.
LEMMA FlightFacts ==
  ASSUME TypeInv, NEW g \in Gens, NEW v, pc' = [pc EXCEPT ![g] = v]
  PROVE  /\ (v \notin {"idle", "exited"} <=> pc[g] \notin {"idle", "exited"}) =>
              Cardinality(InFlight') = Cardinality(InFlight)
         /\ v \notin {"idle", "exited"} /\ pc[g] \in {"idle", "exited"} =>
              Cardinality(InFlight') = Cardinality(InFlight) + 1
         /\ v \in {"idle", "exited"} /\ pc[g] \notin {"idle", "exited"} =>
              Cardinality(InFlight') = Cardinality(InFlight) - 1
<1>1. pc'[g] = v /\ \A h \in Gens \ {g} : pc'[h] = pc[h]
  BY RunnerSplit, Zenon DEF TypeInv, TypeOK, RunTypeOK
<1>2. IsFiniteSet(InFlight) BY CountTypes
<1>3. (v \notin {"idle", "exited"} <=> pc[g] \notin {"idle", "exited"}) => InFlight' = InFlight
  BY <1>1, Zenon DEF InFlight
<1>4. ASSUME v \notin {"idle", "exited"}, pc[g] \in {"idle", "exited"}
      PROVE  InFlight' = InFlight \cup {g} /\ g \notin InFlight
  BY <1>1, <1>4, Zenon DEF InFlight
<1>5. ASSUME v \in {"idle", "exited"}, pc[g] \notin {"idle", "exited"}
      PROVE  InFlight' = InFlight \ {g} /\ g \in InFlight
  BY <1>1, <1>5, Zenon DEF InFlight
<1>6. v \notin {"idle", "exited"} /\ pc[g] \in {"idle", "exited"} =>
              Cardinality(InFlight') = Cardinality(InFlight) + 1
  BY <1>2, <1>4, FS_AddElement, Zenon
<1>7. v \in {"idle", "exited"} /\ pc[g] \notin {"idle", "exited"} =>
              Cardinality(InFlight') = Cardinality(InFlight) - 1
  BY <1>2, <1>5, FS_RemoveElement, Zenon
<1> QED BY <1>3, <1>6, <1>7

\* Neither the queues nor what is in hand change.
LEMMA FlightFrame ==
  ASSUME Conservation, \A g \in Gens : pc'[g] \in {"idle", "exited"} <=> pc[g] \in {"idle", "exited"},
         UNCHANGED <<gen, queue, accepted, delivered, dropped>>
  PROVE  Conservation'
<1>1. InFlight' = InFlight BY Zenon DEF InFlight
<1>2. Queued' = Queued BY DEF Queued
<1> QED BY <1>1, <1>2 DEF Conservation

\* One event more is waiting.
LEMMA AppendLength ==
  ASSUME NEW S, NEW s \in Seq(S), NEW e
  PROVE  Len(Append(s, e)) = Len(s) + 1
OBVIOUS

\* An event that is offered is queued or dropped.
LEMMA EnqueueCounts ==
  ASSUME TypeInv, Conservation, NEW g \in 0..MaxGen, NEW event \in Kinds, NEW body \in Nat,
         NEW fits \in BOOLEAN, EnqueueLocked(g, event, body, fits), UNCHANGED <<gen, pc, delivered>>
  PROVE  Conservation'
<1>1. InFlight' = InFlight BY Zenon DEF InFlight
<1>2. CASE UNCHANGED <<queue, dropped, accepted>> BY <1>2, FlightFrame, Zenon
<1>3. CASE UNCHANGED queue /\ accepted' = accepted + 1 /\ dropped' = dropped + 1
  <2>1. Queued' = Queued BY <1>3 DEF Queued
  <2> QED BY <1>1, <1>3, <2>1, CountTypes DEF Conservation
<1>4. CASE /\ UNCHANGED dropped /\ accepted' = accepted + 1 /\ g = gen /\ g # NoGen
           /\ queue' = [queue EXCEPT ![g] = Append(queue[g], [event |-> event, body |-> body])]
  <2>1. g \in Gens BY <1>4, CountTypes, Zenon
  <2>2. /\ queue'[g] = Append(queue[g], [event |-> event, body |-> body])
        /\ \A h \in Gens \ {g} : queue'[h] = queue[h]
    BY <1>4, <2>1, Zenon DEF TypeInv, TypeOK, GenTypeOK
  <2>3. Len(queue'[g]) = Len(queue[g]) + 1
    <3>1. queue[g] \in Seq(Delivery) BY <2>1, CountTypes, Zenon
    <3> QED BY <2>2, <3>1, AppendLength, Zenon
  <2>4. Queued' = Queued + 1 BY <1>4, <2>3 DEF Queued
  <2>5. \A h \in Gens \ {gen'} : queue'[h] = <<>> BY <1>4, <2>2, Zenon DEF Conservation
  <2>6. accepted' = delivered' + dropped' + Queued' + Cardinality(InFlight')
    BY <1>1, <1>4, <2>4, CountTypes DEF Conservation
  <2> QED BY <2>5, <2>6, Zenon DEF Conservation
<1> QED BY <1>2, <1>3, <1>4, Zenon DEF EnqueueLocked, Selects, Admits

\* A PUT counts what the old queue and the replay lose.
LEMMA ConfigureCounts ==
  ASSUME TypeInv, Conservation, NEW u \in URLs, NEW ev \in Selections, Configure(u, ev)
  PROVE  Conservation'
<1> DEFINE n      == nGen + 1
           replay == Replay(n, ev, NewlySelected(u))
           room   == MinOf(QueueCap, Len(replay))
           kept   == IF gen = NoGen THEN queue ELSE [queue EXCEPT ![gen] = <<>>]
<1>0. /\ nGen < MaxGen /\ queue' = [kept EXCEPT ![n] = SubSeq(replay, 1, room)] /\ gen' = n
      /\ dropped' = dropped + Abandoned + (Len(replay) - room) /\ accepted' = accepted + Len(replay)
      /\ UNCHANGED <<pc, delivered>>
  BY Zenon DEF Configure, runVars
<1>1. nGen \in 0..MaxGen /\ gen \in 0..nGen BY Zenon DEF TypeInv, TypeOK, GenTypeOK
<1>2. n \in Gens /\ gen # n /\ n # NoGen BY <1>0, <1>1, Bounds
<1>3. replay \in Seq(Delivery) BY Zenon, ReplayType DEF NewlySelected
<1>4. Len(replay) \in Nat /\ room \in 0..Len(replay) BY <1>3, Bounds DEF MinOf
<1>5. Len(SubSeq(replay, 1, room)) = room
  <2> HIDE DEF replay, room
  <2> QED BY <1>3, <1>4
<1>6. /\ queue'[n] = SubSeq(replay, 1, room)
      /\ \A h \in Gens \ {n} : queue'[h] = IF h = gen THEN <<>> ELSE queue[h]
  <2>1. DOMAIN queue = Gens BY Zenon DEF TypeInv, TypeOK, GenTypeOK
  <2>2. DOMAIN kept = Gens /\ \A h \in Gens : kept[h] = IF h = gen THEN <<>> ELSE queue[h] BY <2>1
  <2> HIDE DEF replay, room, kept
  <2> QED BY <1>0, <1>2, <2>2, Zenon
<1> HIDE DEF n, replay, room, kept
<1>7. Queued' = room BY <1>0, <1>2, <1>5, <1>6, Zenon DEF Queued
<1>8. Abandoned = Queued BY DEF Abandoned, Queued
<1>9. InFlight' = InFlight BY <1>0 DEF InFlight
<1>10. \A h \in Gens \ {gen'} : queue'[h] = <<>> BY <1>0, <1>6, Zenon DEF Conservation
<1>11. accepted' = delivered' + dropped' + Queued' + Cardinality(InFlight')
  <2>1. accepted = delivered + dropped + Queued + Cardinality(InFlight) BY Zenon DEF Conservation
  <2>2. /\ accepted \in Nat /\ delivered \in Nat /\ dropped \in Nat /\ Queued \in Nat
        /\ Cardinality(InFlight) \in Nat
    BY CountTypes
  <2>3. Cardinality(InFlight') = Cardinality(InFlight) BY <1>9, Zenon
  <2>4. dropped' = dropped + Queued + (Len(replay) - room) BY <1>0, <1>8, Zenon
  <2> QED BY <1>0, <1>4, <1>7, <2>1, <2>2, <2>3, <2>4
<1> QED BY <1>10, <1>11, Zenon DEF Conservation

\* The worker moves the head of the one queue that is not empty into its hands.
LEMMA DequeueCounts ==
  ASSUME TypeInv, Conservation, NEW g \in Gens, Dequeue(g)
  PROVE  Conservation'
<1>1. /\ pc[g] = "idle" /\ queue[g] # <<>> /\ pc' = [pc EXCEPT ![g] = "loop"]
      /\ queue' = [queue EXCEPT ![g] = Tail(queue[g])] /\ UNCHANGED <<gen, accepted, delivered, dropped>>
  BY Zenon DEF Dequeue, genVars
<1>2. g = gen /\ gen # NoGen BY <1>1 DEF Conservation
<1>3. Cardinality(InFlight') = Cardinality(InFlight) + 1
  <2>1. "loop" \notin {"idle", "exited"} /\ pc[g] \in {"idle", "exited"} BY <1>1, Zenon
  <2>2. pc' = [pc EXCEPT ![g] = "loop"] BY <1>1, Zenon
  <2> QED BY <2>1, <2>2, FlightFacts, Zenon
<1>4. queue'[g] = Tail(queue[g]) /\ \A h \in Gens \ {g} : queue'[h] = queue[h]
  BY <1>1 DEF TypeInv, TypeOK, GenTypeOK
<1>5. Len(queue'[g]) = Len(queue[g]) - 1
  <2>1. queue[g] \in Seq(Delivery) BY CountTypes
  <2>2. \A s \in Seq(Delivery) : s # <<>> => Len(Tail(s)) = Len(s) - 1 OBVIOUS
  <2>3. queue[g] # <<>> BY <1>1, Zenon
  <2> QED BY <1>4, <2>1, <2>2, <2>3, Zenon
<1>6. Queued' = Queued - 1 BY <1>1, <1>2, <1>5, Zenon DEF Queued
<1>7. \A h \in Gens \ {gen'} : queue'[h] = <<>> BY <1>1, <1>2, <1>4, Zenon DEF Conservation
<1>8. accepted' = delivered' + dropped' + Queued' + Cardinality(InFlight')
  BY <1>1, <1>3, <1>6, CountTypes DEF Conservation
<1> QED BY <1>7, <1>8, Zenon DEF Conservation

\* An undelivered event is dropped, and a disablement drops the queue behind it.
LEMMA SettleCounts ==
  ASSUME TypeInv, Conservation, NEW g \in Gens, Settle(g)
  PROVE  Conservation'
<1>1. /\ pc[g] = "settle" /\ pc' = [pc EXCEPT ![g] = "idle"] /\ dropped' = dropped + 1 + Discarded(g)
      /\ UNCHANGED <<gen, accepted, delivered>>
  BY Zenon DEF Settle, Forget
<1>2. Cardinality(InFlight') = Cardinality(InFlight) - 1 BY <1>1, FlightFacts, Zenon
<1>3. CASE Disables(g)
  <2>1. g = gen /\ gen # NoGen BY <1>3 DEF Disables, Counts
  <2>2. queue' = [queue EXCEPT ![g] = <<>>] BY <1>3 DEF Settle
  <2>3. queue'[g] = <<>> /\ \A h \in Gens \ {g} : queue'[h] = queue[h]
    BY <2>2, Zenon DEF TypeInv, TypeOK, GenTypeOK
  <2>4. Discarded(g) = Queued /\ Queued' = 0 BY <1>1, <1>3, <2>1, <2>3, Zenon DEF Discarded, Queued
  <2>5. \A h \in Gens \ {gen'} : queue'[h] = <<>> BY <1>1, <2>1, <2>3, Zenon DEF Conservation
  <2>6. accepted' = delivered' + dropped' + Queued' + Cardinality(InFlight')
    <3>1. accepted = delivered + dropped + Queued + Cardinality(InFlight) BY Zenon DEF Conservation
    <3>2. /\ accepted \in Nat /\ delivered \in Nat /\ dropped \in Nat /\ Queued \in Nat
          /\ Cardinality(InFlight) \in Nat
      BY CountTypes, Zenon
    <3> QED BY <1>1, <1>2, <2>4, <3>1, <3>2
  <2> QED BY <2>5, <2>6 DEF Conservation
<1>4. CASE ~Disables(g)
  <2>1. \A h \in Gens : queue'[h] = queue[h] BY <1>4 DEF Settle, TypeInv, TypeOK, GenTypeOK
  <2>2. Discarded(g) = 0 BY <1>4, Zenon DEF Discarded
  <2>3. Queued' = Queued BY <1>1, <2>1, CountTypes, Zenon DEF Queued
  <2>4. \A h \in Gens \ {gen'} : queue'[h] = <<>> BY <1>1, <2>1, Zenon DEF Conservation
  <2>5. accepted' = delivered' + dropped' + Queued' + Cardinality(InFlight')
    <3>1. accepted = delivered + dropped + Queued + Cardinality(InFlight) BY DEF Conservation
    <3>2. /\ accepted \in Nat /\ delivered \in Nat /\ dropped \in Nat /\ Queued \in Nat
          /\ Cardinality(InFlight) \in Nat
      BY CountTypes
    <3> QED BY <1>1, <1>2, <2>2, <2>3, <3>1, <3>2
  <2> QED BY <2>4, <2>5 DEF Conservation
<1> QED BY <1>3, <1>4, Zenon

\* The steps of one attempt: only a 2xx of a worker ends an event.
LEMMA AttemptCounts ==
  ASSUME TypeInv, Conservation, NEW r \in Runners, Expire(r) \/ AttemptStep(r)
  PROVE  Conservation'
<1> USE DEF genVars, stateVars, warnVars, msgVars, sourceVars, runVars, histVars
<1> DEFINE Still == \A g \in Gens : pc'[g] \in {"idle", "exited"} <=> pc[g] \in {"idle", "exited"}
<1>0. pc \in [Runners -> PCs] BY Zenon DEF TypeInv, TypeOK, RunTypeOK
<1>1. CASE r \in Tests
  <2>1. Still
    <3>1. \A g \in Gens : g # r BY <1>1, RunnerSplit
    <3>2. pc' = pc \/ \E v : pc' = [pc EXCEPT ![r] = v]
      BY <1>1, Zenon DEF Expire, AttemptStep, Acquire, AcquireCancelled, AfterFailure, Post, FinishOk, FinishFail
    <3>3. \A g \in Gens : pc'[g] = pc[g] BY <1>0, <3>1, <3>2, RunnerSplit
    <3> QED BY <3>3
  <2>2. UNCHANGED <<gen, queue, accepted, delivered, dropped>>
    BY <1>1, Zenon DEF Expire, AttemptStep, Acquire, AcquireCancelled, Post, FinishOk, FinishFail
  <2> QED BY <2>1, <2>2, FlightFrame
<1>2. CASE r \in Gens /\ FinishOk(r)
  <2>1. r \notin Tests BY <1>2, RunnerSplit, Zenon
  <2>2. /\ pc[r] = "finish" /\ pc' = [pc EXCEPT ![r] = "idle"] /\ delivered' = delivered + 1
        /\ UNCHANGED <<gen, queue, accepted, dropped>>
    BY <1>2, <2>1, Zenon DEF FinishOk, Forget
  <2>3. Cardinality(InFlight') = Cardinality(InFlight) - 1 BY <1>2, <2>2, FlightFacts, Zenon
  <2>4. Queued' = Queued BY <2>2, Zenon DEF Queued
  <2>5. accepted' = delivered' + dropped' + Queued' + Cardinality(InFlight')
    BY <2>2, <2>3, <2>4, CountTypes DEF Conservation
  <2> QED BY <2>2, <2>5, Zenon DEF Conservation
<1>3. CASE r \in Gens /\ ~FinishOk(r)
  <2>1. r \notin Tests BY <1>3, RunnerSplit
  <2>2. UNCHANGED <<gen, queue, accepted, delivered, dropped>>
    BY <1>3, Zenon DEF Expire, AttemptStep, Acquire, AcquireCancelled, Post, FinishFail
  <2>3. pc[r] \in {"loop", "sem", "post", "finish"}
    BY <1>3, Zenon DEF Expire, AttemptStep, Acquire, AcquireCancelled, Post, FinishFail
  <2>4. pc' = pc \/ \E v \in {"post", "finish", "settle", "loop"} : pc' = [pc EXCEPT ![r] = v]
    <3>1. ASSUME NEW d, NEW s, AfterFailure(r, d, s)
          PROVE  \E v \in {"settle", "loop"} : pc' = [pc EXCEPT ![r] = v]
      BY <2>1, <3>1, Zenon DEF AfterFailure
    <3>2. CASE Expire(r) BY <3>2 DEF Expire
    <3>3. CASE Acquire(r) BY <3>1, <3>3, Zenon DEF Acquire
    <3>4. CASE AcquireCancelled(r) BY <3>1, <3>4, Zenon DEF AcquireCancelled
    <3>5. CASE \E o \in Outcomes : Post(r, o) BY <3>5, Zenon DEF Post
    <3>6. CASE FinishFail(r) BY <3>1, <3>6, Zenon DEF FinishFail
    <3> QED BY <1>3, <3>2, <3>3, <3>4, <3>5, <3>6, Zenon DEF AttemptStep
  <2>5. Still BY <1>0, <2>3, <2>4, RunnerSplit
  <2> QED BY <2>2, <2>5, FlightFrame
<1> QED BY <1>1, <1>2, <1>3, RunnerSplit, Zenon

LEMMA CountsNext == TypeInv /\ Conservation /\ [Next]_vars => Conservation'
<1> SUFFICES ASSUME TypeInv, Conservation, [Next]_vars PROVE Conservation'
  OBVIOUS
<1> USE DEF genVars, stateVars, warnVars, msgVars, sourceVars, runVars, histVars
<1>0. /\ gen \in 0..MaxGen /\ lastConn + 1 \in Nat /\ nWarn + 1 \in Nat
      /\ {"message.received", "connection.changed", "storage.warning"} \subseteq Kinds
  BY Bounds DEF TypeInv, TypeOK, GenTypeOK, SourceTypeOK, Kinds
<1>1. ASSUME NEW u \in URLs, NEW ev \in Selections, Configure(u, ev) PROVE Conservation'
  BY <1>1, ConfigureCounts
<1>2. CASE Remove
  <2>1. /\ gen # NoGen /\ gen' = NoGen /\ queue' = [queue EXCEPT ![gen] = <<>>]
        /\ dropped' = dropped + Abandoned /\ UNCHANGED <<pc, accepted, delivered>>
    BY <1>2, Zenon DEF Remove
  <2>2. InFlight' = InFlight /\ Abandoned = Queued /\ Queued' = 0 BY <2>1, Zenon DEF InFlight, Abandoned, Queued
  <2>3. \A h \in Gens \ {gen'} : queue'[h] = <<>>
    BY <2>1, Zenon DEF Conservation, TypeInv, TypeOK, GenTypeOK
  <2>4. accepted' = delivered' + dropped' + Queued' + Cardinality(InFlight')
    BY <2>1, <2>2, CountTypes DEF Conservation
  <2> QED BY <2>3, <2>4, Zenon DEF Conservation
<1>3. CASE QueueRuntimeConnection
  <2>1. EnqueueLocked(gen, "connection.changed", lastConn + 1, TRUE) /\ UNCHANGED <<gen, pc, delivered>>
    BY <1>3, Zenon DEF QueueRuntimeConnection
  <2> QED BY <1>0, <2>1, EnqueueCounts, Zenon
<1>4. ASSUME NEW w \in Warnings, QueueRuntimeStorageWarning(w) PROVE Conservation'
  <2>1. EnqueueLocked(gen, "storage.warning", nWarn + 1, TRUE) /\ UNCHANGED <<gen, pc, delivered>>
    BY <1>4, Zenon DEF QueueRuntimeStorageWarning
  <2> QED BY <1>0, <2>1, EnqueueCounts, Zenon
<1>5. ASSUME NEW m \in Messages, NEW fits \in BOOLEAN, QueueRuntimeMessage(m, fits) PROVE Conservation'
  <2>1. EnqueueLocked(mgen[m], "message.received", m, fits) /\ UNCHANGED <<gen, pc, delivered>>
    BY <1>5, Zenon DEF QueueRuntimeMessage
  <2>2. mgen[m] >= 0 BY <1>5, Zenon DEF QueueRuntimeMessage
  <2>3. mgen[m] \in 0..MaxGen /\ m \in Nat BY <2>2, Bounds DEF TypeInv, TypeOK, SourceTypeOK
  <2> QED BY <1>0, <2>1, <2>3, EnqueueCounts
<1>6. CASE UNCHANGED <<gen, queue, pc, accepted, delivered, dropped>> BY <1>6, FlightFrame, Zenon
<1>7. ASSUME NEW g \in Gens, WorkerExit(g) \/ LoopHead(g) PROVE Conservation'
  <2>1. /\ UNCHANGED <<gen, queue, accepted, delivered, dropped>>
        /\ \E v : /\ pc' = [pc EXCEPT ![g] = v]
                  /\ v \in {"idle", "exited"} <=> pc[g] \in {"idle", "exited"}
    BY <1>7, Zenon DEF WorkerExit, LoopHead
  <2>2. \A h \in Gens : pc'[h] \in {"idle", "exited"} <=> pc[h] \in {"idle", "exited"}
    BY <2>1, RunnerSplit, Zenon DEF TypeInv, TypeOK, RunTypeOK
  <2> QED BY <2>1, <2>2, FlightFrame, Zenon
<1>8. ASSUME NEW t \in Tests, StartTest(t) PROVE Conservation'
  <2>1. UNCHANGED <<gen, queue, accepted, delivered, dropped>> /\ pc' = [pc EXCEPT ![t] = "sem"]
    BY <1>8, Zenon DEF StartTest
  <2>2. \A h \in Gens : pc'[h] = pc[h] BY <2>1, RunnerSplit, Zenon DEF TypeInv, TypeOK, RunTypeOK
  <2> QED BY <2>1, <2>2, FlightFrame, Zenon
<1>9. CASE ShutdownCancel \/ UNCHANGED vars BY <1>6, <1>9, Zenon DEF ShutdownCancel, vars
<1>10. ASSUME NEW w \in Warnings, ClearStorageWarning(w) PROVE Conservation'
  BY <1>6, <1>10, Zenon DEF ClearStorageWarning
<1>11. ASSUME NEW m \in Messages, Subscriber(m) PROVE Conservation' BY <1>6, <1>11, Zenon DEF Subscriber
<1>12. ASSUME NEW g \in Gens, WorkerStep(g) PROVE Conservation'
  BY <1>7, <1>12, DequeueCounts, SettleCounts, Zenon DEF WorkerStep
<1>13. ASSUME NEW r \in Runners, Expire(r) \/ AttemptStep(r) PROVE Conservation'
  BY <1>13, AttemptCounts, Zenon
<1> QED BY <1>1, <1>2, <1>3, <1>4, <1>5, <1>8, <1>9, <1>10, <1>11, <1>12, <1>13, Zenon DEF Next

\* No event that a receiver was admitted for disappears from the operator's counts, however
\* PUTs, DELETEs, failures, disablements and a shutdown fall between its steps
\* (enqueueLocked, drainLocked, attempt, run).
THEOREM EventsConserved == Spec => []Conservation
<1>1. Init => Conservation
  <2> SUFFICES ASSUME Init PROVE Conservation OBVIOUS
  <2>1. \A g \in Gens : pc[g] = "idle" BY RunnerSplit DEF Init
  <2>2. InFlight = {} BY <2>1 DEF InFlight
  <2>3. Cardinality(InFlight) = 0 BY <2>2, FS_EmptySet, Zenon
  <2>4. /\ accepted = 0 /\ delivered = 0 /\ dropped = 0 /\ Queued = 0
        /\ \A g \in Gens : queue[g] = <<>>
    BY DEF Init, Queued
  <2> QED BY <2>3, <2>4 DEF Conservation
<1>2. TypeInv /\ Conservation /\ [Next]_vars => (TypeInv /\ Conservation)' BY TypeNext, CountsNext
<1> QED BY <1>1, <1>2, TypeInit, PTL DEF Spec
=============================================================================
