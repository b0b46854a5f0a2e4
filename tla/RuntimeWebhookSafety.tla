------------------------ MODULE RuntimeWebhookSafety ------------------------
(***************************************************************************)
(* Type correctness and the safety invariants of RuntimeWebhook, for every *)
(* number of generations, messages, transitions and attempts, every queue  *)
(* capacity and failure limit: retired queues stay empty, the failure      *)
(* budget decides the switch, one generation delivers one event at a time. *)
(***************************************************************************)
EXTENDS RuntimeWebhook, TLAPS

Busy == {"loop", "sem", "post", "finish"}

\* The attempt loop leaves with "settle" before it runs out of attempts, a test
\* past its start has captured a generation that exists, and generations not
\* yet created are untouched.
LoopInv ==
  /\ \A g \in Gens : pc[g] # "settle" => tries[g] < Attempts
  /\ \A t \in Tests : pc[t] # "idle" => tgen[t] \in 1..nGen
  /\ \A t \in Tests : pc[t] \notin {"loop", "settle"}
  /\ \A g \in Gens : g > nGen => queue[g] = <<>> /\ pc[g] = "idle"
  /\ \A m \in Messages : mgen[m] <= nGen

TypeInv == TypeOK /\ LoopInv

USE DEF Gens, Messages, NoGen, Free

\* The numeric part of the assumption on the constants.
LEMMA Bounds ==
  /\ MaxGen \in Nat \ {0} /\ MaxMsg \in Nat /\ MaxConn \in Nat /\ MaxWarn \in Nat
  /\ QueueCap \in Nat \ {0} /\ Attempts \in Nat \ {0} /\ FailureLimit \in Nat \ {0}
BY WebhookAssumption

\* Tests are not numbers, so a runner is a worker or a test, never both.
LEMMA RunnerSplit ==
  /\ Gens \subseteq Runners /\ Tests \subseteq Runners
  /\ \A r \in Runners : r \in Tests <=> r \notin Gens
BY WebhookAssumption DEF Runners

\* The initial state satisfies the type and loop invariants.
LEMMA TypeInit == Init => TypeInv
<1> SUFFICES ASSUME Init PROVE TypeInv
  OBVIOUS
<1>0. cfg \in [Gens -> [url : URLs, events : SUBSET Kinds]]
  <2>1. (CHOOSE u \in URLs : TRUE) \in URLs
    BY WebhookAssumption
  <2> QED BY <2>1 DEF Init
<1>1. TypeOK
  <2>1. GenTypeOK
    <3>1. queue \in [Gens -> Seq(Delivery)]
      BY DEF Init
    <3>2. gen \in 0..nGen /\ nGen \in 0..MaxGen
      BY Bounds DEF Init
    <3>3. sem \in [Gens -> Runners \cup {Free}]
      BY DEF Init
    <3>4. /\ cancelled \in [Gens -> BOOLEAN]
          /\ enabled \in BOOLEAN /\ failures \in Nat /\ down \in BOOLEAN
      BY Zenon DEF Init
    <3> QED BY <1>0, <3>1, <3>2, <3>3, <3>4 DEF GenTypeOK
  <2>2. SourceTypeOK
    BY Bounds DEF Init, SourceTypeOK
  <2>3. RunTypeOK
    BY Bounds DEF Init, RunTypeOK, PCs, Outcomes, Delivery, NoDelivery, Kinds
  <2>4. CountTypeOK
    BY Bounds DEF Init, CountTypeOK
  <2> QED BY <2>1, <2>2, <2>3, <2>4 DEF TypeOK
<1>2. LoopInv
  BY Bounds DEF Init, LoopInv, Runners
<1> QED BY <1>1, <1>2 DEF TypeInv

\* The parts of the invariants read only some of the variables.
LEMMA TypeFrame ==
  /\ GenTypeOK /\ UNCHANGED <<gen, nGen, cfg, cancelled, down, queue, sem, enabled, failures>> => GenTypeOK'
  /\ SourceTypeOK /\ UNCHANGED <<lastConn, warning, nWarn, mgen, mdone>> => SourceTypeOK'
  /\ RunTypeOK /\ UNCHANGED <<pc, tgen, item, tries, expired, outcome, destFail>> => RunTypeOK'
  /\ CountTypeOK /\ UNCHANGED <<dropped, delivered, accepted, receipts, seenConn, settled>> => CountTypeOK'
  /\ LoopInv /\ UNCHANGED <<pc, tries, tgen, nGen, queue, mgen>> => LoopInv'
BY DEF GenTypeOK, SourceTypeOK, RunTypeOK, CountTypeOK, LoopInv

\* A runner inside attempt that moves on within it, or leaves it, keeps the loop invariant.
LEMMA AttemptLoop ==
  ASSUME LoopInv, pc \in [Runners -> PCs], NEW r \in Runners, NEW x \in PCs,
         pc[r] \notin {"idle", "settle"}, x \notin {"loop", "settle"},
         pc' = [pc EXCEPT ![r] = x], UNCHANGED <<tries, tgen, nGen, mgen, queue>>
  PROVE  LoopInv'
<1>1. pc'[r] = x /\ \A q \in Runners \ {r} : pc'[q] = pc[q]
  OBVIOUS
<1>2. \A g \in Gens : pc'[g] # "settle" => tries[g] < Attempts
  BY Zenon, <1>1, RunnerSplit DEF LoopInv
<1>3. \A t \in Tests : pc'[t] # "idle" => tgen[t] \in 1..nGen
  BY Zenon, <1>1, RunnerSplit DEF LoopInv
<1>4. \A t \in Tests : pc'[t] \notin {"loop", "settle"}
  BY Zenon, <1>1, RunnerSplit DEF LoopInv
<1>5. \A g \in Gens : g > nGen => queue[g] = <<>> /\ pc'[g] = "idle"
  BY Zenon, <1>1, RunnerSplit DEF LoopInv
<1> HIDE DEF Gens, Messages
<1> QED BY Zenon, <1>2, <1>3, <1>4, <1>5 DEF LoopInv

\* What a drain discards is a number of events.
LEMMA DrainNat ==
  ASSUME GenTypeOK
  PROVE  Abandoned \in Nat /\ \A g \in Gens : Discarded(g) \in Nat
<1>1. \A g \in Gens : Len(queue[g]) \in Nat
  BY DEF GenTypeOK
<1>2. gen # 0 => gen \in Gens
  BY Bounds DEF GenTypeOK
<1> QED BY <1>1, <1>2 DEF Abandoned, Discarded

\* How the event of a worker ends is a well-typed record.
LEMMA EndingType ==
  ASSUME TypeOK, NEW g \in Gens, NEW how \in Endings
  PROVE  Ending(cfg[g].url, item[g].body, how) \in [url : URLs, body : Nat, how : Endings]
<1>1. cfg[g].url \in URLs
  BY DEF TypeOK, GenTypeOK
<1>2. item[g].body \in Nat
  BY DEF TypeOK, RunTypeOK, Delivery
<1> QED BY <1>1, <1>2 DEF Ending

\* A failed attempt keeps the control variables well typed and leaves the
\* attempt loop before the attempts run out.
LEMMA AfterFailureType ==
  ASSUME TypeInv, NEW r \in Runners, NEW d \in BOOLEAN, NEW s \in BOOLEAN,
         pc[r] \in Busy, AfterFailure(r, d, s)
  PROVE  /\ pc' \in [Runners -> PCs]
         /\ tries' \in [Gens -> 0..Attempts]
         /\ destFail' \in [Gens -> BOOLEAN]
         /\ \A q \in Runners \ {r} : pc'[q] = pc[q]
         /\ r \in Tests => pc'[r] = "exited"
         /\ r \in Gens => pc'[r] \in {"settle", "loop"}
         /\ \A g \in Gens : pc'[g] # "settle" => tries'[g] < Attempts
<1> USE RunnerSplit DEF TypeInv, TypeOK, RunTypeOK, LoopInv, AfterFailure, LastAttempt
<1>1. CASE r \in Tests
  BY Zenon, <1>1 DEF PCs
<1>2. CASE r \in Gens
  <2>1. r \notin Tests /\ tries[r] \in 0..Attempts /\ tries[r] < Attempts
    BY <1>2 DEF Busy
  <2>2. tries' = [tries EXCEPT ![r] = tries[r] + 1] /\ tries' \in [Gens -> 0..Attempts]
    <3>1. tries[r] + 1 \in 0..Attempts
      BY <2>1, Bounds
    <3> QED BY <1>2, <2>1, <3>1
  <2>3. destFail' \in [Gens -> BOOLEAN]
    BY <1>2, <2>1
  <2>4. /\ pc' = [pc EXCEPT ![r] = IF s \/ tries[r] + 1 = Attempts THEN "settle" ELSE "loop"]
        /\ pc' \in [Runners -> PCs]
    BY <1>2, <2>1 DEF PCs
  <2>5. ASSUME NEW g \in Gens, pc'[g] # "settle" PROVE tries'[g] < Attempts
    <3>1. CASE g = r
      BY <3>1, <2>1, <2>2, <2>4, <2>5, Bounds
    <3>2. CASE g # r
      BY <3>2, <2>2, <2>4, <2>5
    <3> QED BY <3>1, <3>2
  <2> QED BY <1>2, <2>1, <2>2, <2>3, <2>4, <2>5
<1> QED BY <1>1, <1>2

\* A worker that exists moves, leaves the attempt loop in time and only takes
\* from queues: the loop invariant is kept.
LEMMA WorkerLoop ==
  ASSUME TypeInv, NEW g \in Gens, g <= nGen, NEW v,
         pc' = [pc EXCEPT ![g] = v], v # "settle" => tries'[g] < Attempts,
         \A h \in Gens \ {g} : tries'[h] = tries[h],
         UNCHANGED <<tgen, nGen, mgen>>,
         \A h \in Gens : h > nGen => queue'[h] = queue[h]
  PROVE  LoopInv'
<1> USE RunnerSplit DEF TypeInv, TypeOK, GenTypeOK, RunTypeOK, LoopInv
<1>1. \A r \in Runners \ {g} : pc'[r] = pc[r]
  OBVIOUS
<1>2. pc'[g] = v
  BY Zenon
<1>3. \A h \in Gens : pc'[h] # "settle" => tries'[h] < Attempts
  BY <1>1, <1>2
<1>4. \A t \in Tests : pc'[t] = pc[t]
  BY <1>1
<1>5. \A h \in Gens : h > nGen => h # g
  OBVIOUS
<1> QED BY <1>1, <1>3, <1>4, <1>5

\* An enqueue appends at most one well-typed event, to the queue of g.
LEMMA EnqueueType ==
  ASSUME GenTypeOK, dropped \in Nat, accepted \in Nat,
         NEW g \in 0..nGen, NEW e \in Kinds, NEW b \in Nat, NEW fits,
         EnqueueLocked(g, e, b, fits)
  PROVE  /\ queue' \in [Gens -> Seq(Delivery)]
         /\ dropped' \in Nat /\ accepted' \in Nat
         /\ \A h \in Gens : h > nGen => queue'[h] = queue[h]
<1> USE DEF GenTypeOK, EnqueueLocked, Selects
<1>1. CASE UNCHANGED queue
  BY <1>1
<1>2. CASE queue' # queue
  <2>0. g # 0
    BY <1>2
  <2>1. g \in Gens
    BY <2>0, Bounds
  <2>2. [event |-> e, body |-> b] \in Delivery
    BY DEF Delivery
  <2>3. queue' = [queue EXCEPT ![g] = Append(queue[g], [event |-> e, body |-> b])]
    BY <1>2
  <2>4. Append(queue[g], [event |-> e, body |-> b]) \in Seq(Delivery)
    BY <2>1, <2>2
  <2> QED BY <2>1, <2>3, <2>4
<1> QED BY <1>1, <1>2

\* Remove keeps the type and loop invariants.
LEMMA RemoveType ==
  ASSUME TypeInv, Remove
  PROVE  TypeInv'
<1> USE DEF TypeInv, TypeOK
<1>1. GenTypeOK'
  <2>1. gen \in Gens /\ gen' \in 0..nGen' /\ nGen' \in 0..MaxGen
    BY Bounds DEF GenTypeOK, Remove
  <2>2. queue' \in [Gens -> Seq(Delivery)]
    BY <2>1 DEF GenTypeOK, Remove
  <2>3. cancelled' \in [Gens -> BOOLEAN]
    BY <2>1 DEF GenTypeOK, Remove
  <2>4. UNCHANGED <<cfg, sem, down>> /\ enabled' = FALSE /\ failures' \in Nat
    BY DEF Remove
  <2> QED BY <2>1, <2>2, <2>3, <2>4, Zenon DEF GenTypeOK
<1>2. SourceTypeOK'
  BY TypeFrame DEF Remove, warnVars, msgVars, sourceVars
<1>3. RunTypeOK'
  BY TypeFrame DEF Remove, runVars
<1>4. CountTypeOK'
  <2>1. dropped' \in Nat
    BY DrainNat DEF CountTypeOK, Remove
  <2> QED BY <2>1 DEF CountTypeOK, Remove, histVars
<1>5. LoopInv'
  BY Zenon DEF GenTypeOK, RunTypeOK, LoopInv, Remove, msgVars, sourceVars, runVars
<1> QED BY <1>1, <1>2, <1>3, <1>4, <1>5

\* ShutdownCancel keeps the type and loop invariants.
LEMMA ShutdownCancelType ==
  ASSUME TypeInv, ShutdownCancel
  PROVE  TypeInv'
<1> USE DEF TypeInv, TypeOK
<1>1. GenTypeOK'
  BY DEF GenTypeOK, ShutdownCancel, stateVars
<1>2. SourceTypeOK'
  BY TypeFrame DEF ShutdownCancel, warnVars, msgVars, sourceVars
<1>3. RunTypeOK'
  BY TypeFrame DEF ShutdownCancel, runVars
<1>4. CountTypeOK'
  BY TypeFrame DEF ShutdownCancel, histVars
<1>5. LoopInv'
  BY TypeFrame DEF ShutdownCancel, msgVars, sourceVars, runVars
<1> QED BY <1>1, <1>2, <1>3, <1>4, <1>5

\* ClearStorageWarning keeps the type and loop invariants.
LEMMA ClearStorageWarningType ==
  ASSUME TypeInv, NEW w \in Warnings, ClearStorageWarning(w)
  PROVE  TypeInv'
<1> USE DEF TypeInv, TypeOK
<1>1. GenTypeOK'
  BY TypeFrame DEF ClearStorageWarning, genVars, stateVars
<1>2. SourceTypeOK'
  BY Bounds DEF SourceTypeOK, ClearStorageWarning, msgVars
<1>3. RunTypeOK'
  BY TypeFrame DEF ClearStorageWarning, runVars
<1>4. CountTypeOK'
  BY TypeFrame DEF ClearStorageWarning, histVars
<1>5. LoopInv'
  BY TypeFrame DEF ClearStorageWarning, genVars, msgVars, runVars
<1> QED BY <1>1, <1>2, <1>3, <1>4, <1>5

\* Subscriber keeps the type and loop invariants.
LEMMA SubscriberType ==
  ASSUME TypeInv, NEW m \in Messages, Subscriber(m)
  PROVE  TypeInv'
<1> USE DEF TypeInv, TypeOK
<1>1. GenTypeOK'
  BY TypeFrame DEF Subscriber, genVars, stateVars
<1>2. SourceTypeOK'
  BY Bounds DEF SourceTypeOK, Selects, GenTypeOK, Subscriber, warnVars, sourceVars
<1>3. RunTypeOK'
  BY TypeFrame DEF Subscriber, runVars
<1>4. CountTypeOK'
  BY TypeFrame, Zenon DEF Subscriber, histVars
<1>5. LoopInv'
  <2>1. \A q \in Messages : mgen'[q] <= nGen
    BY DEF GenTypeOK, LoopInv, Subscriber
  <2> QED BY <2>1 DEF LoopInv, Subscriber, genVars, runVars
<1> QED BY <1>1, <1>2, <1>3, <1>4, <1>5

\* Dequeue keeps the type and loop invariants.
LEMMA DequeueType ==
  ASSUME TypeInv, NEW g \in Gens, g <= nGen, Dequeue(g)
  PROVE  TypeInv'
<1> USE DEF TypeInv, TypeOK
<1>1. GenTypeOK'
  BY Bounds, RunnerSplit DEF GenTypeOK, RunTypeOK, Dequeue, genVars, stateVars, warnVars, msgVars
<1>2. SourceTypeOK'
  BY TypeFrame, Zenon DEF Dequeue, warnVars, msgVars, sourceVars
<1>3. RunTypeOK'
  BY Bounds, RunnerSplit DEF RunTypeOK, PCs, GenTypeOK, Dequeue
<1>4. CountTypeOK'
  BY TypeFrame DEF Dequeue, histVars
<1>5. LoopInv'
  <2>1. \A h \in Gens : h > nGen => queue'[h] = queue[h]
    BY DEF GenTypeOK, Dequeue
  <2> QED BY Zenon, <2>1, WorkerLoop, Bounds, RunnerSplit DEF LoopInv, RunTypeOK, Dequeue, genVars, stateVars, warnVars, msgVars, sourceVars, histVars
<1> QED BY <1>1, <1>2, <1>3, <1>4, <1>5, Zenon

\* WorkerExit keeps the type and loop invariants.
LEMMA WorkerExitType ==
  ASSUME TypeInv, NEW g \in Gens, g <= nGen, WorkerExit(g)
  PROVE  TypeInv'
<1> USE DEF TypeInv, TypeOK
<1>1. GenTypeOK'
  BY TypeFrame DEF WorkerExit, genVars, stateVars
<1>2. SourceTypeOK'
  BY TypeFrame DEF WorkerExit, warnVars, msgVars, sourceVars
<1>3. RunTypeOK'
  BY RunnerSplit DEF RunTypeOK, PCs, GenTypeOK, WorkerExit
<1>4. CountTypeOK'
  BY TypeFrame DEF WorkerExit, histVars
<1>5. LoopInv'
  <2>1. \A h \in Gens : h > nGen => queue'[h] = queue[h]
    BY DEF GenTypeOK, WorkerExit
  <2> QED BY Zenon, <2>1, WorkerLoop DEF LoopInv, RunTypeOK, WorkerExit, genVars, msgVars, sourceVars
<1> QED BY <1>1, <1>2, <1>3, <1>4, <1>5

\* LoopHead keeps the type and loop invariants.
LEMMA LoopHeadType ==
  ASSUME TypeInv, NEW g \in Gens, g <= nGen, LoopHead(g)
  PROVE  TypeInv'
<1> USE DEF TypeInv, TypeOK
<1>1. GenTypeOK'
  BY TypeFrame DEF LoopHead, genVars, stateVars
<1>2. SourceTypeOK'
  BY TypeFrame DEF LoopHead, warnVars, msgVars, sourceVars
<1>3. RunTypeOK'
  BY RunnerSplit DEF RunTypeOK, PCs, GenTypeOK, LoopHead
<1>4. CountTypeOK'
  BY TypeFrame, Zenon DEF LoopHead, histVars
<1>5. LoopInv'
  <2>1. \A h \in Gens : h > nGen => queue'[h] = queue[h]
    BY DEF GenTypeOK, LoopHead
  <2> QED BY <2>1, WorkerLoop DEF LoopInv, RunTypeOK, LoopHead, genVars, stateVars, warnVars, msgVars, sourceVars
<1> QED BY <1>1, <1>2, <1>3, <1>4, <1>5

\* Settle keeps the type and loop invariants.
LEMMA SettleType ==
  ASSUME TypeInv, NEW g \in Gens, g <= nGen, Settle(g)
  PROVE  TypeInv'
<1> USE DEF TypeInv, TypeOK
<1>1. GenTypeOK'
  <2>1. queue' \in [Gens -> Seq(Delivery)]
    BY DEF GenTypeOK, Settle
  <2>2. cancelled' \in [Gens -> BOOLEAN]
    BY DEF GenTypeOK, Settle
  <2>3. failures' \in Nat /\ enabled' \in BOOLEAN
    BY DEF GenTypeOK, Settle
  <2> QED BY <2>1, <2>2, <2>3 DEF GenTypeOK, Settle
<1>2. SourceTypeOK'
  BY TypeFrame DEF Settle, warnVars, msgVars, sourceVars
<1>3. RunTypeOK'
  <2>1. NoDelivery \in Delivery
    BY Zenon DEF NoDelivery, Delivery, Kinds
  <2>2. pc' \in [Runners -> PCs] /\ expired' \in [Runners -> BOOLEAN]
    BY Bounds, RunnerSplit, Zenon DEF RunTypeOK, Forget, PCs, Settle
  <2>3. item' \in [Gens -> Delivery] /\ destFail' \in [Gens -> BOOLEAN]
    BY <2>1 DEF RunTypeOK, Forget, Settle, genVars, warnVars, msgVars, sourceVars
  <2>4. tries' \in [Gens -> 0..Attempts]
    BY Bounds DEF RunTypeOK, Forget, Settle
  <2> QED BY Zenon, <2>2, <2>3, <2>4 DEF RunTypeOK, Settle
<1>4. CountTypeOK'
  <2>1. dropped' \in Nat
    BY DrainNat DEF CountTypeOK, Settle, genVars, warnVars, msgVars, runVars
  <2>2. settled' = settled \/ settled' = settled \cup {Ending(cfg[g].url, item[g].body, "spent")}
    BY Zenon DEF Settle
  <2>3. Ending(cfg[g].url, item[g].body, "spent") \in [url : URLs, body : Nat, how : Endings]
    BY EndingType, Zenon DEF Endings
  <2>4. settled' \subseteq [url : URLs, body : Nat, how : Endings]
    BY <2>2, <2>3, Zenon DEF CountTypeOK
  <2>5. UNCHANGED <<delivered, accepted, receipts, seenConn>>
    BY Zenon DEF Settle, histVars
  <2> QED BY <2>1, <2>4, <2>5, Zenon DEF CountTypeOK
<1>5. LoopInv'
  <2>1. /\ pc' = [pc EXCEPT ![g] = "idle"] /\ UNCHANGED <<tgen, nGen, mgen>>
        /\ \A h \in Gens : h > nGen => queue'[h] = queue[h]
    BY DEF Forget, GenTypeOK, Settle, msgVars, sourceVars
  <2>2. tries'[g] < Attempts /\ \A h \in Gens \ {g} : tries'[h] = tries[h]
    <3>1. tries' = [tries EXCEPT ![g] = 0] /\ tries \in [Gens -> 0..Attempts]
      BY Zenon DEF Forget, RunTypeOK, Settle
    <3>2. 0 < Attempts
      BY Bounds
    <3> QED BY Zenon, <3>1, <3>2
  <2>3. TypeInv
    OBVIOUS
  <2> HIDE DEF Settle, TypeInv
  <2> QED BY Zenon, <2>1, <2>2, <2>3, WorkerLoop
<1> QED BY <1>1, <1>2, <1>3, <1>4, <1>5

\* StartTest keeps the type and loop invariants.
LEMMA StartTestType ==
  ASSUME TypeInv, NEW t \in Tests, StartTest(t)
  PROVE  TypeInv'
<1> USE DEF TypeInv, TypeOK
<1>1. GenTypeOK'
  BY TypeFrame, Zenon DEF StartTest, genVars, stateVars
<1>2. SourceTypeOK'
  BY TypeFrame DEF StartTest, warnVars, msgVars, sourceVars
<1>3. RunTypeOK'
  <2>1. tgen' \in [Tests -> 0..MaxGen]
    BY Bounds DEF RunTypeOK, GenTypeOK, StartTest
  <2>2. pc' \in [Runners -> PCs]
    BY RunnerSplit, Zenon DEF RunTypeOK, PCs, StartTest
  <2> QED BY <2>1, <2>2 DEF RunTypeOK, StartTest
<1>4. CountTypeOK'
  BY TypeFrame, Zenon DEF StartTest, histVars
<1>5. LoopInv'
  <2>1. gen \in 1..nGen
    BY DEF GenTypeOK, StartTest
  <2>2. /\ tgen' = [tgen EXCEPT ![t] = gen] /\ pc' = [pc EXCEPT ![t] = "sem"]
        /\ UNCHANGED <<nGen, tries, queue, mgen>>
    BY DEF StartTest, genVars, msgVars, sourceVars
  <2>3. \A h \in Gens : pc'[h] = pc[h]
    BY <2>2, RunnerSplit, Zenon DEF RunTypeOK
  <2>4. pc'[t] = "sem" /\ \A u \in Tests \ {t} : pc'[u] = pc[u]
    BY <2>2, RunnerSplit DEF RunTypeOK
  <2>5. tgen'[t] = gen /\ \A u \in Tests \ {t} : tgen'[u] = tgen[u]
    BY <2>2 DEF RunTypeOK
  <2>6. \A u \in Tests : pc'[u] # "idle" => tgen'[u] \in 1..nGen'
    BY <2>1, <2>2, <2>4, <2>5 DEF LoopInv
  <2>7. \A u \in Tests : pc'[u] \notin {"loop", "settle"}
    BY <2>4, Zenon DEF LoopInv
  <2> QED BY <2>2, <2>3, <2>6, <2>7 DEF LoopInv
<1> QED BY <1>1, <1>2, <1>3, <1>4, <1>5

\* Expire keeps the type and loop invariants.
LEMMA ExpireType ==
  ASSUME TypeInv, NEW r \in Runners, Expire(r)
  PROVE  TypeInv'
<1> USE DEF TypeInv, TypeOK
<1>1. GenTypeOK'
  BY TypeFrame DEF Expire, genVars, stateVars
<1>2. SourceTypeOK'
  BY TypeFrame DEF Expire, warnVars, msgVars, sourceVars
<1>3. RunTypeOK'
  BY Zenon DEF RunTypeOK, GenTypeOK, Expire
<1>4. CountTypeOK'
  BY TypeFrame, Zenon DEF Expire, histVars
<1>5. LoopInv'
  BY TypeFrame DEF Expire, genVars, msgVars, sourceVars
<1> QED BY <1>1, <1>2, <1>3, <1>4, <1>5

\* Post keeps the type and loop invariants.
LEMMA PostType ==
  ASSUME TypeInv, NEW r \in Runners, NEW o \in Outcomes, Post(r, o)
  PROVE  TypeInv'
<1> USE DEF TypeInv, TypeOK
<1>1. GenTypeOK'
  BY TypeFrame, Zenon DEF Post, genVars, stateVars
<1>2. SourceTypeOK'
  BY TypeFrame, Zenon DEF Post, warnVars, msgVars, sourceVars
<1>3. RunTypeOK'
  BY DEF RunTypeOK, PCs, GenTypeOK, Post
<1>4. CountTypeOK'
  <2>1. CASE r \in Tests
    BY <2>1, Zenon DEF CountTypeOK, Post, histVars
  <2>2. CASE r \in Gens
    <3>1. item[r] \in Delivery /\ r \notin Tests
      BY <2>2, RunnerSplit, Zenon DEF RunTypeOK
    <3>2. [by |-> r, event |-> item[r].event, body |-> item[r].body]
            \in [by : Gens, event : Kinds, body : Nat]
      BY <2>2, <3>1, Zenon DEF Delivery
    <3>3. seenConn' \in [Gens -> Nat]
      BY <2>2, <3>1, Zenon DEF CountTypeOK, Delivery, Post
    <3> QED BY <3>1, <3>2, <3>3 DEF CountTypeOK, Post
  <2> QED BY <2>1, <2>2, RunnerSplit
<1>5. LoopInv'
  <2>1. pc[r] = "post" /\ pc' = [pc EXCEPT ![r] = "finish"] /\ UNCHANGED <<nGen, tries, queue, mgen, tgen>>
    BY Zenon DEF Post, genVars, msgVars, sourceVars
  <2>2. pc'[r] = "finish" /\ \A q \in Runners \ {r} : pc'[q] = pc[q]
    BY <2>1, Zenon DEF RunTypeOK
  <2>3. \A g \in Gens : pc'[g] # "settle" => tries'[g] < Attempts
    BY <2>1, <2>2, RunnerSplit, Zenon DEF LoopInv
  <2>4. \A t \in Tests : pc'[t] # "idle" => tgen'[t] \in 1..nGen'
    BY <2>1, <2>2, RunnerSplit, Zenon DEF LoopInv
  <2>5. \A t \in Tests : pc'[t] \notin {"loop", "settle"}
    BY <2>2, RunnerSplit, Zenon DEF LoopInv
  <2>6. \A g \in Gens : g > nGen' => queue'[g] = <<>> /\ pc'[g] = "idle"
    BY <2>1, <2>2, RunnerSplit DEF LoopInv
  <2> QED BY <2>1, <2>3, <2>4, <2>5, <2>6 DEF LoopInv
<1> QED BY <1>1, <1>2, <1>3, <1>4, <1>5, Zenon

\* A failed attempt keeps the loop invariant.
LEMMA AfterFailureLoop ==
  ASSUME TypeInv, NEW r \in Runners, NEW d \in BOOLEAN, NEW s \in BOOLEAN,
         pc[r] \in Busy, AfterFailure(r, d, s), UNCHANGED <<tgen, nGen, mgen, queue>>
  PROVE  LoopInv'
<1>1. \A g \in Gens : pc'[g] # "settle" => tries'[g] < Attempts
  BY Zenon, AfterFailureType
<1>2. /\ \A q \in Runners \ {r} : pc'[q] = pc[q]
      /\ r \in Tests => pc'[r] = "exited"
  BY Zenon, AfterFailureType
<1> USE RunnerSplit DEF TypeInv, TypeOK, GenTypeOK, RunTypeOK, LoopInv, Busy
<1>3. \A t \in Tests : /\ pc'[t] # "idle" => tgen'[t] \in 1..nGen'
                        /\ pc'[t] \notin {"loop", "settle"}
  BY <1>2, Zenon
<1>4. \A g \in Gens : g > nGen => queue'[g] = <<>> /\ g # r
  OBVIOUS
<1> QED BY Zenon, <1>1, <1>2, <1>3, <1>4

\* AcquireCancelled keeps the type and loop invariants.
LEMMA AcquireCancelledType ==
  ASSUME TypeInv, NEW r \in Runners, AcquireCancelled(r)
  PROVE  TypeInv'
<1> USE DEF TypeInv, TypeOK
<1>0. pc[r] \in Busy /\ AfterFailure(r, FALSE, FALSE)
  BY Zenon DEF Busy, AcquireCancelled
<1>1. GenTypeOK'
  BY TypeFrame, Zenon DEF AcquireCancelled, genVars, stateVars
<1>2. SourceTypeOK'
  BY TypeFrame DEF AcquireCancelled, warnVars, msgVars, sourceVars
<1>3. RunTypeOK'
  BY Zenon, <1>0, AfterFailureType DEF RunTypeOK, AcquireCancelled
<1>4. CountTypeOK'
  BY TypeFrame DEF AcquireCancelled, histVars
<1>5. LoopInv'
  BY Zenon, <1>0, AfterFailureLoop DEF AcquireCancelled, genVars, msgVars, sourceVars
<1> QED BY <1>1, <1>2, <1>3, <1>4, <1>5

\* FinishFail keeps the type and loop invariants.
LEMMA FinishFailType ==
  ASSUME TypeInv, NEW r \in Runners, FinishFail(r)
  PROVE  TypeInv'
<1> USE DEF TypeInv, TypeOK
<1>0. pc[r] \in Busy /\ \E d, s \in BOOLEAN : AfterFailure(r, d, s)
  BY Zenon DEF Busy, FinishFail
<1>1. GenTypeOK'
  <2>1. sem' \in [Gens -> Runners \cup {Free}]
    BY Zenon DEF Release, GenTypeOK, FinishFail
  <2> QED BY <2>1 DEF GenTypeOK, FinishFail, genVars, stateVars
<1>2. SourceTypeOK'
  BY TypeFrame, Zenon DEF FinishFail, warnVars, msgVars, sourceVars
<1>3. RunTypeOK'
  <2>1. outcome' \in [Runners -> Outcomes]
    BY DEF RunTypeOK, Outcomes, FinishFail
  <2> QED BY <1>0, <2>1, AfterFailureType DEF RunTypeOK, FinishFail, genVars, stateVars, warnVars, sourceVars, runVars, histVars
<1>4. CountTypeOK'
  BY Zenon, TypeFrame DEF FinishFail, histVars
<1>5. LoopInv'
  BY <1>0, AfterFailureLoop, Zenon DEF FinishFail, genVars, msgVars, sourceVars
<1> QED BY <1>1, <1>2, <1>3, <1>4, <1>5

\* Acquire keeps the type and loop invariants.
LEMMA AcquireType ==
  ASSUME TypeInv, NEW r \in Runners, Acquire(r)
  PROVE  TypeInv'
<1> USE DEF TypeInv, TypeOK
<1>0. pc[r] \in Busy
  BY Zenon DEF Busy, Acquire
<1>1. GenTypeOK'
  <2>1. sem' \in [Gens -> Runners \cup {Free}]
    <3>1. sem' = sem \/ sem' = [sem EXCEPT ![GenOf(r)] = r]
      BY Zenon DEF Acquire
    <3>2. sem \in [Gens -> Runners \cup {Free}]
      BY Zenon DEF GenTypeOK
    <3> QED BY Zenon, <3>1, <3>2
  <2> QED BY <2>1 DEF GenTypeOK, Acquire, genVars, stateVars
<1>2. SourceTypeOK'
  BY TypeFrame, Zenon DEF Acquire, warnVars, msgVars, sourceVars
<1>4. CountTypeOK'
  BY TypeFrame DEF Acquire, histVars
<1>5. CASE Active(GenOf(r))
  <2>1. /\ pc' = [pc EXCEPT ![r] = "post"]
        /\ UNCHANGED <<tries, destFail, tgen, item, expired, outcome, nGen, mgen, queue>>
    BY <1>5 DEF Acquire, genVars, msgVars, sourceVars
  <2>2. RunTypeOK'
    BY <2>1 DEF RunTypeOK, PCs
  <2>3. LoopInv'
    <3>1. pc \in [Runners -> PCs] /\ pc[r] = "sem" /\ "post" \in PCs
      BY Zenon DEF RunTypeOK, Acquire, PCs
    <3> HIDE DEF TypeInv, TypeOK
    <3>2. LoopInv
      BY Zenon DEF TypeInv
    <3> QED BY <2>1, <3>1, <3>2, AttemptLoop, Zenon
  <2> QED BY <1>1, <1>2, <1>4, <2>2, <2>3
<1>6. CASE ~Active(GenOf(r))
  <2>1. AfterFailure(r, FALSE, FALSE) /\ UNCHANGED <<tgen, item, expired, outcome, nGen, mgen, queue>>
    BY Zenon, <1>6 DEF Acquire, genVars, msgVars, sourceVars
  <2>2. RunTypeOK'
    BY Zenon, <1>0, <2>1, AfterFailureType DEF RunTypeOK
  <2>3. LoopInv'
    BY Zenon, <1>0, <2>1, AfterFailureLoop
  <2> QED BY <1>1, <1>2, <1>4, <2>2, <2>3
<1> QED BY <1>5, <1>6

\* FinishOk keeps the type and loop invariants.
LEMMA FinishOkType ==
  ASSUME TypeInv, NEW r \in Runners, FinishOk(r)
  PROVE  TypeInv'
<1> USE DEF TypeInv, TypeOK
<1>1. GenTypeOK'
  <2>1. sem' \in [Gens -> Runners \cup {Free}]
    BY Zenon DEF Release, GenTypeOK, FinishOk
  <2>2. failures' \in Nat
    BY Zenon DEF GenTypeOK, FinishOk
  <2> QED BY <2>1, <2>2 DEF GenTypeOK, FinishOk, genVars
<1>2. SourceTypeOK'
  BY TypeFrame, Zenon DEF FinishOk, warnVars, msgVars, sourceVars
<1>4. CountTypeOK'
  <2>1. delivered' \in Nat
    BY DEF CountTypeOK, FinishOk
  <2>2. settled' = settled \/ (r \in Gens /\ settled' = settled \cup {Ending(cfg[r].url, item[r].body, "answered")})
    BY RunnerSplit, Zenon DEF FinishOk
  <2>3. r \in Gens => Ending(cfg[r].url, item[r].body, "answered") \in [url : URLs, body : Nat, how : Endings]
    BY EndingType, Zenon DEF Endings
  <2>4. settled' \subseteq [url : URLs, body : Nat, how : Endings]
    BY <2>2, <2>3, Zenon DEF CountTypeOK
  <2>5. UNCHANGED <<dropped, accepted, receipts, seenConn>>
    BY Zenon DEF FinishOk, histVars
  <2> QED BY <2>1, <2>4, <2>5, Zenon DEF CountTypeOK
<1>5. CASE r \in Tests
  <2>1. /\ pc' = [pc EXCEPT ![r] = "exited"]
        /\ UNCHANGED <<tries, destFail, tgen, item, expired, outcome, nGen, mgen, queue>>
    BY <1>5, Zenon DEF FinishOk, genVars, msgVars, sourceVars
  <2>2. RunTypeOK'
    BY <2>1 DEF RunTypeOK, PCs, sourceVars
  <2>3. LoopInv'
    <3>1. pc \in [Runners -> PCs] /\ pc[r] = "finish" /\ "exited" \in PCs
      BY Zenon DEF RunTypeOK, FinishOk, PCs
    <3> HIDE DEF TypeInv, TypeOK
    <3>2. LoopInv
      BY Zenon DEF TypeInv
    <3> QED BY <2>1, <3>1, <3>2, AttemptLoop, Zenon
  <2> QED BY <1>1, <1>2, <1>4, <2>2, <2>3
<1>6. CASE r \in Gens
  <2>1. Forget(r) /\ UNCHANGED <<tgen, outcome, nGen, mgen, queue>>
    BY <1>6, RunnerSplit, Zenon DEF FinishOk, genVars, msgVars, sourceVars
  <2>2. RunTypeOK'
    <3>1. NoDelivery \in Delivery
      BY Zenon DEF NoDelivery, Delivery, Kinds
    <3>2. pc' \in [Runners -> PCs] /\ expired' \in [Runners -> BOOLEAN]
      BY <2>1, Zenon DEF RunTypeOK, Forget, PCs
    <3>3. item' \in [Gens -> Delivery] /\ destFail' \in [Gens -> BOOLEAN]
      BY <2>1, <3>1, RunnerSplit DEF RunTypeOK, Forget, FinishOk
    <3>4. tries' \in [Gens -> 0..Attempts]
      <4>1. tries' = [tries EXCEPT ![r] = 0] /\ tries \in [Gens -> 0..Attempts]
        BY Zenon, <2>1 DEF RunTypeOK, Forget
      <4>2. 0 \in 0..Attempts
        BY Bounds
      <4> QED BY Zenon, <4>1, <4>2
    <3> QED BY <2>1, <3>2, <3>3, <3>4, Zenon DEF RunTypeOK
  <2>3. LoopInv'
    <3>1. /\ pc' = [pc EXCEPT ![r] = "idle"] /\ UNCHANGED <<tgen, nGen, mgen>>
          /\ \A h \in Gens : h > nGen => queue'[h] = queue[h]
      BY <2>1, Zenon DEF Forget
    <3>2. tries'[r] < Attempts /\ \A h \in Gens \ {r} : tries'[h] = tries[h]
      BY <1>6, <2>1, Bounds DEF Forget, RunTypeOK
    <3>3. r <= nGen
      <4>1. ~(r > nGen)
        BY <1>6, Zenon DEF LoopInv, FinishOk
      <4> QED BY <1>6, <4>1 DEF GenTypeOK
    <3> QED BY Zenon, <1>6, <3>1, <3>2, <3>3, WorkerLoop
  <2> QED BY <1>1, <1>2, <1>4, <2>2, <2>3
<1> QED BY <1>5, <1>6, RunnerSplit

\* QueueRuntimeConnection keeps the type and loop invariants.
LEMMA QueueRuntimeConnectionType ==
  ASSUME TypeInv, QueueRuntimeConnection
  PROVE  TypeInv'
<1> USE DEF TypeInv, TypeOK
<1>0. /\ queue' \in [Gens -> Seq(Delivery)]
      /\ dropped' \in Nat /\ accepted' \in Nat
      /\ \A h \in Gens : h > nGen => queue'[h] = queue[h]
  <2>1. gen \in 0..nGen /\ "connection.changed" \in Kinds /\ (lastConn + 1) \in Nat
    BY DEF GenTypeOK, SourceTypeOK, Kinds
  <2>2. EnqueueLocked(gen, "connection.changed", (lastConn + 1), TRUE)
    BY Zenon DEF QueueRuntimeConnection
  <2>3. GenTypeOK /\ dropped \in Nat /\ accepted \in Nat
    BY Zenon DEF CountTypeOK
  <2> HIDE DEF QueueRuntimeConnection, TypeInv
  <2> QED BY Zenon, <2>1, <2>2, <2>3, EnqueueType
<1>1. GenTypeOK'
  BY <1>0, Zenon DEF GenTypeOK, QueueRuntimeConnection, genVars, stateVars, warnVars, msgVars, sourceVars
<1>2. SourceTypeOK'
  BY Bounds DEF SourceTypeOK, QueueRuntimeConnection, warnVars, msgVars
<1>3. RunTypeOK'
  BY TypeFrame, Zenon DEF QueueRuntimeConnection, runVars
<1>4. CountTypeOK'
  <2>1. settled' \subseteq [url : URLs, body : Nat, how : Endings]
    <3>1. lastConn + 1 \in Nat
      BY Bounds DEF SourceTypeOK
    <3>2. gen # 0 => cfg[gen].url \in URLs
      BY Bounds DEF GenTypeOK
    <3>3. gen # 0 => Ending(cfg[gen].url, lastConn + 1, "full") \in [url : URLs, body : Nat, how : Endings]
      BY <3>1, <3>2 DEF Ending, Endings
    <3> QED BY <3>3, Zenon DEF CountTypeOK, Selects, QueueRuntimeConnection
  <2> QED BY <1>0, <2>1, Zenon DEF CountTypeOK, QueueRuntimeConnection, genVars, stateVars, warnVars, msgVars, sourceVars, histVars
<1>5. LoopInv'
  BY Zenon, <1>0 DEF LoopInv, QueueRuntimeConnection, genVars, msgVars, runVars
<1> QED BY <1>1, <1>2, <1>3, <1>4, <1>5

\* QueueRuntimeStorageWarning keeps the type and loop invariants.
LEMMA QueueRuntimeStorageWarningType ==
  ASSUME TypeInv, NEW w \in Warnings, QueueRuntimeStorageWarning(w)
  PROVE  TypeInv'
<1> USE DEF TypeInv, TypeOK
<1>0. /\ queue' \in [Gens -> Seq(Delivery)]
      /\ dropped' \in Nat /\ accepted' \in Nat
      /\ \A h \in Gens : h > nGen => queue'[h] = queue[h]
  <2>1. gen \in 0..nGen /\ "storage.warning" \in Kinds /\ (nWarn + 1) \in Nat
    BY DEF GenTypeOK, SourceTypeOK, Kinds
  <2>2. EnqueueLocked(gen, "storage.warning", (nWarn + 1), TRUE)
    BY Zenon DEF QueueRuntimeStorageWarning
  <2>3. GenTypeOK /\ dropped \in Nat /\ accepted \in Nat
    BY Zenon DEF CountTypeOK
  <2> HIDE DEF QueueRuntimeStorageWarning, TypeInv
  <2> QED BY Zenon, <2>1, <2>2, <2>3, EnqueueType
<1>1. GenTypeOK'
  BY <1>0, Zenon DEF GenTypeOK, QueueRuntimeStorageWarning, genVars, stateVars, msgVars, sourceVars
<1>2. SourceTypeOK'
  BY Bounds DEF SourceTypeOK, QueueRuntimeStorageWarning, genVars, warnVars, msgVars, sourceVars, runVars, histVars
<1>3. RunTypeOK'
  BY TypeFrame, Zenon DEF QueueRuntimeStorageWarning, runVars
<1>4. CountTypeOK'
  BY <1>0, Zenon DEF CountTypeOK, QueueRuntimeStorageWarning, genVars, stateVars, histVars
<1>5. LoopInv'
  BY <1>0 DEF LoopInv, QueueRuntimeStorageWarning, genVars, stateVars, warnVars, msgVars, sourceVars, runVars
<1> QED BY <1>1, <1>2, <1>3, <1>4, <1>5

\* QueueRuntimeMessage keeps the type and loop invariants.
LEMMA QueueRuntimeMessageType ==
  ASSUME TypeInv, NEW m \in Messages, NEW fits \in BOOLEAN, QueueRuntimeMessage(m, fits)
  PROVE  TypeInv'
<1> USE DEF TypeInv, TypeOK
<1>0. /\ queue' \in [Gens -> Seq(Delivery)]
      /\ dropped' \in Nat /\ accepted' \in Nat
      /\ \A h \in Gens : h > nGen => queue'[h] = queue[h]
  <2>1. mgen[m] \in 0..nGen /\ "message.received" \in Kinds /\ m \in Nat
    <3>1. mgen[m] \in 0..nGen
      <4>1. mgen[m] \in (-1)..MaxGen
        BY Zenon DEF SourceTypeOK
      <4>2. mgen[m] >= 0 /\ mgen[m] <= nGen
        BY Zenon DEF QueueRuntimeMessage, LoopInv
      <4>3. nGen \in 0..MaxGen
        BY Zenon DEF GenTypeOK
      <4> HIDE DEF TypeInv
      <4> QED BY <4>1, <4>2, <4>3, Bounds
    <3> QED BY <3>1 DEF Kinds
  <2>2. EnqueueLocked(mgen[m], "message.received", m, fits)
    BY DEF QueueRuntimeMessage
  <2>3. GenTypeOK /\ dropped \in Nat /\ accepted \in Nat
    BY Zenon DEF CountTypeOK
  <2> HIDE DEF QueueRuntimeMessage, TypeInv
  <2> QED BY <2>1, <2>2, <2>3, EnqueueType
<1>1. GenTypeOK'
  BY <1>0, Zenon DEF GenTypeOK, QueueRuntimeMessage, genVars, stateVars, warnVars, runVars
<1>2. SourceTypeOK'
  BY Zenon DEF SourceTypeOK, QueueRuntimeMessage, warnVars
<1>3. RunTypeOK'
  BY TypeFrame, Zenon DEF QueueRuntimeMessage, runVars
<1>4. CountTypeOK'
  BY <1>0 DEF CountTypeOK, QueueRuntimeMessage, warnVars, sourceVars, histVars
<1>5. LoopInv'
  BY Zenon, <1>0 DEF LoopInv, QueueRuntimeMessage, genVars, runVars
<1> QED BY <1>1, <1>2, <1>3, <1>4, <1>5

\* The events a PUT replays are well typed.
LEMMA ReplayType ==
  ASSUME TypeInv, NEW g, NEW ev, NEW fresh \in BOOLEAN
  PROVE  Replay(g, ev, fresh) \in Seq(Delivery)
<1>1. /\ [event |-> "connection.changed", body |-> lastConn] \in Delivery
      /\ \A w \in Warnings : [event |-> "storage.warning", body |-> warning[w]] \in Delivery
  BY DEF TypeInv, TypeOK, SourceTypeOK, Delivery, Kinds
<1>2. 1 \in Warnings /\ 2 \in Warnings
  BY DEF Warnings
<1> QED BY SMTT(30), <1>1, <1>2 DEF Replay

\* Configure keeps the type and loop invariants.
LEMMA ConfigureType ==
  ASSUME TypeInv, NEW u \in URLs, NEW ev \in Selections, Configure(u, ev)
  PROVE  TypeInv'
<1> USE DEF TypeInv, TypeOK
<1> DEFINE g      == nGen + 1
           replay == Replay(g, ev, NewlySelected(u))
           room   == MinOf(QueueCap, Len(replay))
           kept   == IF gen = NoGen THEN queue ELSE [queue EXCEPT ![gen] = <<>>]
<1>0. /\ nGen < MaxGen /\ nGen' = g /\ gen' = g
      /\ cfg' = [cfg EXCEPT ![g] = [url |-> u, events |-> ev]]
      /\ cancelled' = IF gen = NoGen THEN cancelled ELSE [cancelled EXCEPT ![gen] = TRUE]
      /\ queue' = [kept EXCEPT ![g] = SubSeq(replay, 1, room)]
      /\ dropped' = dropped + Abandoned + (Len(replay) - room)
      /\ accepted' = accepted + Len(replay)
      /\ settled' = settled \/ settled' = settled \cup {Ending(u, lastConn, "replaced")}
      /\ enabled' = TRUE /\ failures' = 0
      /\ UNCHANGED <<down, sem, sourceVars, runVars, delivered, histVars>>
  BY DEF Configure
<1>a. /\ g \in Gens /\ g \in 0..MaxGen /\ ev \subseteq Kinds
      /\ gen # NoGen => gen \in Gens
  <2>1. gen \in 0..nGen /\ nGen \in 0..MaxGen
    BY Zenon DEF GenTypeOK
  <2>2. nGen < MaxGen
    BY <1>0
  <2>3. ev \subseteq Kinds
    BY Zenon, WebhookAssumption
  <2> HIDE DEF TypeInv
  <2> QED BY <2>1, <2>2, <2>3, Bounds
<1>b. replay \in Seq(Delivery)
  BY Zenon, ReplayType DEF NewlySelected
<1>c. room \in 0..Len(replay) /\ Len(replay) \in Nat
  BY <1>b, Bounds DEF MinOf
<1>d. SubSeq(replay, 1, room) \in Seq(Delivery)
  BY <1>b, <1>c
<1>e. kept \in [Gens -> Seq(Delivery)]
  BY <1>a DEF GenTypeOK
<1> HIDE DEF g, replay, room, kept
<1>1. GenTypeOK'
  <2>1. queue' \in [Gens -> Seq(Delivery)]
    BY Zenon, <1>0, <1>a, <1>d, <1>e, Bounds DEF sourceVars, runVars, histVars
  <2>2. cfg' \in [Gens -> [url : URLs, events : SUBSET Kinds]]
    BY <1>0, <1>a, Zenon DEF GenTypeOK
  <2>3. cancelled' \in [Gens -> BOOLEAN]
    BY <1>0, <1>a DEF GenTypeOK
  <2>4. gen' \in 0..nGen' /\ nGen' \in 0..MaxGen
    <3>1. nGen' = g /\ gen' = g /\ g \in 0..MaxGen
      BY Zenon, <1>0, <1>a
    <3> HIDE DEF TypeInv
    <3> QED BY <3>1, Bounds
  <2>5. down' \in BOOLEAN /\ enabled' \in BOOLEAN /\ failures' \in Nat
    BY <1>0, Zenon DEF GenTypeOK
  <2>6. sem' \in [Gens -> Runners \cup {Free}]
    BY <1>0, Zenon DEF GenTypeOK
  <2> QED BY <2>1, <2>2, <2>3, <2>4, <2>5, <2>6 DEF GenTypeOK
<1>2. SourceTypeOK'
  BY TypeFrame, Zenon DEF Configure, warnVars, msgVars, sourceVars
<1>3. RunTypeOK'
  BY TypeFrame, Zenon DEF Configure, runVars
<1>4. CountTypeOK'
  <2>1. dropped' \in Nat /\ accepted' \in Nat
    <3>1. /\ dropped' = dropped + Abandoned + (Len(replay) - room)
          /\ accepted' = accepted + Len(replay)
      BY Zenon, <1>0
    <3>2. dropped \in Nat /\ accepted \in Nat /\ Abandoned \in Nat
      BY Zenon, DrainNat DEF CountTypeOK
    <3> HIDE DEF TypeInv
    <3> QED BY <1>c, <3>1, <3>2
  <2>2. settled' \subseteq [url : URLs, body : Nat, how : Endings]
    <3>1. lastConn \in Nat
      BY Bounds DEF SourceTypeOK
    <3>2. Ending(u, lastConn, "replaced") \in [url : URLs, body : Nat, how : Endings]
      BY <3>1 DEF Ending, Endings
    <3> QED BY <1>0, <3>2, Zenon DEF CountTypeOK
  <2> QED BY <1>0, <2>1, <2>2 DEF CountTypeOK, histVars
<1>5. LoopInv'
  <2>1. \A h \in Gens : h > nGen' => h > nGen /\ h # g /\ h # gen
    <3>1. nGen' = nGen + 1 /\ g = nGen + 1
      BY <1>0, Zenon DEF g
    <3>2. nGen \in Nat /\ gen \in Int /\ gen <= nGen
      BY Bounds DEF TypeInv, TypeOK, GenTypeOK
    <3>3. \A h \in Gens : h \in Int
      BY DEF Gens
    <3> HIDE DEF g
    <3> QED BY <3>1, <3>2, <3>3
  <2>2. \A h \in Gens : h > nGen' => queue'[h] = queue[h]
    BY <1>0, <1>a, <1>e, <2>1 DEF GenTypeOK, kept
  <2>3. \A t \in Tests : tgen[t] \in 1..nGen => tgen'[t] \in 1..nGen'
    <3>1. tgen' = tgen /\ nGen' = nGen + 1
      BY <1>0 DEF g, runVars
    <3>2. nGen \in Nat
      BY Bounds DEF GenTypeOK
    <3> QED BY <3>1, <3>2
  <2>4. \A m \in Messages : mgen'[m] <= nGen'
    <3>1. mgen' = mgen /\ nGen' = nGen + 1
      BY <1>0 DEF g, msgVars, sourceVars
    <3>2. \A m \in Messages : mgen[m] <= nGen /\ mgen[m] \in Int
      <4>1. \A m \in Messages : mgen[m] <= nGen /\ mgen[m] \in (-1)..MaxGen
        BY Zenon DEF LoopInv, SourceTypeOK
      <4> HIDE DEF TypeInv
      <4> QED BY <4>1, Bounds
    <3>3. nGen \in Nat
      BY Bounds DEF GenTypeOK
    <3> QED BY <3>1, <3>2, <3>3
  <2> QED BY Zenon, <1>0, <2>1, <2>2, <2>3, <2>4 DEF LoopInv, msgVars, runVars
<1> QED BY <1>1, <1>2, <1>3, <1>4, <1>5, Zenon

\* Every step keeps the type and loop invariants: one case per action.
LEMMA TypeNext == TypeInv /\ [Next]_vars => TypeInv'
<1> SUFFICES ASSUME TypeInv, [Next]_vars PROVE TypeInv'
  OBVIOUS
<1>1. CASE \E u \in URLs, ev \in Selections : Configure(u, ev)
  BY <1>1, ConfigureType
<1>2. CASE Remove \/ ShutdownCancel \/ QueueRuntimeConnection
  BY <1>2, RemoveType, ShutdownCancelType, QueueRuntimeConnectionType
<1>3. CASE \E w \in Warnings : QueueRuntimeStorageWarning(w) \/ ClearStorageWarning(w)
  BY <1>3, QueueRuntimeStorageWarningType, ClearStorageWarningType
<1>4. CASE \E m \in Messages : Subscriber(m) \/ \E fits \in BOOLEAN : QueueRuntimeMessage(m, fits)
  BY <1>4, SubscriberType, QueueRuntimeMessageType
<1>5. CASE \E g \in Gens : g <= nGen /\ WorkerStep(g)
  BY <1>5, DequeueType, WorkerExitType, LoopHeadType, SettleType DEF WorkerStep
<1>6. CASE \E t \in Tests : StartTest(t)
  BY <1>6, StartTestType
<1>7. CASE \E r \in Runners : Expire(r) \/ AttemptStep(r)
  BY <1>7, ExpireType, AcquireType, AcquireCancelledType, PostType, FinishOkType, FinishFailType DEF AttemptStep
<1>8. CASE UNCHANGED vars
  BY <1>8, Zenon DEF vars, genVars, stateVars, warnVars, msgVars, sourceVars, runVars, histVars,
              TypeInv, TypeOK, GenTypeOK, SourceTypeOK, RunTypeOK, CountTypeOK, LoopInv
<1> QED BY <1>1, <1>2, <1>3, <1>4, <1>5, <1>6, <1>7, <1>8 DEF Next

\* Type correctness of the receiver for every instance: in particular an event
\* gets at most Attempts attempts and the current generation has been created.
THEOREM TypeCorrect == Spec => []TypeOK
<1>1. Spec => []TypeInv
  BY TypeInit, TypeNext, PTL DEF Spec
<1>2. TypeInv => TypeOK
  BY Zenon DEF TypeInv
<1> QED BY <1>1, <1>2, PTL
-----------------------------------------------------------------------------
(* Safety *)

\* A disabled receiver's worker is between events: only the worker itself
\* disables its generation, and then finds its queue empty.
DisabledIdle == gen # NoGen /\ ~enabled => pc[gen] \in {"idle", "exited"}

\* RetiredDrained, FailureBudget and OneDelivery need each other and DisabledIdle
\* to be inductive.
SafeInv == RetiredDrained /\ DisabledIdle /\ FailureBudget /\ OneDelivery

\* The initial state satisfies the safety invariant.
LEMMA SafeInit == Init => SafeInv
BY DEF Init, SafeInv, RetiredDrained, DisabledIdle, FailureBudget, OneDelivery

\* The parts of the safety invariant read only some of the variables.
LEMMA SafeFrame ==
  /\ RetiredDrained /\ UNCHANGED <<gen, nGen, enabled, queue, cancelled>> => RetiredDrained'
  /\ DisabledIdle /\ UNCHANGED <<gen, enabled, pc>> => DisabledIdle'
  /\ FailureBudget /\ UNCHANGED <<gen, enabled, failures>> => FailureBudget'
  /\ OneDelivery /\ UNCHANGED <<pc, sem, tgen>> => OneDelivery'
BY DEF RetiredDrained, DisabledIdle, FailureBudget, OneDelivery, GenOf

\* A step of a runner that is not between events cannot be the worker of a
\* disabled receiver.
LEMMA IdleFrame ==
  ASSUME TypeInv, DisabledIdle, NEW r \in Runners, pc[r] \notin {"idle", "exited"},
         \A q \in Runners \ {r} : pc'[q] = pc[q], UNCHANGED <<gen, enabled>>
  PROVE  DisabledIdle'
<1>1. gen # NoGen => gen \in Runners
  BY Bounds, RunnerSplit DEF TypeInv, TypeOK, GenTypeOK
<1> QED BY <1>1, Zenon DEF DisabledIdle

\* An enqueue reaches only the queue of the current, enabled generation.
LEMMA EnqueueDrained ==
  ASSUME TypeInv, RetiredDrained, NEW g \in 0..nGen, NEW e, NEW b, NEW fits,
         EnqueueLocked(g, e, b, fits), UNCHANGED <<gen, nGen, enabled, cancelled>>
  PROVE  RetiredDrained'
<1>1. CASE UNCHANGED queue
  BY <1>1, Zenon DEF RetiredDrained
<1>2. CASE queue' # queue
  <2>1. g = gen /\ enabled
    BY <1>2 DEF EnqueueLocked, Admits
  <2>2. \A h \in Gens \ {g} : queue'[h] = queue[h]
    BY Zenon, <1>2 DEF EnqueueLocked, TypeInv, TypeOK, GenTypeOK
  <2>3. \A h \in 1..nGen : h \in Gens
    BY Bounds DEF TypeInv, TypeOK, GenTypeOK
  <2> QED BY <2>1, <2>2, <2>3, Zenon DEF RetiredDrained
<1> QED BY <1>1, <1>2, Zenon

\* Configure keeps RetiredDrained, DisabledIdle, FailureBudget and OneDelivery.
LEMMA ConfigureSafe ==
  ASSUME TypeInv, SafeInv, NEW u \in URLs, NEW ev \in Selections, Configure(u, ev)
  PROVE  SafeInv'
<1> USE DEF SafeInv
<1>1. RetiredDrained'
  <2>1. /\ nGen' = nGen + 1 /\ gen' = nGen + 1 /\ enabled' = TRUE
        /\ cancelled' = IF gen = NoGen THEN cancelled ELSE [cancelled EXCEPT ![gen] = TRUE]
        /\ nGen < MaxGen
    BY Zenon DEF Configure
  <2>2. ASSUME NEW h \in 1..nGen PROVE queue'[h] = IF h = gen THEN <<>> ELSE queue[h]
    <3>1. h # nGen + 1 /\ h \in Gens /\ gen # nGen + 1 /\ nGen + 1 \in Gens
      BY <2>1, Bounds DEF TypeInv, TypeOK, GenTypeOK
    <3>2. PICK q : queue' = [(IF gen = NoGen THEN queue ELSE [queue EXCEPT ![gen] = <<>>])
                               EXCEPT ![nGen + 1] = q]
      BY Zenon DEF Configure
    <3> QED BY <3>1, <3>2 DEF TypeInv, TypeOK, GenTypeOK, genVars, stateVars, warnVars, sourceVars, runVars, histVars
  <2>3. ASSUME NEW h \in 1..nGen', h # gen' PROVE queue'[h] = <<>> /\ cancelled'[h]
    <3>1. h \in 1..nGen /\ h \in Gens
      BY <2>1, <2>3, Bounds DEF TypeInv, TypeOK, GenTypeOK
    <3>2. CASE h = gen
      BY <3>1, <3>2, <2>1, <2>2 DEF TypeInv, TypeOK, GenTypeOK
    <3>3. CASE h # gen
      <4>1. queue[h] = <<>> /\ cancelled[h]
        BY <3>1, <3>3, Zenon DEF RetiredDrained
      <4>2. queue'[h] = queue[h] /\ cancelled'[h] = cancelled[h]
        BY <3>1, <3>3, <2>1, <2>2
      <4> QED BY <4>1, <4>2, Zenon
    <3> QED BY <3>2, <3>3, Zenon
  <2> QED BY Zenon, <2>1, <2>3 DEF RetiredDrained
<1>2. DisabledIdle'
  BY Zenon DEF DisabledIdle, Configure
<1>3. FailureBudget'
  BY Bounds DEF FailureBudget, Configure
<1>4. OneDelivery'
  BY SafeFrame DEF Configure, runVars
<1> QED BY <1>1, <1>2, <1>3, <1>4

\* Remove keeps RetiredDrained, DisabledIdle, FailureBudget and OneDelivery.
LEMMA RemoveSafe ==
  ASSUME TypeInv, SafeInv, Remove
  PROVE  SafeInv'
<1> USE DEF SafeInv
<1>1. RetiredDrained'
  BY Bounds DEF RetiredDrained, Remove, TypeInv, TypeOK, GenTypeOK
<1>2. DisabledIdle'
  BY DEF DisabledIdle, Remove
<1>3. FailureBudget'
  BY Zenon DEF FailureBudget, Remove
<1>4. OneDelivery'
  BY SafeFrame, Zenon DEF Remove, runVars
<1> QED BY <1>1, <1>2, <1>3, <1>4, Zenon

\* ShutdownCancel keeps RetiredDrained, DisabledIdle, FailureBudget and OneDelivery.
LEMMA ShutdownCancelSafe ==
  ASSUME TypeInv, SafeInv, ShutdownCancel
  PROVE  SafeInv'
<1> USE DEF SafeInv
<1>1. RetiredDrained'
  BY Bounds DEF RetiredDrained, ShutdownCancel, TypeInv, TypeOK, GenTypeOK, stateVars, warnVars
<1>2. DisabledIdle'
  BY SafeFrame, Zenon DEF ShutdownCancel, stateVars, runVars
<1>3. FailureBudget'
  BY SafeFrame, Zenon DEF ShutdownCancel, stateVars
<1>4. OneDelivery'
  BY SafeFrame DEF ShutdownCancel, runVars
<1> QED BY <1>1, <1>2, <1>3, <1>4

\* QueueRuntimeConnection keeps RetiredDrained, DisabledIdle, FailureBudget and OneDelivery.
LEMMA QueueRuntimeConnectionSafe ==
  ASSUME TypeInv, SafeInv, QueueRuntimeConnection
  PROVE  SafeInv'
<1> USE DEF SafeInv
<1>1. RetiredDrained'
  <2>1. EnqueueLocked(gen, "connection.changed", lastConn + 1, TRUE) /\ UNCHANGED <<gen, nGen, enabled, cancelled>>
    BY Zenon DEF QueueRuntimeConnection, genVars, stateVars
  <2>2. gen \in 0..nGen
    BY DEF TypeInv, TypeOK, GenTypeOK
  <2>3. TypeInv /\ RetiredDrained
    BY Zenon
  <2> HIDE DEF TypeInv, SafeInv
  <2> QED BY Zenon, <2>1, <2>2, <2>3, EnqueueDrained
<1>2. DisabledIdle'
  BY SafeFrame, Zenon DEF QueueRuntimeConnection, genVars, stateVars, runVars
<1>3. FailureBudget'
  BY SafeFrame, Zenon DEF QueueRuntimeConnection, genVars, stateVars
<1>4. OneDelivery'
  BY SafeFrame DEF QueueRuntimeConnection, runVars
<1> QED BY <1>1, <1>2, <1>3, <1>4

\* QueueRuntimeStorageWarning keeps RetiredDrained, DisabledIdle, FailureBudget and OneDelivery.
LEMMA QueueRuntimeStorageWarningSafe ==
  ASSUME TypeInv, SafeInv, NEW w \in Warnings, QueueRuntimeStorageWarning(w)
  PROVE  SafeInv'
<1> USE DEF SafeInv
<1>1. RetiredDrained'
  <2>1. EnqueueLocked(gen, "storage.warning", nWarn + 1, TRUE) /\ UNCHANGED <<gen, nGen, enabled, cancelled>>
    BY Zenon DEF QueueRuntimeStorageWarning, genVars, stateVars
  <2>2. gen \in 0..nGen
    BY DEF TypeInv, TypeOK, GenTypeOK
  <2>3. TypeInv /\ RetiredDrained
    BY Zenon
  <2> HIDE DEF TypeInv, SafeInv
  <2> QED BY Zenon, <2>1, <2>2, <2>3, EnqueueDrained
<1>2. DisabledIdle'
  BY SafeFrame, Zenon DEF QueueRuntimeStorageWarning, genVars, stateVars, runVars
<1>3. FailureBudget'
  BY SafeFrame, Zenon DEF QueueRuntimeStorageWarning, genVars, stateVars
<1>4. OneDelivery'
  BY SafeFrame, Zenon DEF QueueRuntimeStorageWarning, runVars
<1> QED BY <1>1, <1>2, <1>3, <1>4

\* ClearStorageWarning keeps RetiredDrained, DisabledIdle, FailureBudget and OneDelivery.
LEMMA ClearStorageWarningSafe ==
  ASSUME TypeInv, SafeInv, NEW w \in Warnings, ClearStorageWarning(w)
  PROVE  SafeInv'
<1> USE DEF SafeInv
<1>1. RetiredDrained'
  BY SafeFrame, Zenon DEF ClearStorageWarning, genVars, stateVars
<1>2. DisabledIdle'
  BY SafeFrame, Zenon DEF ClearStorageWarning, genVars, stateVars, runVars
<1>3. FailureBudget'
  BY SafeFrame, Zenon DEF ClearStorageWarning, genVars, stateVars
<1>4. OneDelivery'
  BY SafeFrame DEF ClearStorageWarning, runVars
<1> QED BY <1>1, <1>2, <1>3, <1>4

\* Subscriber keeps RetiredDrained, DisabledIdle, FailureBudget and OneDelivery.
LEMMA SubscriberSafe ==
  ASSUME TypeInv, SafeInv, NEW m \in Messages, Subscriber(m)
  PROVE  SafeInv'
<1> USE DEF SafeInv
<1>1. RetiredDrained'
  BY SafeFrame, Zenon DEF Subscriber, genVars, stateVars
<1>2. DisabledIdle'
  BY SafeFrame, Zenon DEF Subscriber, genVars, stateVars, runVars
<1>3. FailureBudget'
  BY SafeFrame, Zenon DEF Subscriber, genVars, stateVars
<1>4. OneDelivery'
  BY SafeFrame DEF Subscriber, runVars
<1> QED BY <1>1, <1>2, <1>3, <1>4, Zenon

\* QueueRuntimeMessage keeps RetiredDrained, DisabledIdle, FailureBudget and OneDelivery.
LEMMA QueueRuntimeMessageSafe ==
  ASSUME TypeInv, SafeInv, NEW m \in Messages, NEW fits \in BOOLEAN, QueueRuntimeMessage(m, fits)
  PROVE  SafeInv'
<1> USE DEF SafeInv
<1>1. RetiredDrained'
  <2>1. EnqueueLocked(mgen[m], "message.received", m, fits) /\ UNCHANGED <<gen, nGen, enabled, cancelled>>
    BY Zenon DEF QueueRuntimeMessage, genVars, stateVars
  <2>2. mgen[m] \in 0..nGen
    BY DEF QueueRuntimeMessage, LoopInv, SourceTypeOK, TypeInv, TypeOK
  <2>3. TypeInv /\ RetiredDrained
    BY Zenon
  <2> HIDE DEF TypeInv, SafeInv
  <2> QED BY <2>1, <2>2, <2>3, EnqueueDrained, Zenon
<1>2. DisabledIdle'
  BY SafeFrame, Zenon DEF QueueRuntimeMessage, genVars, stateVars, runVars
<1>3. FailureBudget'
  BY SafeFrame, Zenon DEF QueueRuntimeMessage, genVars, stateVars
<1>4. OneDelivery'
  BY SafeFrame DEF QueueRuntimeMessage, runVars
<1> QED BY <1>1, <1>2, <1>3, <1>4

\* Dequeue keeps RetiredDrained, DisabledIdle, FailureBudget and OneDelivery.
LEMMA DequeueSafe ==
  ASSUME TypeInv, SafeInv, NEW g \in Gens, g <= nGen, Dequeue(g)
  PROVE  SafeInv'
<1> USE DEF SafeInv
<1>1. RetiredDrained'
  <2>1. g = gen /\ enabled /\ \A h \in Gens \ {g} : queue'[h] = queue[h]
    BY DEF Dequeue, RetiredDrained
  <2>2. \A h \in 1..nGen : h \in Gens
    BY Bounds DEF TypeInv, TypeOK, GenTypeOK
  <2> QED BY Zenon, <2>1, <2>2 DEF Dequeue, RetiredDrained, genVars, stateVars, sourceVars
<1>2. DisabledIdle'
  <2>1. g = gen /\ enabled
    BY DEF Dequeue, RetiredDrained
  <2> QED BY <2>1, Zenon DEF Dequeue, DisabledIdle, stateVars
<1>3. FailureBudget'
  BY SafeFrame, Zenon DEF Dequeue, genVars, stateVars
<1>4. OneDelivery'
  BY DEF OneDelivery, GenOf, Dequeue
<1> QED BY <1>1, <1>2, <1>3, <1>4

\* WorkerExit keeps RetiredDrained, DisabledIdle, FailureBudget and OneDelivery.
LEMMA WorkerExitSafe ==
  ASSUME TypeInv, SafeInv, NEW g \in Gens, g <= nGen, WorkerExit(g)
  PROVE  SafeInv'
<1> USE DEF SafeInv
<1>1. RetiredDrained'
  BY SafeFrame, Zenon DEF WorkerExit, genVars, stateVars
<1>2. DisabledIdle'
  <2>1. gen # NoGen => gen \in Runners
    BY Bounds, RunnerSplit DEF TypeInv, TypeOK, GenTypeOK
  <2> QED BY <2>1 DEF WorkerExit, DisabledIdle, genVars, stateVars, runVars
<1>3. FailureBudget'
  BY SafeFrame, Zenon DEF WorkerExit, genVars, stateVars
<1>4. OneDelivery'
  BY DEF OneDelivery, GenOf, WorkerExit
<1> QED BY <1>1, <1>2, <1>3, <1>4

\* LoopHead keeps RetiredDrained, DisabledIdle, FailureBudget and OneDelivery.
LEMMA LoopHeadSafe ==
  ASSUME TypeInv, SafeInv, NEW g \in Gens, g <= nGen, LoopHead(g)
  PROVE  SafeInv'
<1> USE DEF SafeInv
<1>1. RetiredDrained'
  BY SafeFrame, Zenon DEF LoopHead, genVars, stateVars
<1>2. DisabledIdle'
  <2>1. /\ pc[g] \notin {"idle", "exited"} /\ \A q \in Runners \ {g} : pc'[q] = pc[q]
        /\ UNCHANGED <<gen, enabled>>
    BY DEF LoopHead, genVars, stateVars
  <2>2. TypeInv /\ DisabledIdle
    BY Zenon DEF genVars, msgVars, histVars
  <2> HIDE DEF TypeInv, SafeInv
  <2> QED BY <2>1, <2>2, IdleFrame, RunnerSplit, Zenon
<1>3. FailureBudget'
  BY SafeFrame, Zenon DEF LoopHead, genVars, stateVars
<1>4. OneDelivery'
  BY DEF OneDelivery, GenOf, LoopHead
<1> QED BY <1>1, <1>2, <1>3, <1>4

\* Settle keeps RetiredDrained, DisabledIdle, FailureBudget and OneDelivery.
LEMMA SettleSafe ==
  ASSUME TypeInv, SafeInv, NEW g \in Gens, g <= nGen, Settle(g)
  PROVE  SafeInv'
<1> USE DEF SafeInv
<1>1. RetiredDrained'
  <2>1. \A h \in 1..nGen : h \in Gens
    BY Bounds DEF TypeInv, TypeOK, GenTypeOK
  <2>2. ASSUME NEW h \in Gens, h # g PROVE queue'[h] = queue[h] /\ cancelled'[h] = cancelled[h]
    BY <2>2 DEF Settle
  <2>3. CASE Disables(g)
    <3>1. g = gen /\ enabled' = FALSE /\ gen' = gen /\ nGen' = nGen
      BY <2>3 DEF Settle, Disables, Counts, TypeInv, TypeOK, GenTypeOK
    <3>2. queue'[g] = <<>> /\ cancelled'[g]
      BY Zenon, <2>3 DEF Settle, TypeInv, TypeOK, GenTypeOK
    <3> QED BY Zenon, <2>1, <2>2, <3>1, <3>2 DEF RetiredDrained
  <2>4. CASE ~Disables(g)
    <3>1. enabled' = enabled /\ gen' = gen /\ nGen' = nGen
      BY <2>4, Zenon DEF Settle, TypeInv, TypeOK, GenTypeOK
    <3>2. queue'[g] = queue[g] /\ cancelled'[g] = cancelled[g]
      BY <2>4, Zenon DEF Settle, TypeInv, TypeOK, GenTypeOK, runVars
    <3> QED BY Zenon, <2>1, <2>2, <3>1, <3>2 DEF RetiredDrained
  <2> QED BY <2>3, <2>4, Zenon
<1>2. DisabledIdle'
  <2>1. gen # NoGen => gen \in Runners
    BY Bounds, RunnerSplit DEF TypeInv, TypeOK, GenTypeOK
  <2>2. pc' = [pc EXCEPT ![g] = "idle"] /\ gen' = gen /\ enabled' = (enabled /\ ~Disables(g))
    BY DEF Settle, Forget
  <2>3. Disables(g) => g = gen
    BY DEF Disables, Counts
  <2> QED BY <2>1, <2>2, <2>3, Zenon DEF DisabledIdle, TypeInv, TypeOK, GenTypeOK, RunTypeOK, stateVars, runVars, histVars
<1>3. FailureBudget'
  <2>1. gen' = gen
    BY DEF Settle
  <2>2. CASE Counts(g)
    <3>1. g = gen /\ enabled
      BY <2>2 DEF Counts, RetiredDrained
    <3>2. failures' = failures + 1 /\ enabled' = (failures + 1 < FailureLimit)
      BY <2>2, <3>1, Bounds DEF Settle, Disables
    <3> QED BY Zenon, <2>1, <3>1, <3>2 DEF FailureBudget
  <2>3. CASE ~Counts(g)
    <3>1. failures' = failures /\ enabled' = enabled
      BY <2>3, Zenon DEF Settle, Disables, TypeInv, TypeOK, GenTypeOK
    <3> QED BY <2>1, <3>1, Zenon DEF FailureBudget
  <2> QED BY <2>2, <2>3, Zenon
<1>4. OneDelivery'
  BY DEF OneDelivery, GenOf, Settle, Forget
<1> QED BY <1>1, <1>2, <1>3, <1>4

\* StartTest keeps RetiredDrained, DisabledIdle, FailureBudget and OneDelivery.
LEMMA StartTestSafe ==
  ASSUME TypeInv, SafeInv, NEW t \in Tests, StartTest(t)
  PROVE  SafeInv'
<1> USE DEF SafeInv
<1>1. RetiredDrained'
  BY SafeFrame, Zenon DEF StartTest, genVars, stateVars
<1>2. DisabledIdle'
  BY Zenon DEF DisabledIdle, StartTest, stateVars
<1>3. FailureBudget'
  BY SafeFrame, Zenon DEF StartTest, genVars, stateVars
<1>4. OneDelivery'
  BY DEF OneDelivery, GenOf, StartTest
<1> QED BY <1>1, <1>2, <1>3, <1>4, Zenon

\* Expire keeps RetiredDrained, DisabledIdle, FailureBudget and OneDelivery.
LEMMA ExpireSafe ==
  ASSUME TypeInv, SafeInv, NEW r \in Runners, Expire(r)
  PROVE  SafeInv'
<1> USE DEF SafeInv
<1>1. RetiredDrained'
  BY SafeFrame, Zenon DEF Expire, genVars, stateVars
<1>2. DisabledIdle'
  BY SafeFrame, Zenon DEF Expire, genVars, stateVars
<1>3. FailureBudget'
  BY SafeFrame, Zenon DEF Expire, genVars, stateVars
<1>4. OneDelivery'
  BY SafeFrame, Zenon DEF Expire
<1> QED BY <1>1, <1>2, <1>3, <1>4

\* Acquire keeps RetiredDrained, DisabledIdle, FailureBudget and OneDelivery.
LEMMA AcquireSafe ==
  ASSUME TypeInv, SafeInv, NEW r \in Runners, Acquire(r)
  PROVE  SafeInv'
<1> USE DEF SafeInv
<1>1. RetiredDrained'
  BY SafeFrame, Zenon DEF Acquire, genVars, stateVars
<1>2. DisabledIdle'
  <2>1. /\ pc[r] \notin {"idle", "exited"} /\ \A q \in Runners \ {r} : pc'[q] = pc[q]
        /\ UNCHANGED <<gen, enabled>>
    BY DEF Acquire, AfterFailure, TypeInv, TypeOK, RunTypeOK, genVars, stateVars
  <2>2. TypeInv /\ DisabledIdle
    BY Zenon
  <2> HIDE DEF TypeInv, SafeInv
  <2> QED BY <2>1, <2>2, IdleFrame, Zenon
<1>3. FailureBudget'
  BY SafeFrame DEF Acquire, genVars, stateVars
<1>4. OneDelivery'
  <2>1. UNCHANGED tgen /\ \A q \in Runners : GenOf(q)' = GenOf(q)
    BY Zenon DEF Acquire, GenOf
  <2>2. \A q \in Runners \ {r} : pc'[q] = pc[q]
    BY DEF Acquire, AfterFailure, TypeInv, TypeOK, RunTypeOK
  <2>3. CASE Active(GenOf(r))
    <3>1. sem' = [sem EXCEPT ![GenOf(r)] = r] /\ pc'[r] = "post" /\ sem[GenOf(r)] = Free
      BY <2>3 DEF Acquire, TypeInv, TypeOK, RunTypeOK
    <3>2. GenOf(r) \in Gens
      <4>1. CASE r \in Tests
        BY SMTT(30), <4>1 DEF GenOf, TypeInv, TypeOK, RunTypeOK, LoopInv, Acquire
      <4>2. CASE r \in Gens
        BY <4>2, RunnerSplit DEF GenOf
      <4> QED BY <4>1, <4>2, RunnerSplit, Zenon
    <3>3. Free \notin Runners
      BY WebhookAssumption DEF Runners
    <3>4. ASSUME NEW q \in Runners, pc'[q] \in {"post", "finish"} PROVE sem'[GenOf(q)] = q
      <4>1. CASE q = r
        BY <4>1, <3>1, <3>2, Zenon DEF TypeInv, TypeOK, GenTypeOK, warnVars
      <4>2. CASE q # r
        <5>1. sem[GenOf(q)] = q
          BY <2>2, <3>4, <4>2 DEF OneDelivery
        <5> QED BY <5>1, <3>1, <3>3 DEF runVars
      <4> QED BY <4>1, <4>2, Zenon
    <3> QED BY <2>1, <3>4, Zenon DEF OneDelivery
  <2>4. CASE ~Active(GenOf(r))
    <3>1. UNCHANGED sem /\ pc'[r] \in {"settle", "loop", "exited"}
      BY <2>4, Zenon DEF Acquire, AfterFailure, TypeInv, TypeOK, RunTypeOK
    <3> QED BY <2>1, <2>2, <3>1, Zenon DEF OneDelivery
  <2> QED BY <2>3, <2>4, Zenon
<1> QED BY <1>1, <1>2, <1>3, <1>4

\* AcquireCancelled keeps RetiredDrained, DisabledIdle, FailureBudget and OneDelivery.
LEMMA AcquireCancelledSafe ==
  ASSUME TypeInv, SafeInv, NEW r \in Runners, AcquireCancelled(r)
  PROVE  SafeInv'
<1> USE DEF SafeInv
<1>1. RetiredDrained'
  BY SafeFrame, Zenon DEF AcquireCancelled, genVars, stateVars
<1>2. DisabledIdle'
  <2>1. /\ pc[r] \notin {"idle", "exited"} /\ \A q \in Runners \ {r} : pc'[q] = pc[q]
        /\ UNCHANGED <<gen, enabled>>
    BY Zenon DEF AcquireCancelled, AfterFailure, TypeInv, TypeOK, RunTypeOK, genVars, stateVars
  <2>2. TypeInv /\ DisabledIdle
    OBVIOUS
  <2> HIDE DEF TypeInv, SafeInv
  <2> QED BY <2>1, <2>2, IdleFrame
<1>3. FailureBudget'
  BY SafeFrame, Zenon DEF AcquireCancelled, genVars, stateVars
<1>4. OneDelivery'
  BY DEF OneDelivery, GenOf, AcquireCancelled, AfterFailure, TypeInv, TypeOK, RunTypeOK
<1> QED BY <1>1, <1>2, <1>3, <1>4

\* Post keeps RetiredDrained, DisabledIdle, FailureBudget and OneDelivery.
LEMMA PostSafe ==
  ASSUME TypeInv, SafeInv, NEW r \in Runners, NEW o \in Outcomes, Post(r, o)
  PROVE  SafeInv'
<1> USE DEF SafeInv
<1>1. RetiredDrained'
  BY SafeFrame, Zenon DEF Post, genVars, stateVars
<1>2. DisabledIdle'
  <2>1. /\ pc[r] \notin {"idle", "exited"} /\ \A q \in Runners \ {r} : pc'[q] = pc[q]
        /\ UNCHANGED <<gen, enabled>>
    BY Zenon DEF Post, TypeInv, TypeOK, RunTypeOK, genVars, stateVars
  <2>2. TypeInv /\ DisabledIdle
    OBVIOUS
  <2> HIDE DEF TypeInv, SafeInv
  <2> QED BY <2>1, <2>2, IdleFrame
<1>3. FailureBudget'
  BY SafeFrame, Zenon DEF Post, genVars, stateVars
<1>4. OneDelivery'
  <2>1. pc[r] = "post" /\ UNCHANGED <<sem, tgen>>
    BY Zenon DEF Post
  <2>2. \A q \in Runners \ {r} : pc'[q] = pc[q]
    BY Zenon DEF Post, TypeInv, TypeOK, RunTypeOK
  <2>3. \A q \in Runners : GenOf(q)' = GenOf(q)
    BY <2>1 DEF GenOf
  <2>4. OneDelivery
    BY Zenon
  <2> HIDE DEF SafeInv
  <2> QED BY Zenon, <2>1, <2>2, <2>3, <2>4 DEF OneDelivery
<1> QED BY <1>1, <1>2, <1>3, <1>4

\* FinishOk keeps RetiredDrained, DisabledIdle, FailureBudget and OneDelivery.
LEMMA FinishOkSafe ==
  ASSUME TypeInv, SafeInv, NEW r \in Runners, FinishOk(r)
  PROVE  SafeInv'
<1> USE DEF SafeInv
<1>1. RetiredDrained'
  BY SafeFrame, Zenon DEF FinishOk, genVars
<1>2. DisabledIdle'
  <2>1. /\ pc[r] \notin {"idle", "exited"} /\ \A q \in Runners \ {r} : pc'[q] = pc[q]
        /\ UNCHANGED <<gen, enabled>>
    BY DEF FinishOk, Forget, TypeInv, TypeOK, RunTypeOK, genVars
  <2>2. TypeInv /\ DisabledIdle
    OBVIOUS
  <2> HIDE DEF TypeInv, SafeInv
  <2> QED BY <2>1, <2>2, IdleFrame
<1>3. FailureBudget'
  <2>1. gen' = gen /\ enabled' = enabled /\ failures' = IF OwnState(r) THEN 0 ELSE failures
    BY Zenon DEF FinishOk, genVars
  <2>2. CASE OwnState(r)
    <3>1. gen # NoGen => enabled
      BY <2>2 DEF OwnState, GenOf, DisabledIdle, FinishOk
    <3> QED BY <2>1, <2>2, <3>1, Bounds DEF FailureBudget
  <2>3. CASE ~OwnState(r)
    BY <2>1, <2>3 DEF FailureBudget
  <2> QED BY <2>2, <2>3, Zenon
<1>4. OneDelivery'
  <2>1. UNCHANGED tgen /\ \A q \in Runners : GenOf(q)' = GenOf(q)
    BY Zenon DEF FinishOk, GenOf
  <2>2. sem' = [sem EXCEPT ![GenOf(r)] = Free] /\ sem[GenOf(r)] = r
    BY DEF FinishOk, Release, OneDelivery
  <2>3. pc'[r] \in {"idle", "exited"} /\ \A q \in Runners \ {r} : pc'[q] = pc[q]
    BY Zenon DEF FinishOk, Forget, TypeInv, TypeOK, RunTypeOK
  <2>4. ASSUME NEW q \in Runners, pc'[q] \in {"post", "finish"} PROVE sem'[GenOf(q)] = q
    <3>1. q # r /\ sem[GenOf(q)] = q
      BY <2>3, <2>4, Zenon DEF OneDelivery
    <3>2. GenOf(q) # GenOf(r)
      BY <2>2, <3>1
    <3> QED BY <2>2, <3>1, <3>2
  <2> QED BY <2>1, <2>4, Zenon DEF OneDelivery
<1> QED BY <1>1, <1>2, <1>3, <1>4

\* FinishFail keeps RetiredDrained, DisabledIdle, FailureBudget and OneDelivery.
LEMMA FinishFailSafe ==
  ASSUME TypeInv, SafeInv, NEW r \in Runners, FinishFail(r)
  PROVE  SafeInv'
<1> USE DEF SafeInv
<1>1. RetiredDrained'
  BY SafeFrame, Zenon DEF FinishFail, genVars, stateVars
<1>2. DisabledIdle'
  <2>1. /\ pc[r] \notin {"idle", "exited"} /\ \A q \in Runners \ {r} : pc'[q] = pc[q]
        /\ UNCHANGED <<gen, enabled>>
    BY DEF FinishFail, AfterFailure, TypeInv, TypeOK, RunTypeOK, genVars, stateVars
  <2>2. TypeInv /\ DisabledIdle
    OBVIOUS
  <2> HIDE DEF TypeInv, SafeInv
  <2> QED BY <2>1, <2>2, IdleFrame
<1>3. FailureBudget'
  BY SafeFrame, Zenon DEF FinishFail, genVars, stateVars
<1>4. OneDelivery'
  BY SMTT(30) DEF OneDelivery, GenOf, FinishFail, AfterFailure, Release, TypeInv, TypeOK, RunTypeOK, genVars, stateVars, warnVars, msgVars, sourceVars, runVars, histVars
<1> QED BY <1>1, <1>2, <1>3, <1>4

\* Every step keeps the safety invariant: one case per action.
LEMMA SafeNext == TypeInv /\ SafeInv /\ [Next]_vars => SafeInv'
<1> SUFFICES ASSUME TypeInv, SafeInv, [Next]_vars PROVE SafeInv'
  OBVIOUS
<1>1. CASE \E u \in URLs, ev \in Selections : Configure(u, ev)
  BY <1>1, ConfigureSafe
<1>2. CASE Remove \/ ShutdownCancel \/ QueueRuntimeConnection
  BY <1>2, RemoveSafe, ShutdownCancelSafe, QueueRuntimeConnectionSafe
<1>3. CASE \E w \in Warnings : QueueRuntimeStorageWarning(w) \/ ClearStorageWarning(w)
  BY <1>3, QueueRuntimeStorageWarningSafe, ClearStorageWarningSafe
<1>4. CASE \E m \in Messages : Subscriber(m) \/ \E fits \in BOOLEAN : QueueRuntimeMessage(m, fits)
  BY <1>4, SubscriberSafe, QueueRuntimeMessageSafe, Zenon
<1>5. CASE \E g \in Gens : g <= nGen /\ WorkerStep(g)
  BY <1>5, DequeueSafe, WorkerExitSafe, LoopHeadSafe, SettleSafe DEF WorkerStep
<1>6. CASE \E t \in Tests : StartTest(t)
  BY <1>6, StartTestSafe, Zenon
<1>7. CASE \E r \in Runners : Expire(r) \/ AttemptStep(r)
  BY <1>7, ExpireSafe, AcquireSafe, AcquireCancelledSafe, PostSafe, FinishOkSafe, FinishFailSafe DEF AttemptStep
<1>8. CASE UNCHANGED vars
  BY Zenon, <1>8 DEF vars, genVars, stateVars, warnVars, msgVars, sourceVars, runVars, histVars,
              SafeInv, RetiredDrained, DisabledIdle, FailureBudget, OneDelivery, GenOf
<1> QED BY <1>1, <1>2, <1>3, <1>4, <1>5, <1>6, <1>7, <1>8 DEF Next

\* The safety invariant holds in every reachable state.
LEMMA SafeAlways == Spec => []SafeInv
<1>1. Init => TypeInv /\ SafeInv
  BY TypeInit, SafeInit
<1>2. TypeInv /\ SafeInv /\ [Next]_vars => (TypeInv /\ SafeInv)'
  BY TypeNext, SafeNext
<1> QED BY <1>1, <1>2, PTL DEF Spec

\* No event waits in the queue of a receiver that was replaced, removed or
\* disabled, whatever message handlers, PUTs and workers interleave.
THEOREM RetiredDrainedAlways == Spec => []RetiredDrained
<1>1. SafeInv => RetiredDrained
  BY DEF SafeInv
<1> QED BY <1>1, SafeAlways, PTL

\* A receiver is enabled exactly while its failure count is below the limit.
THEOREM FailureBudgetAlways == Spec => []FailureBudget
<1>1. SafeInv => FailureBudget
  BY DEF SafeInv
<1> QED BY <1>1, SafeAlways, PTL

\* The worker and the tests of one generation never POST at the same time.
THEOREM OneDeliveryAlways == Spec => []OneDelivery
<1>1. SafeInv => OneDelivery
  BY DEF SafeInv
<1> QED BY <1>1, SafeAlways, PTL
=============================================================================
