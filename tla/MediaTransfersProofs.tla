------------------------ MODULE MediaTransfersProofs ------------------------
(***************************************************************************)
(* For any number of callers of each kind, any file and any caps: what a   *)
(* caller that shares a transfer is refused with is its own cap or         *)
(* cancellation, or the starter's quota or deadline; the bytes of a sent   *)
(* file are kept, and nothing runs after Shutdown's wait.                  *)
(*                                                                         *)
(* The answers follow from what a published result says of the file and of *)
(* the transfer's starter (Results), and quiet after the wait from the     *)
(* destination having one transfer at a time (OneTransfer).                *)
(***************************************************************************)
EXTENDS MediaTransfers, TLAPS

TypeOK ==
  /\ size \in Nat /\ cached \in BOOLEAN
  /\ pc \in [Callers -> {"idle", "look", "do", "wait", "done"}]
  /\ on \in [Callers -> Callers \cup {None}]
  /\ got \in [Callers -> [err : Errors \cup {"none"}, starter : Callers \cup {None}]]
  /\ answer \in [Callers -> [err : Errors \cup {"none"}, gone : BOOLEAN, starter : Callers \cup {None}]]
  /\ inflight \in Callers \cup {None}
  /\ phase \in [Callers -> {"none", "gate", "fill"}]
  /\ expired \subseteq {p \in Downloads : HasDeadline(p)} /\ hungup \subseteq Downloads
  /\ stage \in {"up", "draining", "cancelled", "stopped", "waited"}

\* The destination is mapped to the one transfer that runs.
OneTransfer ==
  /\ \A s \in Callers : phase[s] # "none" => inflight = s
  /\ inflight # None => phase[inflight] # "none"

\* A result published to a waiter is true of the file and of the transfer.
True(res) ==
  /\ res.err = "ok" => cached
  /\ res.err = "limit" => res.starter \in Callers /\ Over(res.starter)
  /\ res.err \in {"quota", "quotaBusy"} => res.starter \in Callers /\ res.err \in QuotaRefusals(res.starter)
  /\ res.err = "deadline" => res.starter \in Downloads /\ HasDeadline(res.starter)
  /\ res.err = "cancelled" => Lifecycle
Results == \A p \in Callers : True(got[p])

IInv == TypeOK /\ OneTransfer /\ Results /\ RefusalsExplained /\ SentBytesKept /\ QuietAfterWait
-----------------------------------------------------------------------------
(* Stages, contexts and limits *)

LEMMA StageFacts ==
  ASSUME TypeOK
  PROVE  /\ Lifecycle <=> stage \in {"cancelled", "stopped", "waited"}
         /\ Stopped <=> stage \in {"stopped", "waited"}
  BY DEF TypeOK, Lifecycle, Stopped, Reached, Stages

\* The lifecycle is never taken back.
LEMMA StageSteps ==
  ASSUME TypeOK,
         stage' = stage \/ (stage = "up" /\ stage' = "draining") \/ (stage = "draining" /\ stage' = "cancelled")
         \/ (stage = "cancelled" /\ stage' = "stopped") \/ (stage = "stopped" /\ stage' = "waited")
  PROVE  Lifecycle => Lifecycle'
<1>1. Lifecycle' <=> stage' \in {"cancelled", "stopped", "waited"}
  BY DEF TypeOK, Lifecycle, Reached, Stages
<1> QED BY <1>1, StageFacts

LEMMA LimitFacts ==
  ASSUME NEW p \in Callers
  PROVE  /\ Limit(p) \in Nat
         /\ p = Job => Limit(p) = 0 /\ ~Automatic(p)
         /\ p \in Manual => Limit(p) = 0 /\ ~Automatic(p)
         /\ Automatic(p) => Limit(p) = AutoCap
  BY MediaAssumption DEF Limit, Automatic, Callers, Downloads

-----------------------------------------------------------------------------
(* Answers *)

\* What an answer to p may say of the file, the caps, the contexts and the starter.
Fits(p, err, gone, starter) ==
  /\ p \in Downloads =>
       /\ err = "ok" /\ Limit(p) > 0 => size <= Limit(p)
       /\ err = "limit" => Over(p) \/ gone \/ (Automatic(p) /\ AutoCap = 0)
       /\ err \in {"quota", "quotaBusy"} => /\ starter \in Callers /\ err \in QuotaRefusals(starter)
                                            /\ p \in Manual => gone
  /\ err = "deadline" => starter \in Downloads /\ HasDeadline(starter)
  /\ err = "cancelled" => gone \/ Lifecycle

LEMMA AnswersFit == RefusalsExplained <=> \A p \in Callers : Fits(p, answer[p].err, answer[p].gone, answer[p].starter)
  BY DEF RefusalsExplained, CapHonoured, SizeIsOwn, QuotaIsStarters, DeadlineIsStarters, CancelledByOwnContext, Fits, Callers

\* Retries and Outcome turn a result that is true of its starter into an answer that is
\* true of the caller.
LEMMA OutcomeFits ==
  ASSUME TypeOK, NEW p \in Callers, NEW res \in [err : Errors \cup {"none"}, starter : Callers \cup {None}],
         res.err = "limit" => res.starter \in Callers /\ Over(res.starter),
         res.err \in {"quota", "quotaBusy"} => res.starter \in Callers /\ res.err \in QuotaRefusals(res.starter),
         res.err = "deadline" => res.starter \in Downloads /\ HasDeadline(res.starter),
         res.err = "cancelled" => CtxDone(p) \/ Lifecycle,
         p # Job => ~Retries(p, res)
  PROVE  Fits(p, Outcome(p, res), CtxDone(p), res.starter)
<1>1. Limit(p) \in Nat /\ size \in Nat BY LimitFacts DEF TypeOK
<1>2. Outcome(p, res) = "ok" /\ Limit(p) > 0 => size <= Limit(p)
  BY <1>1 DEF Outcome, Over
<1>3. Outcome(p, res) = "cancelled" => CtxDone(p) \/ Lifecycle
  BY DEF Outcome
<1>4. ASSUME p \in Downloads, Outcome(p, res) = "limit", ~CtxDone(p)
      PROVE  Over(p) \/ (Automatic(p) /\ AutoCap = 0)
  <2>1. p # Job BY <1>4, MediaAssumption
  <2>2. CASE res.err = "ok" BY <1>4, <2>2 DEF Outcome
  <2>3. CASE res.err # "ok"
    <3>1. res.err = "limit" BY <1>4, <2>3 DEF Outcome
    <3>2. res.starter \in Callers /\ Over(res.starter) /\ res.starter # None BY <3>1, MediaAssumption
    <3>3. SharedCap(res) = Limit(res.starter) /\ SharedCap(res) \in Nat
      BY <3>1, <3>2, LimitFacts DEF SharedCap
    <3>4. SharedCap(res) > 0 /\ size > SharedCap(res) BY <3>2, <3>3 DEF Over
    <3>5. ~(Limit(p) > SharedCap(res)) /\ ~(Limit(p) = 0 /\ ~Automatic(p))
      BY <1>4, <2>1, <3>4 DEF Retries
    <3>6. CASE Limit(p) = 0 BY <3>5, <3>6, LimitFacts
    <3>7. CASE Limit(p) # 0 BY <1>1, <3>3, <3>4, <3>5, <3>7 DEF Over
    <3> QED BY <3>6, <3>7
  <2> QED BY <2>2, <2>3
<1>5. ASSUME p \in Manual, Outcome(p, res) \in {"quota", "quotaBusy"} PROVE CtxDone(p)
  <2>1. p # Job BY <1>5, MediaAssumption DEF Downloads
  <2> QED BY <1>5, <2>1, LimitFacts DEF Retries
<1>6. Outcome(p, res) = res.err \/ Outcome(p, res) = "limit" BY DEF Outcome
<1> QED BY <1>2, <1>3, <1>4, <1>5, <1>6 DEF Fits
-----------------------------------------------------------------------------
(* Steps *)

\* A caller leaves with an answer that fits; the job leaves only when its file is safe.
LEMMA ReturnKeeps ==
  ASSUME IInv, NEW p \in Callers, NEW err \in Errors \cup {"none"}, NEW starter \in Callers \cup {None}, Return(p, err, starter),
         UNCHANGED <<size, cached, inflight, phase, stage>>,
         Fits(p, err, CtxDone(p), starter), p = Job => cached \/ Lifecycle \/ starter = Job
  PROVE  IInv'
<1>1. TypeOK /\ OneTransfer /\ Results /\ RefusalsExplained /\ SentBytesKept /\ QuietAfterWait BY DEF IInv
<1>2. CtxDone(p) \in BOOLEAN BY DEF CtxDone
<1>3. /\ answer' = [answer EXCEPT ![p] = [err |-> err, gone |-> CtxDone(p), starter |-> starter]]
      /\ pc' = [pc EXCEPT ![p] = "done"] /\ got' = [got EXCEPT ![p] = NoResult]
      /\ on' = [on EXCEPT ![p] = None] /\ hungup' \subseteq hungup /\ expired' \subseteq expired
  BY DEF Return
<1> DEFINE gone == CtxDone(p)
<1> HIDE DEF gone
<1>4. answer' = [answer EXCEPT ![p] = [err |-> err, gone |-> gone, starter |-> starter]] /\ gone \in BOOLEAN
      /\ Fits(p, err, gone, starter)
  BY <1>2, <1>3 DEF gone
<1>5. TypeOK'
  <2>1. answer' \in [Callers -> [err : Errors \cup {"none"}, gone : BOOLEAN, starter : Callers \cup {None}]]
    BY <1>1, <1>4 DEF TypeOK
  <2>2. got' \in [Callers -> [err : Errors \cup {"none"}, starter : Callers \cup {None}]]
    BY <1>1, <1>3 DEF TypeOK, NoResult
  <2> QED BY <1>1, <1>3, <2>1, <2>2 DEF TypeOK
<1>6. Lifecycle' <=> Lifecycle BY DEF Lifecycle, Reached
<1>7. \A q \in Callers : Over(q)' <=> Over(q) BY DEF Over
<1>8. OneTransfer' /\ QuietAfterWait' BY <1>1 DEF OneTransfer, QuietAfterWait
<1>9. Results'
  <2>1. \A q \in Callers : got'[q] = got[q] \/ got'[q] = NoResult BY <1>1, <1>3 DEF TypeOK
  <2> QED BY <1>1, <1>6, <1>7, <2>1 DEF Results, True, NoResult
<1>10. RefusalsExplained'
  <2>1. \A q \in Callers : Fits(q, answer'[q].err, answer'[q].gone, answer'[q].starter)
    <3> SUFFICES ASSUME NEW q \in Callers PROVE Fits(q, answer'[q].err, answer'[q].gone, answer'[q].starter) OBVIOUS
    <3>1. CASE q = p
      <4>1. answer'[q].err = err /\ answer'[q].gone = gone /\ answer'[q].starter = starter BY <1>1, <1>4, <3>1 DEF TypeOK
      <4> QED BY <1>4, <3>1, <4>1
    <3>2. CASE q # p
      <4>1. answer'[q] = answer[q] BY <1>1, <1>4, <3>2 DEF TypeOK
      <4> QED BY <1>1, <4>1, AnswersFit
    <3> QED BY <3>1, <3>2
  <2> QED BY <1>6, <1>7, <2>1 DEF RefusalsExplained, CapHonoured, SizeIsOwn, QuotaIsStarters, DeadlineIsStarters, CancelledByOwnContext, Fits, Callers
<1>11. SentBytesKept'
  <2>1. CASE p = Job
    <3>1. answer'[Job].starter = starter BY <1>1, <1>4, <2>1 DEF TypeOK
    <3> QED BY <1>6, <2>1, <3>1 DEF SentBytesKept
  <2>2. CASE p # Job
    <3>1. answer'[Job] = answer[Job] /\ pc'[Job] = pc[Job] BY <1>1, <1>3, <1>4, <2>2 DEF TypeOK, Callers
    <3> QED BY <1>1, <1>6, <3>1 DEF SentBytesKept
  <2> QED BY <2>1, <2>2
<1> QED BY <1>5, <1>8, <1>9, <1>10, <1>11 DEF IInv

\* A caller moves on before it has an answer.
LEMMA MoveKeeps ==
  ASSUME IInv, NEW p \in Callers, NEW w \in {"look", "do", "wait"}, pc' = [pc EXCEPT ![p] = w],
         on' \in [Callers -> Callers \cup {None}], got' = got \/ got' = [got EXCEPT ![p] = NoResult],
         UNCHANGED <<size, cached, answer, inflight, phase, expired, hungup, stage>>
  PROVE  IInv'
<1>1. TypeOK /\ OneTransfer /\ Results /\ RefusalsExplained /\ SentBytesKept /\ QuietAfterWait BY DEF IInv
<1>2. TypeOK' BY <1>1 DEF TypeOK, NoResult
<1>3. Lifecycle' <=> Lifecycle BY DEF Lifecycle, Reached
<1>4. \A q \in Callers : Over(q)' <=> Over(q) BY DEF Over
<1>5. OneTransfer' /\ QuietAfterWait' BY <1>1 DEF OneTransfer, QuietAfterWait
<1>6. Results'
  <2>1. \A q \in Callers : got'[q] = got[q] \/ got'[q] = NoResult BY <1>1 DEF TypeOK
  <2> QED BY <1>1, <1>3, <1>4, <2>1 DEF Results, True, NoResult
<1>7. RefusalsExplained'
  BY <1>1, <1>3, <1>4 DEF RefusalsExplained, CapHonoured, SizeIsOwn, QuotaIsStarters, DeadlineIsStarters, CancelledByOwnContext, Callers
<1>8. SentBytesKept'
  <2>1. pc'[Job] = "done" => pc[Job] = "done" BY <1>1 DEF TypeOK, Callers
  <2> QED BY <1>1, <1>3, <2>1 DEF SentBytesKept
<1> QED BY <1>2, <1>5, <1>6, <1>7, <1>8 DEF IInv

\* What a caller does with the result of do.
LEMMA SettleKeeps ==
  ASSUME IInv, NEW p \in Callers, NEW res \in [err : Errors \cup {"none"}, starter : Callers \cup {None}],
         res.err = "ok" => cached,
         res.err = "limit" => res.starter \in Callers /\ Over(res.starter),
         res.err \in {"quota", "quotaBusy"} => res.starter \in Callers /\ res.err \in QuotaRefusals(res.starter),
         res.err = "deadline" => res.starter \in Downloads /\ HasDeadline(res.starter),
         res.err = "cancelled" => CtxDone(p) \/ Lifecycle,
         Settle(p, res), UNCHANGED <<size, cached, inflight, phase, stage>>
  PROVE  IInv'
<1>1. TypeOK BY DEF IInv
<1>2. CASE (p = Job /\ JobRetries(res)) \/ (p # Job /\ Retries(p, res))
  <2>1. Again(p) BY <1>2 DEF Settle
  <2>2. on' \in [Callers -> Callers \cup {None}] BY <1>1, <2>1 DEF Again, TypeOK
  <2> QED BY <2>1, <2>2, MoveKeeps, Zenon DEF Again, ctxVars
<1>3. CASE ~((p = Job /\ JobRetries(res)) \/ (p # Job /\ Retries(p, res)))
  <2>1. Return(p, Outcome(p, res), res.starter) BY <1>3 DEF Settle
  <2>2. Outcome(p, res) \in Errors \cup {"none"} BY DEF Outcome, Errors
  <2>3. Fits(p, Outcome(p, res), CtxDone(p), res.starter) BY <1>1, <1>3, OutcomeFits
  <2>4. p = Job => cached \/ Lifecycle \/ res.starter = Job BY <1>3 DEF JobRetries
  <2>5. res.starter \in Callers \cup {None} OBVIOUS
  <2> QED BY <2>1, <2>2, <2>3, <2>4, <2>5, ReturnKeeps, Zenon
<1> QED BY <1>2, <1>3

\* The one transfer ends and tells its waiters the truth.
LEMMA PublishKeeps ==
  ASSUME IInv, NEW s \in Callers, phase[s] # "none", NEW err \in Errors, Publish(s, err),
         cached => cached', cached' \in BOOLEAN, err = "ok" => cached', err = "limit" => Over(s),
         err \in {"quota", "quotaBusy"} => err \in QuotaRefusals(s),
         err = "deadline" => s \in Downloads /\ HasDeadline(s), err = "cancelled" => Lifecycle,
         UNCHANGED <<size, stage>>
  PROVE  IInv'
<1>1. TypeOK /\ OneTransfer /\ Results /\ RefusalsExplained /\ SentBytesKept /\ QuietAfterWait BY DEF IInv
<1>2. /\ phase' = [phase EXCEPT ![s] = "none"] /\ inflight' = None /\ UNCHANGED <<pc, on, answer, hungup>>
      /\ got' = [p \in Callers |-> IF on[p] = s /\ pc[p] = "wait" /\ got[p] = NoResult
                                   THEN [err |-> err, starter |-> s] ELSE got[p]]
      /\ expired' \subseteq expired
  BY DEF Publish
<1>3. TypeOK' BY <1>1, <1>2 DEF TypeOK
<1>4. Lifecycle' <=> Lifecycle BY DEF Lifecycle, Reached
<1>5. \A q \in Callers : Over(q)' <=> Over(q) BY DEF Over
<1>6. \A q \in Callers : phase'[q] = "none" BY <1>1, <1>2 DEF TypeOK, OneTransfer
<1>7. OneTransfer' /\ QuietAfterWait' BY <1>2, <1>6 DEF OneTransfer, QuietAfterWait
<1>8. Results'
  <2>1. \A q \in Callers : got'[q] = got[q] \/ got'[q] = [err |-> err, starter |-> s] BY <1>2
  <2> QED BY <1>1, <1>4, <1>5, <2>1 DEF Results, True
<1>9. RefusalsExplained'
  BY <1>1, <1>2, <1>4, <1>5, Zenon DEF RefusalsExplained, CapHonoured, SizeIsOwn, QuotaIsStarters, DeadlineIsStarters, CancelledByOwnContext, Callers
<1>10. SentBytesKept' BY <1>1, <1>2, <1>4 DEF SentBytesKept
<1> QED BY <1>3, <1>7, <1>8, <1>9, <1>10 DEF IInv

\* Contexts, the gate, the sender and the stages of Shutdown.
LEMMA OtherKeeps ==
  ASSUME IInv, UNCHANGED <<size, cached, on, got, answer, inflight, phase>>,
         pc' = pc \/ pc' = [pc EXCEPT ![Job] = "do"],
         expired' \subseteq {p \in Downloads : HasDeadline(p)}, hungup' \subseteq Downloads,
         \/ stage' = stage
         \/ stage = "up" /\ stage' = "draining"
         \/ stage = "draining" /\ stage' = "cancelled"
         \/ stage = "cancelled" /\ stage' = "stopped"
         \/ stage = "stopped" /\ stage' = "waited" /\ \A s \in Callers : phase[s] = "none"
  PROVE  IInv'
<1>1. TypeOK /\ OneTransfer /\ Results /\ RefusalsExplained /\ SentBytesKept /\ QuietAfterWait BY DEF IInv
<1>2. Lifecycle => Lifecycle' BY <1>1, StageSteps
<1>3. TypeOK' BY <1>1 DEF TypeOK
<1>4. \A q \in Callers : Over(q)' <=> Over(q) BY DEF Over
<1>5. OneTransfer' BY <1>1 DEF OneTransfer
<1>6. QuietAfterWait' BY <1>1 DEF OneTransfer, QuietAfterWait, TypeOK
<1>7. Results' BY <1>1, <1>2, <1>4 DEF Results, True
<1>8. RefusalsExplained'
  BY <1>1, <1>2, <1>4 DEF RefusalsExplained, CapHonoured, SizeIsOwn, QuotaIsStarters, DeadlineIsStarters, CancelledByOwnContext, Callers
<1>9. SentBytesKept'
  <2>1. pc'[Job] = "done" => pc[Job] = "done" BY <1>1 DEF TypeOK, Callers
  <2> QED BY <1>1, <1>2, <2>1 DEF SentBytesKept
<1> QED BY <1>3, <1>5, <1>6, <1>7, <1>8, <1>9 DEF IInv

\* do: refused, joined or started, and one transfer at a time.
LEMMA DoKeeps == ASSUME IInv, NEW p \in Callers, Do(p) PROVE IInv'
<1>1. TypeOK /\ OneTransfer /\ QuietAfterWait BY DEF IInv
<1>2. UNCHANGED <<size, cached, stage>> BY DEF Do
<1>3. CASE Refuses /\ Settle(p, Refused) /\ UNCHANGED groupVars
  <2>1. Lifecycle BY <1>1, <1>3, StageFacts DEF Refuses
  <2>2. Refused \in [err : Errors \cup {"none"}, starter : Callers \cup {None}] BY DEF Refused, Errors
  <2>3. Refused.err = "cancelled" BY DEF Refused
  <2> QED BY <1>2, <1>3, <2>1, <2>2, <2>3, SettleKeeps DEF groupVars
<1>4. CASE ~Refuses /\ Running(p)
  <2>1. pc' = [pc EXCEPT ![p] = "wait"] /\ on' = [on EXCEPT ![p] = inflight]
        /\ UNCHANGED <<inflight, phase, got, answer, expired, hungup>>
    BY <1>4 DEF Do, groupVars, ctxVars
  <2>2. on' \in [Callers -> Callers \cup {None}] BY <1>1, <2>1 DEF TypeOK
  <2> QED BY <1>2, <2>1, <2>2, MoveKeeps, Zenon
<1>5. CASE ~Refuses /\ ~Running(p)
  <2>1. /\ pc' = [pc EXCEPT ![p] = "wait"] /\ on' = [on EXCEPT ![p] = p] /\ inflight' = p
        /\ phase' = [phase EXCEPT ![p] = "gate"] /\ UNCHANGED <<got, answer, expired, hungup>>
    BY <1>5 DEF Do, ctxVars
  <2>2. inflight = None /\ stage # "waited" BY <1>1, <1>5, StageFacts DEF Running, Refuses
  <2>3. \A s \in Callers : phase[s] = "none" BY <1>1, <2>2, MediaAssumption DEF OneTransfer
  <2>4. TypeOK' BY <1>1, <1>2, <2>1 DEF TypeOK
  <2>5. OneTransfer' BY <1>1, <2>1, <2>3 DEF OneTransfer, TypeOK
  <2>6. QuietAfterWait' BY <1>2, <2>2 DEF QuietAfterWait
  <2>7. Lifecycle' <=> Lifecycle BY <1>2 DEF Lifecycle, Reached
  <2>8. \A q \in Callers : Over(q)' <=> Over(q) BY <1>2 DEF Over
  <2>9. Results' BY <1>2, <2>1, <2>7, <2>8, Zenon DEF IInv, Results, True
  <2>10. RefusalsExplained'
    BY <2>1, <2>7, <2>8, <1>2 DEF IInv, RefusalsExplained, CapHonoured, SizeIsOwn, QuotaIsStarters, DeadlineIsStarters, CancelledByOwnContext, Callers
  <2>11. SentBytesKept'
    <3>1. pc'[Job] = "done" => pc[Job] = "done" BY <1>1, <2>1, Zenon DEF TypeOK, Callers
    <3> QED BY <1>2, <2>1, <2>7, <3>1 DEF IInv, SentBytesKept
  <2> QED BY <2>4, <2>5, <2>6, <2>9, <2>10, <2>11 DEF IInv
<1> QED BY <1>3, <1>4, <1>5 DEF Do

\* Waiting callers wake with the result or with their own context.
LEMMA WakeKeeps == ASSUME IInv, NEW p \in Callers, Wake(p) PROVE IInv'
<1>1. UNCHANGED <<size, cached, inflight, phase, stage>> BY DEF Wake, groupVars
<1>2. CASE Settle(p, got[p])
  <2>1. /\ got[p] \in [err : Errors \cup {"none"}, starter : Callers \cup {None}]
        /\ got[p].err = "ok" => cached
        /\ got[p].err = "limit" => got[p].starter \in Callers /\ Over(got[p].starter)
        /\ got[p].err \in {"quota", "quotaBusy"} => /\ got[p].starter \in Callers
                                                   /\ got[p].err \in QuotaRefusals(got[p].starter)
        /\ got[p].err = "deadline" => got[p].starter \in Downloads /\ HasDeadline(got[p].starter)
        /\ got[p].err = "cancelled" => Lifecycle
    BY DEF IInv, TypeOK, Results, True
  <2> QED BY <1>1, <1>2, <2>1, SettleKeeps
<1>3. CASE CtxDone(p) /\ Settle(p, Refused)
  <2>1. Refused \in [err : Errors \cup {"none"}, starter : Callers \cup {None}] /\ Refused.err = "cancelled"
    BY DEF Refused, Errors
  <2> QED BY <1>1, <1>3, <2>1, SettleKeeps
<1> QED BY <1>2, <1>3, Zenon DEF Wake

\* Entering, and the cache lookup.
LEMMA EnterKeeps == ASSUME IInv, NEW p \in Downloads, Enter(p) \/ Lookup(p) PROVE IInv'
<1>1. TypeOK /\ p \in Callers /\ p # Job BY MediaAssumption DEF IInv, Callers
<1>2. UNCHANGED <<size, cached, inflight, phase, stage>> BY Zenon DEF Enter, Lookup, groupVars
<1>3. CASE \E w \in {"look", "do"} : pc' = [pc EXCEPT ![p] = w] /\ UNCHANGED <<on, got, answer, ctxVars>>
  <2>1. on' \in [Callers -> Callers \cup {None}] BY <1>1, <1>3 DEF TypeOK
  <2> QED BY <1>1, <1>2, <1>3, <2>1, MoveKeeps, Zenon DEF ctxVars
<1>4. CASE Return(p, "failed", None)
  BY <1>1, <1>2, <1>4, ReturnKeeps, Zenon DEF Fits, Errors
<1>5. CASE Return(p, IF Over(p) THEN "limit" ELSE "ok", None)
  <2>1. CASE Over(p)
    <3>1. Return(p, "limit", None) BY <1>5, <2>1, Zenon
    <3>2. Fits(p, "limit", CtxDone(p), None) BY <2>1 DEF Fits
    <3>3. "limit" \in Errors \cup {"none"} /\ None \in Callers \cup {None} BY DEF Errors
    <3> QED BY <1>1, <1>2, <3>1, <3>2, <3>3, ReturnKeeps, Zenon
  <2>2. CASE ~Over(p)
    <3>1. Return(p, "ok", None) BY <1>5, <2>2, Zenon
    <3>2. Limit(p) \in Nat /\ size \in Nat BY <1>1, LimitFacts DEF TypeOK
    <3>3. Fits(p, "ok", CtxDone(p), None) BY <2>2, <3>2 DEF Fits, Over
    <3>4. "ok" \in Errors \cup {"none"} /\ None \in Callers \cup {None} BY DEF Errors
    <3> QED BY <1>1, <1>2, <3>1, <3>3, <3>4, ReturnKeeps, Zenon
  <2> QED BY <2>1, <2>2
<1> QED BY <1>3, <1>4, <1>5, Zenon DEF Enter, Lookup

\* The transfer goroutine.
LEMMA TransferKeeps == ASSUME IInv, NEW s \in Callers, AdmitTransfer(s) \/ Fill(s) \/ Abort(s) PROVE IInv'
<1>1. TypeOK /\ OneTransfer BY DEF IInv
<1>2. CASE AdmitTransfer(s)
  <2>1. phase[s] # "none" /\ UNCHANGED <<size, cached, stage>> /\ cached \in BOOLEAN
    BY <1>1, <1>2 DEF AdmitTransfer, TypeOK
  <2>2. CASE \E err \in {"busy", "failed"} \cup QuotaRefusals(s) : Publish(s, err)
    <3>1. PICK err \in {"busy", "failed"} \cup QuotaRefusals(s) : Publish(s, err) BY <2>2
    <3>2. err \in {"busy", "failed", "quota", "quotaBusy"} BY DEF QuotaRefusals
    <3> QED BY <2>1, <3>1, <3>2, PublishKeeps DEF Errors
  <2>3. CASE cached /\ Publish(s, "ok")
    BY <2>1, <2>3, PublishKeeps DEF Errors
  <2>4. CASE phase' = [phase EXCEPT ![s] = "fill"] /\ UNCHANGED <<inflight, callVars, ctxVars>>
    <3>1. inflight = s BY <1>1, <2>1 DEF OneTransfer
    <3>2. TypeOK' BY <1>1, <2>1, <2>4 DEF TypeOK, callVars, ctxVars
    <3>3. OneTransfer' BY <1>1, <2>1, <2>4, <3>1 DEF OneTransfer, TypeOK
    <3>4. QuietAfterWait' BY <2>1, <2>4 DEF IInv, QuietAfterWait
    <3>5. Lifecycle' <=> Lifecycle BY <2>1 DEF Lifecycle, Reached
    <3>6. \A q \in Callers : Over(q)' <=> Over(q) BY <2>1, Zenon DEF Over
    <3>7. Results' BY <2>1, <2>4, <3>5, <3>6, Zenon DEF IInv, Results, True, callVars
    <3>8. RefusalsExplained'
      BY <2>1, <2>4, <3>5, <3>6 DEF IInv, callVars, RefusalsExplained, CapHonoured, SizeIsOwn, QuotaIsStarters, DeadlineIsStarters,
                                    CancelledByOwnContext, Callers
    <3>9. SentBytesKept' BY <2>1, <2>4, <3>5 DEF IInv, callVars, SentBytesKept
    <3> QED BY <3>2, <3>3, <3>4, <3>7, <3>8, <3>9 DEF IInv
  <2> QED BY <1>2, <2>2, <2>3, <2>4, Zenon DEF AdmitTransfer
<1>3. CASE Fill(s)
  <2>1. phase[s] # "none" /\ UNCHANGED <<size, stage>> BY <1>3 DEF Fill
  <2>2. CASE cached' = TRUE /\ Publish(s, "ok") BY <2>1, <2>2, PublishKeeps DEF Errors
  <2>3. CASE Over(s) /\ cached' = cached /\ \E err \in {"limit"} \cup (QuotaRefusals(s) \cap {"quota"}) : Publish(s, err)
    <3>1. PICK err \in {"limit"} \cup (QuotaRefusals(s) \cap {"quota"}) : Publish(s, err) BY <2>3
    <3> QED BY <1>1, <2>1, <2>3, <3>1, PublishKeeps DEF Errors, TypeOK
  <2>4. CASE cached' = cached /\ Publish(s, "failed")
    BY <1>1, <2>1, <2>4, PublishKeeps DEF Errors, TypeOK
  <2> QED BY <1>3, <2>2, <2>3, <2>4, Zenon DEF Fill
<1>4. CASE Abort(s)
  <2>1. phase[s] # "none" /\ UNCHANGED <<size, cached, stage>> /\ cached \in BOOLEAN
    BY <1>1, <1>4 DEF Abort, TypeOK
  <2>2. CASE s \in expired
    <3>1. Publish(s, "deadline") /\ s \in Downloads /\ HasDeadline(s) BY <1>1, <1>4, <2>2 DEF Abort, TypeOK
    <3> QED BY <2>1, <3>1, PublishKeeps DEF Errors
  <2>3. CASE s \notin expired
    <3>1. Publish(s, "cancelled") /\ Lifecycle BY <1>4, <2>3 DEF Abort, TransferDone
    <3> QED BY <2>1, <3>1, PublishKeeps DEF Errors
  <2> QED BY <2>2, <2>3
<1> QED BY <1>2, <1>3, <1>4
-----------------------------------------------------------------------------
(* The results *)

LEMMA InitInv == Init => IInv
<1> SUFFICES ASSUME Init PROVE IInv OBVIOUS
<1>1. size \in Nat BY MediaAssumption DEF Init
<1>2. TypeOK BY <1>1, Zenon DEF Init, TypeOK, NoResult
<1>3. OneTransfer /\ QuietAfterWait BY DEF Init, OneTransfer, QuietAfterWait
<1>4. Results BY DEF Init, Results, True, NoResult
<1>5. RefusalsExplained
  BY DEF Init, RefusalsExplained, CapHonoured, SizeIsOwn, QuotaIsStarters, DeadlineIsStarters, CancelledByOwnContext, Callers
<1>6. SentBytesKept BY DEF Init, SentBytesKept, Callers
<1> QED BY <1>2, <1>3, <1>4, <1>5, <1>6 DEF IInv

LEMMA StepInv == IInv /\ [Next]_vars => IInv'
<1> SUFFICES ASSUME IInv, [Next]_vars PROVE IInv' OBVIOUS
<1>1. TypeOK BY DEF IInv
<1>2. CASE \E p \in Downloads : Enter(p) \/ Lookup(p) BY <1>2, EnterKeeps
<1>3. CASE \E p \in Downloads : Expire(p) \/ HangUp(p)
  BY <1>1, <1>3, OtherKeeps DEF Expire, HangUp, callVars, groupVars, TypeOK
<1>4. CASE \E p \in Callers : Do(p) \/ Wake(p) BY <1>4, DoKeeps, WakeKeeps
<1>5. CASE \E s \in Callers : AdmitTransfer(s) \/ Fill(s) \/ Abort(s) BY <1>5, TransferKeeps, Zenon
<1>6. CASE QueueWriter \/ LockWriter \/ UnlockWriter \/ Park \/ Send \/ Sent
  BY <1>1, <1>6, OtherKeeps, Zenon DEF QueueWriter, LockWriter, UnlockWriter, Park, Send, Sent,
                               callVars, groupVars, ctxVars, TypeOK
<1>7. CASE StopRequests \/ CancelLifecycle \/ StopTransfers \/ WaitTransfers
  BY <1>1, <1>7, OtherKeeps DEF StopRequests, CancelLifecycle, StopTransfers, WaitTransfers, Drained,
                               callVars, groupVars, ctxVars, TypeOK
<1>8. CASE UNCHANGED vars
  BY <1>1, <1>8, OtherKeeps DEF vars, TypeOK
<1> QED BY <1>2, <1>3, <1>4, <1>5, <1>6, <1>7, <1>8 DEF Next

LEMMA Invariant == Spec => []IInv
BY InitInv, StepInv, PTL DEF Spec

\* Whoever shares a transfer of mediaTransferGroup is held to its own cap and its own
\* cancellation; a quota refusal comes from an automatic starter and never reaches a
\* manual download, and a deadline is that of a starter that has one.
THEOREM RefusalsHaveReasons == Spec => []RefusalsExplained
<1>1. IInv => RefusalsExplained BY DEF IInv
<1> QED BY <1>1, Invariant, PTL

\* The "sent-cache:" job of cacheOutboundMedia never ends on somebody else's failed
\* download while the bridge runs.
THEOREM SentBytes == Spec => []SentBytesKept
<1>1. IInv => SentBytesKept BY DEF IInv
<1> QED BY <1>1, Invariant, PTL

\* When mediaTransferGroup.wait has returned after stop, no transfer runs, and none can
\* start: the store may be closed.
THEOREM Quiet == Spec => []QuietAfterWait
<1>1. IInv => QuietAfterWait BY DEF IInv
<1> QED BY <1>1, Invariant, PTL
=============================================================================
