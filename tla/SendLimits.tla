----------------------------- MODULE SendLimits -----------------------------
(***************************************************************************)
(* The outbound send budget (send_limits.go and its callers in send.go).   *)
(*                                                                         *)
(* A request reserves its budget in one transaction before it touches the  *)
(* network: messages per day, new chats per day, a token bucket per minute *)
(* and a minimum interval.  A send that provably did not happen is         *)
(* refunded from its request-local receipt; an uncertain one is not.       *)
(* Requests interleave, the day turns, settings change, the database fails *)
(* and the process crashes between the steps.  Times are ticks; tokens are *)
(* scaled by the ticks of a minute so that a refill is a whole number.     *)
(***************************************************************************)
EXTENDS Integers, Sequences, FiniteSets

CONSTANTS
  Requests,     \* concurrent REST requests
  Ops,          \* what they ask: [targets : Seq(JIDs), receipt : BOOLEAN]
  Twin(_),      \* the other address, PN or LID, of a JID; itself if it has none
  Inbox,        \* bound: JIDs that write to us
  Settings,     \* the limits an operator may set, 0 is off
  Minute, Day,  \* ticks of a minute and of a day
  MaxNow,       \* bound: clock
  MaxSends,     \* bound: reservations
  MaxFault,     \* bound: failing transactions and crashes
  MaxSet        \* bound: changes of the settings

Elems(s)  == {s[i] : i \in DOMAIN s}
JIDs      == UNION {Elems(o.targets) : o \in Ops}
Chat(jid) == {jid, Twin(jid)}

\* A PN has one LID and the other way round.
ASSUME LimitsAssumption ==
  /\ Minute \in Nat \ {0} /\ Day \in Nat \ {0} /\ MaxNow \in Nat /\ MaxSends \in Nat
  /\ MaxFault \in Nat /\ MaxSet \in Nat /\ Inbox \subseteq JIDs
  /\ Settings \subseteq [day : Nat, fresh : Nat, minute : Nat, interval : Nat]
  /\ Ops \subseteq [targets : Seq(JIDs), receipt : BOOLEAN]
  /\ \A jid \in JIDs : Twin(Twin(jid)) = jid

VARIABLES
  now, limits,        \* clock and runtime settings
  usage, contacts,    \* tables send_usage and send_contacts
  archived,           \* chats with a row in messages
  pc, op, rcpt,       \* requests: control, what is asked, the receipt
  ledger,             \* history: every reservation
  happened,           \* ... those whose messages left, or may have
  charged, freshCharged,  \* ... those whose messages and whose new chats are not refunded
  nFault, nSet

dbVars   == <<usage, contacts>>
bookVars == <<ledger, happened, charged, freshCharged>>
vars == <<now, limits, usage, contacts, archived, pc, op, rcpt, bookVars, nFault, nSet>>

Today      == now \div Day
Known(jid) == Chat(jid) \cap (archived \cup contacts) # {}
Off        == limits.day = 0 /\ limits.fresh = 0 /\ limits.minute = 0 /\ limits.interval = 0

NoReceipt == [entry |-> 0, day |-> 0, count |-> 0, fresh |-> 0, last |-> 0, previousLast |-> 0,
              contacts |-> {}]
NoOp      == [targets |-> <<>>, receipt |-> FALSE]

Usage   == [day : Int, today : Nat, newChats : Nat, tokens : Int, rate : Nat, refill : Nat, last : Nat]
Receipt == [entry : 0..MaxSends, day : Nat, count : Nat, fresh : Nat, last : Nat, previousLast : Nat,
            contacts : SUBSET JIDs]

\* An empty database: send_usage has no row, so its day matches none.
Init ==
  /\ now = 1 /\ limits \in Settings
  /\ usage = [day |-> -1, today |-> 0, newChats |-> 0, tokens |-> 0, rate |-> 0, refill |-> 0, last |-> 0]
  /\ contacts = {} /\ archived = {}
  /\ pc = [r \in Requests |-> "idle"] /\ op = [r \in Requests |-> NoOp]
  /\ rcpt = [r \in Requests |-> NoReceipt]
  /\ ledger = <<>> /\ happened = {} /\ charged = {} /\ freshCharged = {} /\ nFault = 0 /\ nSet = 0
-----------------------------------------------------------------------------
(* Reserving *)

Least(a, b) == IF a <= b THEN a ELSE b
Most(a, b)  == IF a >= b THEN a ELSE b

Capped(tokens) == Least(tokens, limits.minute * Minute)

\* Fault: the time of the refill is kept, and the same time refills again.
MutRefillAt == IF usage.refill = 0 THEN now ELSE usage.refill

RefillAt == now

\* readSendState: the stored row brought up to the day, the settings and the clock.
ReadSendState ==
  LET same   == usage.day = Today
      filled == IF usage.refill = 0 \/ usage.rate = 0 THEN limits.minute * Minute
                ELSE usage.tokens + Most(0, now - usage.refill) * usage.rate
  IN [day      |-> Today,
      today    |-> IF same THEN usage.today ELSE 0,
      newChats |-> IF same THEN usage.newChats ELSE 0,
      tokens   |-> Capped(filled),
      rate     |-> limits.minute, refill |-> RefillAt, last |-> usage.last]

\* The identities of a batch that were never contacted: a PN and its LID are one.
Fresh(targets) == {Chat(t) : t \in {x \in Elems(targets) : ~Known(x)}}

\* Any limit that refuses the batch, a batch larger than a limit included.
Refused(s, targets) ==
  \/ limits.day > 0 /\ s.today + Len(targets) > limits.day
  \/ limits.fresh > 0 /\ s.newChats + Cardinality(Fresh(targets)) > limits.fresh
  \/ limits.minute > 0 /\ s.tokens < Len(targets) * Minute
  \/ limits.interval > 0 /\ s.last > 0 /\ now - s.last < limits.interval

\* last_send_ns never repeats.
Stamp(s) == Most(now, s.last + 1)

\* reserveSend commits a refusal: only the row is brought up to date.
ReserveRefused(r, o) ==
  LET s == ReadSendState
  IN /\ pc[r] = "idle" /\ Refused(s, o.targets)
     /\ usage' = s
     /\ UNCHANGED <<now, limits, contacts, archived, pc, op, rcpt, bookVars, nFault, nSet>>

\* reserveSend commits the charge and hands the receipt to a refundable request.
ReserveSend(r, o) ==
  LET s     == ReadSendState
      count == Len(o.targets)
      fresh == Fresh(o.targets)
  IN /\ pc[r] = "idle" /\ Len(ledger) < MaxSends
     /\ ~Refused(s, o.targets)
     /\ usage' = [s EXCEPT !.today = @ + count, !.newChats = @ + Cardinality(fresh),
                           !.tokens = @ - count * Minute, !.last = Stamp(s)]
     /\ contacts' = contacts \cup Elems(o.targets)
     /\ rcpt' = [rcpt EXCEPT ![r] =
          IF o.receipt
          THEN [entry |-> Len(ledger) + 1, day |-> s.day, count |-> count, fresh |-> Cardinality(fresh),
                last |-> Stamp(s), previousLast |-> s.last, contacts |-> Elems(o.targets) \ contacts]
          ELSE NoReceipt]
     /\ ledger' = Append(ledger, [day |-> s.day, at |-> now, count |-> count, fresh |-> fresh])
     /\ happened' = happened \cup {Len(ledger) + 1} /\ charged' = charged \cup {Len(ledger) + 1}
     /\ freshCharged' = freshCharged \cup {Len(ledger) + 1}
     /\ pc' = [pc EXCEPT ![r] = "ready"] /\ op' = [op EXCEPT ![r] = o]
     /\ UNCHANGED <<now, limits, archived, nFault, nSet>>

\* The transaction fails: with a limit on, the request is refused; when the
\* settings were not read either, they are read again before it goes on uncounted.
ReserveFails(r, o, read) ==
  /\ pc[r] = "idle" /\ nFault < MaxFault /\ nFault' = nFault + 1
  /\ IF read /\ ~Off THEN UNCHANGED <<pc, op>>
     ELSE /\ pc' = [pc EXCEPT ![r] = IF read THEN "ready" ELSE "recheck"]
          /\ op' = [op EXCEPT ![r] = o]
  /\ UNCHANGED <<now, limits, dbVars, archived, rcpt, bookVars, nSet>>

\* A request ends; its receipt goes with it.
End(r) == /\ pc' = [pc EXCEPT ![r] = "idle"] /\ op' = [op EXCEPT ![r] = NoOp]
          /\ rcpt' = [rcpt EXCEPT ![r] = NoReceipt]

Recheck(r) ==
  /\ pc[r] = "recheck"
  /\ IF Off THEN pc' = [pc EXCEPT ![r] = "ready"] /\ UNCHANGED <<op, rcpt>> ELSE End(r)
  /\ UNCHANGED <<now, limits, dbVars, archived, bookVars, nFault, nSet>>
-----------------------------------------------------------------------------
(* Sending and refunding *)

\* sendWhatsAppMessage returns before the network call, or WhatsApp refuses
\* definitively after it: both release the receipt.
NotSent(r) ==
  /\ pc[r] = "ready" /\ op[r].receipt
  /\ pc' = [pc EXCEPT ![r] = "release"]
  /\ happened' = happened \ {rcpt[r].entry}
  /\ UNCHANGED <<now, limits, dbVars, archived, op, rcpt, ledger, charged, freshCharged, nFault, nSet>>

\* Accepted, and stored unless the archive fails; or uncertain and not stored.
Attempted(r, stored) ==
  /\ pc[r] = "ready"
  /\ archived' = IF stored /\ op[r].receipt THEN archived \cup Elems(op[r].targets) ELSE archived
  /\ End(r)
  /\ UNCHANGED <<now, limits, dbVars, bookVars, nFault, nSet>>

\* No reservation came after this one.
Latest(s, receipt) == s.last = receipt.last

\* Fault: a refund of yesterday's send lowers today's count.
MutSameDay(s, receipt) == TRUE

SameDay(s, receipt) == s.day = receipt.day

\* releaseSendReservation.
ReleaseSend(r) ==
  LET s == ReadSendState
      q == rcpt[r]
  IN /\ pc[r] = "release" /\ q.entry # 0
     /\ usage' = [s EXCEPT
          !.today    = IF SameDay(s, q) THEN Most(0, @ - q.count) ELSE @,
          !.newChats = IF Latest(s, q) /\ SameDay(s, q) THEN Most(0, @ - q.fresh) ELSE @,
          !.tokens   = IF Latest(s, q) THEN Capped(@ + q.count * Minute) ELSE @,
          !.last     = IF Latest(s, q) THEN q.previousLast ELSE @]
     /\ contacts' = IF Latest(s, q) THEN contacts \ q.contacts ELSE contacts
     /\ charged' = charged \ {q.entry}
     /\ freshCharged' = IF Latest(s, q) THEN freshCharged \ {q.entry} ELSE freshCharged
     /\ End(r)
     /\ UNCHANGED <<now, limits, archived, ledger, happened, nFault, nSet>>

\* Nothing was reserved, or the refund fails: the charge stays.
ReleaseNothing(r) ==
  /\ pc[r] = "release"
  /\ IF rcpt[r].entry = 0 THEN UNCHANGED nFault ELSE nFault < MaxFault /\ nFault' = nFault + 1
  /\ End(r)
  /\ UNCHANGED <<now, limits, dbVars, archived, bookVars, nSet>>
-----------------------------------------------------------------------------
(* The world around *)

\* The process dies: receipts are lost, charges are not.
Crash ==
  /\ nFault < MaxFault /\ nFault' = nFault + 1
  /\ pc' = [r \in Requests |-> "idle"] /\ op' = [r \in Requests |-> NoOp]
  /\ rcpt' = [r \in Requests |-> NoReceipt]
  /\ UNCHANGED <<now, limits, dbVars, archived, bookVars, nSet>>

\* An inbound message makes a chat known.
Inbound(jid) ==
  /\ jid \notin archived /\ archived' = archived \cup {jid}
  /\ UNCHANGED <<now, limits, dbVars, pc, op, rcpt, bookVars, nFault, nSet>>

SetLimits(l) ==
  /\ nSet < MaxSet /\ l # limits
  /\ limits' = l /\ nSet' = nSet + 1
  /\ UNCHANGED <<now, dbVars, archived, pc, op, rcpt, bookVars, nFault>>

Tick ==
  /\ now < MaxNow /\ now' = now + 1
  /\ UNCHANGED <<limits, dbVars, archived, pc, op, rcpt, bookVars, nFault, nSet>>
-----------------------------------------------------------------------------
Request(r) ==
  \/ \E o \in Ops : ReserveRefused(r, o) \/ ReserveSend(r, o) \/ \E read \in BOOLEAN : ReserveFails(r, o, read)
  \/ Recheck(r) \/ NotSent(r) \/ \E stored \in BOOLEAN : Attempted(r, stored)
  \/ ReleaseSend(r) \/ ReleaseNothing(r)

Next ==
  \/ \E r \in Requests : Request(r)
  \/ Crash \/ Tick
  \/ \E jid \in Inbox : Inbound(jid)
  \/ \E l \in Settings : SetLimits(l)

Spec == Init /\ [][Next]_vars
-----------------------------------------------------------------------------
\* Reservations in units: the messages and the new chats of each.
Units(S, unit) == UNION {{k} \X unit[k] : k \in S}
Total(S, unit) == Cardinality(Units(S, unit))
Messages       == [k \in DOMAIN ledger |-> 1..ledger[k].count]
NewChats       == [k \in DOMAIN ledger |-> ledger[k].fresh]
OnDay(d)       == {k \in DOMAIN ledger : ledger[k].day = d}

\* The stored counters of the day are exactly what was charged on it and not
\* refunded, through refunds in any order, midnight, crashes and new settings.
CountersExact ==
  /\ usage.today = Total(charged \cap OnDay(usage.day), Messages)
  /\ usage.newChats = Total(freshCharged \cap OnDay(usage.day), NewChats)

\* No day carries more messages or new chats, delivered or uncertain, than its
\* limits allow.
DayBudget ==
  nSet = 0 => \A d \in {ledger[k].day : k \in DOMAIN ledger} :
    /\ limits.day > 0 => Total(happened \cap OnDay(d), Messages) <= limits.day
    /\ limits.fresh > 0 => Total(happened \cap OnDay(d), NewChats) <= limits.fresh

\* In no stretch of time do more messages leave than the full bucket and its
\* refill: a refund never gives back tokens a later send has already used.
MinuteBudget ==
  nSet = 0 /\ limits.minute > 0 =>
    \A i, j \in DOMAIN ledger :
      i <= j => Total(happened \cap (i..j), Messages) * Minute
                  <= limits.minute * Minute + limits.minute * (ledger[j].at - ledger[i].at)

\* A chat counts as known only if it has messages or a standing new-chat charge:
\* a refund never leaves a free contact behind.
ContactsCharged ==
  \A jid \in contacts :
    \/ Chat(jid) \cap archived # {}
    \/ \E k \in freshCharged : Chat(jid) \in ledger[k].fresh

\* What reserveSend and releaseSendReservation stored says what was charged: the
\* counters of the day, and the chats that count as known.
ExactUsage == CountersExact /\ ContactsCharged

\* The bucket never holds more than a full one, also after a limit was lowered or
\* switched off and on again and after late refunds.
BucketCapped == usage.tokens <= usage.rate * Minute

\* The budgets of reserveSend hold over what really left, per day and per minute,
\* with concurrent requests, refunds, failed sends and crashes.
BudgetsHeld == DayBudget /\ MinuteBudget /\ BucketCapped
=============================================================================
