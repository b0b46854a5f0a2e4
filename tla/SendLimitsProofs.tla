-------------------------- MODULE SendLimitsProofs --------------------------
(***************************************************************************)
(* Proofs about SendLimits, for every set of requests, of batches and of   *)
(* limits: what the budget stores is exactly what was charged              *)
(* (UsageExact) and the budgets hold over what left (BudgetsKept).         *)
(***************************************************************************)
EXTENDS SendLimits, FiniteSetTheorems, TLAPS

Limits == [day : Nat, fresh : Nat, minute : Nat, interval : Nat]
Row    == [day : Nat, at : Nat, count : Nat, fresh : SUBSET {Chat(j) : j \in JIDs}]
Used   == [day : Int, today : Nat, newChats : Nat, tokens : Int, rate : Nat, refill : Nat, last : Nat]
Held   == [entry : Nat, day : Nat, count : Nat, fresh : Nat, last : Nat, previousLast : Nat,
           contacts : SUBSET JIDs]
Stages == {"idle", "recheck", "ready", "release"}
Live   == {r \in Requests : rcpt[r].entry # 0}

(* Types.  The units of all reservations are finite sets, which each new one keeps. *)
BudgetTypes ==
  /\ now \in Nat \ {0} /\ limits \in Limits /\ nSet \in Nat
  /\ usage \in Used
  /\ contacts \subseteq JIDs /\ pc \in [Requests -> Stages]
  /\ rcpt \in [Requests -> Held]
  /\ ledger \in Seq(Row)
  /\ charged \subseteq DOMAIN ledger /\ freshCharged \subseteq DOMAIN ledger

(* The history is consistent: what left is charged, and a full refund takes  *)
(* both charges back; no reservation lies after the row's day or refill.     *)
BookInv ==
  /\ happened \subseteq charged /\ charged \subseteq freshCharged
  /\ usage.day <= Today /\ usage.refill <= now
  /\ usage.refill = 0 => ledger = <<>>
  /\ \A k \in DOMAIN ledger : /\ ledger[k].day <= usage.day /\ ledger[k].at <= usage.refill
                              /\ IsFiniteSet(ledger[k].fresh)
  /\ IsFiniteSet(Units(DOMAIN ledger, Messages)) /\ IsFiniteSet(Units(DOMAIN ledger, NewChats))

(* A receipt in hand says what its reservation charged, and it is its only one. *)
ReceiptInv ==
  /\ \A r \in Live :
       LET q == rcpt[r]
       IN /\ q.entry \in charged
          /\ q.day = ledger[q.entry].day /\ q.count = ledger[q.entry].count
          /\ q.fresh = Cardinality(ledger[q.entry].fresh)
          /\ pc[r] = "release" => q.entry \notin happened
  /\ \A r, s \in Live : rcpt[r].entry = rcpt[s].entry => r = s

(* last_send_ns orders the receipts in hand as their reservations, and when  *)
(* it is a receipt's own every later reservation has been taken back.        *)
OrderInv ==
  /\ \A r \in Live : /\ rcpt[r].last <= usage.last
                     /\ rcpt[r].last = usage.last => \A k \in freshCharged : k <= rcpt[r].entry
  /\ \A r, s \in Live : rcpt[r].entry < rcpt[s].entry =>
       /\ rcpt[r].last <= rcpt[s].previousLast
       /\ rcpt[r].last = rcpt[s].previousLast =>
            \A k \in freshCharged : k <= rcpt[r].entry \/ k >= rcpt[s].entry

(* A contact whose chat a receipt in hand pays for is removed with that      *)
(* receipt, or a later reservation that still stands has added it.           *)
ContactInv ==
  \A r \in Live : \A jid \in contacts :
    Chat(jid) \in ledger[rcpt[r].entry].fresh =>
      \/ jid \in rcpt[r].contacts
      \/ \E k \in freshCharged :
           k > rcpt[r].entry /\ \A s \in Live : rcpt[s].entry = k => jid \in rcpt[s].contacts

(* Until the settings change, the day's charges keep to its limits. *)
DayInv ==
  nSet = 0 => \A d \in Nat :
    /\ limits.day > 0 => Total(charged \cap OnDay(d), Messages) <= limits.day
    /\ limits.fresh > 0 => Total(freshCharged \cap OnDay(d), NewChats) <= limits.fresh

(* ... and from each reservation on, the messages charged and the tokens     *)
(* left are no more than a full bucket and its refill.                       *)
BucketInv ==
  nSet = 0 /\ limits.minute > 0 =>
    /\ usage.refill # 0 => usage.rate = limits.minute
    /\ \A i \in DOMAIN ledger :
         /\ Total(charged \cap (i..Len(ledger)), Messages) * Minute + usage.tokens
              <= limits.minute * Minute + limits.minute * (usage.refill - ledger[i].at)
         /\ \A j \in DOMAIN ledger : i <= j =>
              Total(charged \cap (i..j), Messages) * Minute
                <= limits.minute * Minute + limits.minute * (ledger[j].at - ledger[i].at)

BudgetInv ==
  /\ BudgetTypes /\ BookInv /\ ReceiptInv /\ OrderInv /\ ContactInv
  /\ CountersExact /\ ContactsCharged /\ DayInv /\ BucketInv /\ BucketCapped
-----------------------------------------------------------------------------
(* The arithmetic of units *)

LEMMA NoUnits ==
  ASSUME NEW u
  PROVE  /\ Units({}, u) = {}
         /\ Total({}, u) = 0
<1>1. Units({}, u) = {}
  BY DEF Units
<1> QED BY <1>1, FS_EmptySet DEF Total

LEMMA UnitsMonotone ==
  ASSUME NEW u, NEW T, NEW S \in SUBSET T, IsFiniteSet(Units(T, u))
  PROVE  /\ IsFiniteSet(Units(S, u))
         /\ Total(S, u) \in Nat /\ Total(T, u) \in Nat
         /\ Total(S, u) <= Total(T, u)
<1>1. Units(S, u) \subseteq Units(T, u)
  BY DEF Units
<1>2. IsFiniteSet(Units(S, u)) /\ Cardinality(Units(S, u)) <= Cardinality(Units(T, u))
  BY <1>1, FS_Subset
<1>3. Cardinality(Units(S, u)) \in Nat /\ Cardinality(Units(T, u)) \in Nat
  BY <1>2, FS_CardinalityType
<1> QED BY <1>2, <1>3 DEF Total

LEMMA UnitsAdd ==
  ASSUME NEW u, NEW S, NEW k, k \notin S, IsFiniteSet(Units(S, u)), IsFiniteSet(u[k])
  PROVE  /\ IsFiniteSet(Units(S \cup {k}, u))
         /\ Total(S, u) \in Nat /\ Cardinality(u[k]) \in Nat
         /\ Total(S \cup {k}, u) = Total(S, u) + Cardinality(u[k])
<1> DEFINE K == {k} \X u[k]
<1>1. Units(S \cup {k}, u) = Units(S, u) \cup K
  BY DEF Units
<1>2. IsFiniteSet({k}) /\ Cardinality({k}) = 1
  BY FS_Singleton, Zenon
<1>3. Cardinality(u[k]) \in Nat /\ Cardinality(Units(S, u)) \in Nat
  BY FS_CardinalityType
<1>4. IsFiniteSet(K) /\ Cardinality(K) = Cardinality({k}) * Cardinality(u[k])
  BY <1>2, FS_Product
<1>5. Cardinality(K) = Cardinality(u[k])
  BY <1>2, <1>3, <1>4
<1>6. Units(S, u) \cap K = {}
  BY DEF Units
<1>7. IsFiniteSet(Units(S, u) \cup K)
  BY <1>4, FS_Union, Zenon
<1>8. Cardinality(Units(S, u) \cup K) = Cardinality(Units(S, u)) + Cardinality(K) - Cardinality(Units(S, u) \cap K)
  BY <1>4, FS_Union
<1>9. Cardinality(Units(S, u) \cap K) = 0
  BY <1>6, FS_EmptySet
<1> HIDE DEF K
<1>10. Cardinality(Units(S, u) \cup K) = Cardinality(Units(S, u)) + Cardinality(u[k])
  BY <1>3, <1>5, <1>8, <1>9
<1> QED BY <1>1, <1>3, <1>7, <1>10, Zenon DEF Total

LEMMA UnitsRemove ==
  ASSUME NEW u, NEW S, NEW k \in S, IsFiniteSet(Units(S, u)), IsFiniteSet(u[k])
  PROVE  /\ Total(S, u) \in Nat /\ Total(S \ {k}, u) \in Nat /\ Cardinality(u[k]) \in Nat
         /\ Total(S, u) = Total(S \ {k}, u) + Cardinality(u[k])
<1>1. S \ {k} \in SUBSET S /\ k \notin S \ {k} /\ (S \ {k}) \cup {k} = S
  OBVIOUS
<1>2. IsFiniteSet(Units(S \ {k}, u)) /\ Total(S, u) \in Nat
  BY <1>1, UnitsMonotone
<1>3. /\ Total(S \ {k}, u) \in Nat /\ Cardinality(u[k]) \in Nat
      /\ Total((S \ {k}) \cup {k}, u) = Total(S \ {k}, u) + Cardinality(u[k])
  BY <1>1, <1>2, UnitsAdd
<1> QED BY <1>1, <1>2, <1>3

LEMMA UnitsAgree ==
  ASSUME NEW u, NEW v, NEW S, \A k \in S : u[k] = v[k]
  PROVE  /\ Units(S, u) = Units(S, v)
         /\ Total(S, u) = Total(S, v)
<1>1. \A k \in S : {k} \X u[k] = {k} \X v[k]
  OBVIOUS
<1>2. Units(S, u) = Units(S, v)
  BY <1>1 DEF Units
<1> QED BY <1>2 DEF Total

LEMMA CountUnits ==
  ASSUME NEW n \in Nat
  PROVE  IsFiniteSet(1..n) /\ Cardinality(1..n) = n
<1>1. IsFiniteSet(1..n) /\ Cardinality(1..n) = IF 1 > n THEN 0 ELSE n - 1 + 1
  BY FS_Interval
<1> QED BY <1>1

LEMMA MulMonotone ==
  ASSUME NEW a \in Nat, NEW b \in Nat, NEW m \in Nat, a <= b
  PROVE  a * m \in Nat /\ b * m \in Nat /\ a * m <= b * m
OBVIOUS

LEMMA ElemsFinite ==
  ASSUME NEW T, NEW s \in Seq(T)
  PROVE  IsFiniteSet(Elems(s)) /\ Elems(s) \subseteq T
<1>1. DOMAIN s = 1..Len(s) /\ Len(s) \in Nat
  OBVIOUS
<1>2. IsFiniteSet(1..Len(s))
  BY <1>1, FS_Interval
<1>3. s \in Surjection(DOMAIN s, Elems(s))
  BY DEF Surjection, Elems
<1> QED BY <1>1, <1>2, <1>3, FS_Surjection DEF Elems

LEMMA FreshFinite ==
  ASSUME NEW s \in Seq(JIDs)
  PROVE  IsFiniteSet(Fresh(s)) /\ Fresh(s) \subseteq {Chat(j) : j \in JIDs}
<1> DEFINE N == {x \in Elems(s) : ~Known(x)}
           f == [x \in N |-> Chat(x)]
<1>1. IsFiniteSet(Elems(s)) /\ Elems(s) \subseteq JIDs
  BY ElemsFinite
<1>2. N \subseteq Elems(s)
  OBVIOUS
<1>3. IsFiniteSet(N)
  BY <1>1, <1>2, FS_Subset
<1>4. Fresh(s) = {f[x] : x \in N}
  BY DEF Fresh
<1>5. f \in Surjection(N, Fresh(s))
  BY <1>4 DEF Surjection
<1>6. IsFiniteSet(Fresh(s))
  BY <1>3, <1>5, FS_Surjection
<1>7. Fresh(s) \subseteq {Chat(j) : j \in JIDs}
  BY <1>1 DEF Fresh
<1> QED BY <1>6, <1>7

LEMMA DayNeverBack ==
  ASSUME NEW n \in Nat, NEW d \in Nat \ {0}
  PROVE  /\ n \div d \in Nat
         /\ n \div d <= (n + 1) \div d
<1> DEFINE a == n \div d
           b == (n + 1) \div d
<1>1. a \in Int /\ b \in Int /\ n = d * a + (n % d) /\ n + 1 = d * b + ((n + 1) % d)
  OBVIOUS
<1>2. n % d \in 0..(d - 1) /\ (n + 1) % d \in 0..(d - 1)
  OBVIOUS
<1> HIDE DEF a, b
<1>3. ASSUME b < a PROVE FALSE
  <2>1. a - b \in Nat \ {0}
    BY <1>1, <1>3
  <2>2. d * (a - b) >= d
    BY <2>1
  <2>3. d * (a - b) = d * a - d * b
    BY <1>1
  <2>4. d * a \in Int /\ d * b \in Int
    BY <1>1
  <2> HIDE DEF a, b
  <2> QED BY <1>1, <1>2, <2>2, <2>3, <2>4
<1>4. a \in Nat
  <2>1. ASSUME a < 0 PROVE FALSE
    <3>1. d * a <= -d
      BY <1>1, <2>1
    <3> QED BY <1>1, <1>2, <3>1
  <2> QED BY <1>1, <2>1
<1> QED BY <1>1, <1>3, <1>4 DEF a, b
LEMMA TodayNat ==
  ASSUME now \in Nat
  PROVE  Today \in Nat
BY LimitsAssumption, DayNeverBack DEF Today

LEMMA TotalsNat ==
  ASSUME BudgetInv, NEW S \in SUBSET DOMAIN ledger
  PROVE  /\ Total(S, Messages) \in Nat /\ IsFiniteSet(Units(S, Messages))
         /\ Total(S, NewChats) \in Nat /\ IsFiniteSet(Units(S, NewChats))
BY UnitsMonotone, Zenon DEF BudgetInv, BookInv

LEMMA Scale ==
  ASSUME NEW a \in Int, NEW b \in Int, NEW m \in Int
  PROVE  /\ a * m \in Int /\ b * m \in Int
         /\ (a + b) * m = a * m + b * m
         /\ m * (a + b) = m * a + m * b
OBVIOUS

\* The tokens for two charges together are the tokens for each of them.
LEMMA ScaleSum ==
  ASSUME NEW a \in Int, NEW b \in Int, NEW m \in Int
  PROVE  (a + b) * m = a * m + b * m
OBVIOUS

\* Taking back what was added, as releaseSendReservation does to a counter of the day.
LEMMA TakeBack ==
  ASSUME NEW a \in Nat, NEW b \in Nat
  PROVE  Most(0, (a + b) - b) = a
BY DEF Most

LEMMA RowTypes ==
  ASSUME BudgetTypes, NEW k \in DOMAIN ledger
  PROVE  /\ k \in 1..Len(ledger) /\ Len(ledger) \in Nat
         /\ ledger[k] \in Row
         /\ ledger[k].day \in Nat /\ ledger[k].at \in Nat /\ ledger[k].count \in Nat
         /\ ledger[k].fresh \subseteq {Chat(j) : j \in JIDs}
<1>1. ledger \in Seq(Row)
  BY DEF BudgetTypes
<1>2. k \in 1..Len(ledger) /\ Len(ledger) \in Nat /\ ledger[k] \in Row
  BY <1>1
<1> QED BY <1>2 DEF Row

(* The row s says, at this time, what was charged and what the bucket holds. *)
Reads(s) ==
  /\ s \in Used
  /\ s.day = Today /\ s.rate = limits.minute /\ s.refill = now /\ s.last = usage.last
  /\ s.tokens <= limits.minute * Minute
  /\ s.today = Total(charged \cap OnDay(Today), Messages)
  /\ s.newChats = Total(freshCharged \cap OnDay(Today), NewChats)
  /\ nSet = 0 /\ limits.minute > 0 => \A i \in DOMAIN ledger :
       Total(charged \cap (i..Len(ledger)), Messages) * Minute + s.tokens
         <= limits.minute * Minute + limits.minute * (now - ledger[i].at)

(* readSendState: the row brought up to now has the same meaning. *)
LEMMA ReadMeans ==
  ASSUME BudgetInv
  PROVE  Reads(ReadSendState)
<1> DEFINE s == ReadSendState
           filled == IF usage.refill = 0 \/ usage.rate = 0 THEN limits.minute * Minute
                     ELSE usage.tokens + Most(0, now - usage.refill) * usage.rate
           full == limits.minute * Minute
<1> USE DEF BudgetInv
<1>1. /\ s.day = Today /\ s.rate = limits.minute /\ s.refill = now /\ s.last = usage.last
      /\ s.tokens = Capped(filled)
      /\ s.today = (IF usage.day = Today THEN usage.today ELSE 0)
      /\ s.newChats = (IF usage.day = Today THEN usage.newChats ELSE 0)
      /\ s = [day |-> s.day, today |-> s.today, newChats |-> s.newChats, tokens |-> s.tokens,
              rate |-> s.rate, refill |-> s.refill, last |-> s.last]
  BY DEF ReadSendState, RefillAt
<1>2. /\ now \in Nat /\ limits.minute \in Nat /\ Minute \in Nat /\ usage.refill \in Nat /\ usage.rate \in Nat
      /\ usage.tokens \in Int /\ usage.today \in Nat /\ usage.newChats \in Nat /\ usage.last \in Nat /\ usage.day \in Int
      /\ Today \in Nat
  BY LimitsAssumption, TodayNat DEF BudgetTypes, Limits, Used
<1>3. full \in Int /\ filled \in Int
  <2>1. Most(0, now - usage.refill) \in Int
    BY <1>2 DEF Most
  <2>2. Most(0, now - usage.refill) * usage.rate \in Int
    BY <1>2, <2>1
  <2>3. full \in Int
    BY <1>2
  <2> QED BY <1>2, <2>2, <2>3
<1>4. Capped(filled) \in Int /\ Capped(filled) <= full /\ Capped(filled) <= filled
  <2> HIDE DEF filled
  <2> QED BY <1>3 DEF Capped, Least
<1>5. usage.day # Today => OnDay(Today) = {}
  <2>1. ASSUME usage.day # Today, NEW k \in DOMAIN ledger PROVE ledger[k].day # Today
    <3>1. ledger[k].day <= usage.day /\ usage.day <= Today
      BY DEF BookInv
    <3>2. ledger[k].day \in Nat
      BY RowTypes
    <3> QED BY <1>2, <2>1, <3>1, <3>2
  <2> QED BY <2>1 DEF OnDay
<1>6. /\ s.today = Total(charged \cap OnDay(Today), Messages)
      /\ s.newChats = Total(freshCharged \cap OnDay(Today), NewChats)
  <2> HIDE DEF s
  <2>1. CASE usage.day = Today
    BY <1>1, <2>1 DEF CountersExact
  <2>2. CASE usage.day # Today
    <3>1. charged \cap OnDay(Today) = {} /\ freshCharged \cap OnDay(Today) = {}
      BY <1>5, <2>2
    <3> QED BY <1>1, <2>2, <3>1, NoUnits
  <2> QED BY <2>1, <2>2
<1>7. ASSUME nSet = 0, limits.minute > 0, NEW i \in DOMAIN ledger
      PROVE  Total(charged \cap (i..Len(ledger)), Messages) * Minute + s.tokens
               <= limits.minute * Minute + limits.minute * (now - ledger[i].at)
  <2> DEFINE T == Total(charged \cap (i..Len(ledger)), Messages)
  <2>1. /\ usage.refill # 0 /\ usage.refill <= now
    BY DEF BookInv
  <2>2. /\ usage.rate = limits.minute
        /\ T * Minute + usage.tokens <= full + limits.minute * (usage.refill - ledger[i].at)
    BY <1>7, <2>1 DEF BucketInv
  <2>3. filled = usage.tokens + limits.minute * (now - usage.refill)
    <3>1. Most(0, now - usage.refill) = now - usage.refill
      BY <1>2, <2>1 DEF Most
    <3> QED BY <1>2, <1>7, <2>1, <2>2, <3>1
  <2>4. ledger[i].at \in Nat
    BY RowTypes
  <2>5. T \in Nat
    <3>1. charged \cap (i..Len(ledger)) \in SUBSET DOMAIN ledger
      BY DEF BudgetTypes
    <3> QED BY <3>1, TotalsNat
  <2> DEFINE x == limits.minute * (usage.refill - ledger[i].at)
             y == limits.minute * (now - usage.refill)
             z == limits.minute * (now - ledger[i].at)
             t == T * Minute
  <2>6. x \in Int /\ y \in Int /\ z = x + y
    <3>1. now - ledger[i].at = (usage.refill - ledger[i].at) + (now - usage.refill)
      BY <1>2, <2>4
    <3> QED BY <1>2, <2>4, <3>1, Scale
  <2>7. t \in Int
    BY <1>2, <2>5
  <2>8. s.tokens <= filled /\ s.tokens \in Int
    BY <1>1, <1>4
  <2>9. t + usage.tokens <= full + x /\ filled = usage.tokens + y
    BY <2>2, <2>3
  <2> HIDE DEF x, y, z, t, T, full, filled, s
  <2>10. t + s.tokens <= full + z
    BY <1>2, <1>3, <2>6, <2>7, <2>8, <2>9
  <2> QED BY <2>10 DEF z, t, T, full
<1>8. s \in Used
  <2> HIDE DEF s, filled
  <2> QED BY <1>1, <1>2, <1>4 DEF Used
<1>9. s.tokens <= limits.minute * Minute
  BY <1>1, <1>4, Zenon
<1> HIDE DEF s
<1>10. Reads(s)
  BY <1>1, <1>6, <1>7, <1>8, <1>9 DEF Reads
<1> QED BY <1>10 DEF s
-----------------------------------------------------------------------------
(* Steps *)

(* The steps that neither charge nor refund: receipts are dropped, sends turn out *)
(* not to have left, time passes, chats become known, settings change.            *)
LEMMA Quiet ==
  ASSUME BudgetInv, UNCHANGED <<usage, contacts, ledger, charged, freshCharged>>,
         happened' \subseteq happened, archived \subseteq archived',
         now' \in Nat \ {0}, now <= now', Today <= Today',
         limits' \in Limits, nSet' \in Nat, pc' \in [Requests -> Stages], rcpt' \in [Requests -> Held],
         (limits' = limits /\ nSet' = nSet) \/ nSet' # 0,
         \A r \in Live' : /\ rcpt'[r] = rcpt[r]
                          /\ pc'[r] = "release" => pc[r] = "release" \/ rcpt[r].entry \notin happened'
  PROVE  BudgetInv'
<1> USE DEF BudgetInv
<1>1. Live' \subseteq Live /\ \A r \in Live' : rcpt'[r] = rcpt[r]
  BY DEF Live
<1>2. BudgetTypes'
  BY DEF BudgetTypes
<1>3. Messages' = Messages /\ NewChats' = NewChats /\ (\A d : OnDay(d)' = OnDay(d))
  BY DEF Messages, NewChats, OnDay
<1>4. BookInv'
  <2>1. usage'.day <= Today' /\ usage'.refill <= now'
    <3>1. Today \in Nat /\ Today' \in Nat
      BY TodayNat, LimitsAssumption, DayNeverBack, Zenon DEF BudgetTypes, Today
    <3>2. usage.day \in Int /\ usage.refill \in Nat /\ now \in Nat
      BY Zenon DEF BudgetTypes, Used
    <3> QED BY <3>1, <3>2 DEF BookInv
  <2> QED BY <1>3, <2>1, Zenon DEF BookInv
<1>5. ReceiptInv'
  BY <1>1 DEF ReceiptInv
<1>6. OrderInv'
  BY <1>1 DEF OrderInv
<1>7. ContactInv'
  <2> SUFFICES ASSUME NEW r \in Live', NEW jid \in contacts', Chat(jid) \in ledger'[rcpt'[r].entry].fresh,
                      jid \notin rcpt'[r].contacts
               PROVE  \E k \in freshCharged' :
                        k > rcpt'[r].entry /\ \A s \in Live' : rcpt'[s].entry = k => jid \in rcpt'[s].contacts
    BY DEF ContactInv
  <2>1. PICK k \in freshCharged : k > rcpt[r].entry /\ \A s \in Live : rcpt[s].entry = k => jid \in rcpt[s].contacts
    BY <1>1 DEF ContactInv
  <2>2. k \in freshCharged' /\ k > rcpt'[r].entry
    BY <1>1, <2>1
  <2>3. ASSUME NEW s \in Live', rcpt'[s].entry = k
        PROVE  jid \in rcpt'[s].contacts
    BY <1>1, <2>1, <2>3
  <2> QED BY <2>2, <2>3, Zenon
<1>8. CountersExact'
  BY <1>3, Zenon DEF CountersExact
<1>9. ContactsCharged'
  BY DEF ContactsCharged
<1>10. DayInv'
  BY <1>3, Zenon DEF DayInv, BudgetTypes
<1>11. BucketInv'
  BY <1>3 DEF BucketInv, BudgetTypes
<1>12. BucketCapped'
  BY DEF BucketCapped
<1> QED BY <1>2, <1>4, <1>5, <1>6, <1>7, <1>8, <1>9, <1>10, <1>11, <1>12

(* reserveSend refuses: the row is brought up to date. *)
LEMMA RefusedKeeps ==
  ASSUME BudgetInv, NEW r \in Requests, NEW o \in Ops, ReserveRefused(r, o)
  PROVE  BudgetInv'
<1> USE DEF BudgetInv
<1>1. /\ usage' = ReadSendState
      /\ UNCHANGED <<now, limits, contacts, archived, pc, op, rcpt, ledger, happened, charged, freshCharged, nFault, nSet>>
  BY DEF ReserveRefused, bookVars
<1>2. Reads(usage')
  BY <1>1, ReadMeans
<1> HIDE DEF BudgetInv
<1>3. /\ usage' \in Used /\ usage'.day = Today /\ usage'.refill = now /\ usage'.last = usage.last
      /\ usage'.rate = limits.minute /\ usage'.tokens <= limits.minute * Minute
  BY <1>2 DEF Reads
<1>4. Live' = Live /\ Messages' = Messages /\ NewChats' = NewChats /\ (\A d : OnDay(d)' = OnDay(d)) /\ Today' = Today
  BY <1>1 DEF Live, Messages, NewChats, OnDay, Today
<1> USE DEF BudgetInv
<1>5. BudgetTypes'
  BY <1>1, <1>3, Zenon DEF BudgetTypes
<1>6. BookInv'
  <2>1. Today \in Nat /\ now \in Nat \ {0} /\ usage.refill \in Nat /\ usage.day \in Int
    BY TodayNat, Zenon DEF BudgetTypes, Used
  <2>2. usage'.day <= Today' /\ usage'.refill <= now' /\ usage'.refill # 0
    BY <1>1, <1>3, <1>4, <2>1
  <2>3. ASSUME NEW k \in DOMAIN ledger
        PROVE  ledger[k].day <= usage'.day /\ ledger[k].at <= usage'.refill /\ IsFiniteSet(ledger[k].fresh)
    <3>1. ledger[k].day \in Nat /\ ledger[k].at \in Nat
      BY RowTypes
    <3>2. /\ ledger[k].day <= usage.day /\ ledger[k].at <= usage.refill /\ IsFiniteSet(ledger[k].fresh)
          /\ usage.day <= Today /\ usage.refill <= now
      BY Zenon DEF BookInv
    <3> QED BY <1>3, <2>1, <3>1, <3>2
  <2> QED BY <1>1, <1>4, <2>2, <2>3 DEF BookInv
<1>7. ReceiptInv'
  BY <1>1, <1>4, Zenon DEF ReceiptInv
<1>8. OrderInv'
  BY <1>1, <1>3, <1>4, Zenon DEF OrderInv
<1>9. ContactInv'
  BY <1>1, <1>4 DEF ContactInv
<1>10. CountersExact'
  BY <1>1, <1>2, <1>3, <1>4, Zenon DEF CountersExact, Reads
<1>11. ContactsCharged'
  BY <1>1, Zenon DEF ContactsCharged
<1>12. DayInv'
  BY <1>1, <1>4, Zenon DEF DayInv
<1>13. BucketInv'
  BY <1>1, <1>2, <1>3, <1>4, Zenon DEF BucketInv, Reads
<1>14. BucketCapped'
  BY <1>1, <1>3 DEF BucketCapped
<1> QED BY <1>5, <1>6, <1>7, <1>8, <1>9, <1>10, <1>11, <1>12, <1>13, <1>14
(* A new reservation adds its own units and leaves those of the others. *)
LEMMA Charging ==
  ASSUME BudgetInv, NEW row \in Row, IsFiniteSet(row.fresh), ledger' = Append(ledger, row)
  PROVE  LET e == Len(ledger) + 1
         IN /\ ledger' \in Seq(Row) /\ Len(ledger') = e /\ e \in Nat \ {0}
            /\ DOMAIN ledger = 1..Len(ledger) /\ Len(ledger) \in Nat
            /\ DOMAIN ledger' = DOMAIN ledger \cup {e} /\ e \notin DOMAIN ledger
            /\ ledger'[e] = row /\ \A k \in DOMAIN ledger : ledger'[k] = ledger[k]
            /\ \A S \in SUBSET DOMAIN ledger :
                 /\ Total(S, Messages') = Total(S, Messages) /\ Total(S, NewChats') = Total(S, NewChats)
                 /\ Total(S \cup {e}, Messages') = Total(S, Messages) + row.count
                 /\ Total(S \cup {e}, NewChats') = Total(S, NewChats) + Cardinality(row.fresh)
            /\ IsFiniteSet(Units(DOMAIN ledger', Messages')) /\ IsFiniteSet(Units(DOMAIN ledger', NewChats'))
<1> DEFINE e == Len(ledger) + 1
<1>1. ledger \in Seq(Row)
  BY DEF BudgetInv, BudgetTypes
<1>2. /\ ledger' \in Seq(Row) /\ Len(ledger') = e /\ e \in Nat \ {0}
      /\ DOMAIN ledger = 1..Len(ledger) /\ Len(ledger) \in Nat /\ DOMAIN ledger' = 1..e
      /\ ledger'[e] = row /\ \A k \in 1..Len(ledger) : ledger'[k] = ledger[k]
  BY <1>1
<1>3. DOMAIN ledger' = DOMAIN ledger \cup {e} /\ e \notin DOMAIN ledger
  BY <1>2
<1> HIDE DEF e
<1>4. row.count \in Nat
  BY Zenon DEF Row
<1>5. Messages'[e] = 1..row.count /\ NewChats'[e] = row.fresh
  BY <1>2, <1>3 DEF Messages, NewChats
<1>6. IsFiniteSet(Messages'[e]) /\ Cardinality(Messages'[e]) = row.count
  BY <1>4, <1>5, CountUnits
<1>7. \A k \in DOMAIN ledger : Messages'[k] = Messages[k] /\ NewChats'[k] = NewChats[k]
  BY <1>2, <1>3, Zenon DEF Messages, NewChats
<1>8. ASSUME NEW S \in SUBSET DOMAIN ledger
      PROVE  /\ Total(S, Messages') = Total(S, Messages) /\ Total(S, NewChats') = Total(S, NewChats)
             /\ Total(S \cup {e}, Messages') = Total(S, Messages) + row.count
             /\ Total(S \cup {e}, NewChats') = Total(S, NewChats) + Cardinality(row.fresh)
             /\ IsFiniteSet(Units(S \cup {e}, Messages')) /\ IsFiniteSet(Units(S \cup {e}, NewChats'))
  <2>1. /\ Units(S, Messages') = Units(S, Messages) /\ Total(S, Messages') = Total(S, Messages)
        /\ Units(S, NewChats') = Units(S, NewChats) /\ Total(S, NewChats') = Total(S, NewChats)
    BY <1>7, UnitsAgree
  <2>2. IsFiniteSet(Units(S, Messages')) /\ IsFiniteSet(Units(S, NewChats'))
    BY <2>1, TotalsNat
  <2>3. e \notin S
    BY <1>3, Zenon
  <2>4. /\ IsFiniteSet(Units(S \cup {e}, Messages'))
        /\ Total(S \cup {e}, Messages') = Total(S, Messages') + Cardinality(Messages'[e])
    BY <1>6, <2>2, <2>3, UnitsAdd, Zenon
  <2>5. /\ IsFiniteSet(Units(S \cup {e}, NewChats'))
        /\ Total(S \cup {e}, NewChats') = Total(S, NewChats') + Cardinality(NewChats'[e])
    BY <1>5, <2>2, <2>3, UnitsAdd
  <2> QED BY <1>5, <1>6, <2>1, <2>4, <2>5, Zenon
<1>9. IsFiniteSet(Units(DOMAIN ledger', Messages')) /\ IsFiniteSet(Units(DOMAIN ledger', NewChats'))
  BY <1>3, <1>8, Zenon
<1>10. \A S \in SUBSET DOMAIN ledger :
         /\ Total(S, Messages') = Total(S, Messages) /\ Total(S, NewChats') = Total(S, NewChats)
         /\ Total(S \cup {e}, Messages') = Total(S, Messages) + row.count
         /\ Total(S \cup {e}, NewChats') = Total(S, NewChats) + Cardinality(row.fresh)
  BY <1>8
<1> QED BY <1>2, <1>3, <1>9, <1>10, Zenon DEF e

(* reserveSend charges: the row, the contacts, the receipt and the history move together. *)
LEMMA SendKeeps ==
  ASSUME BudgetInv, NEW r \in Requests, NEW o \in Ops, ReserveSend(r, o)
  PROVE  BudgetInv'
<1> DEFINE s     == ReadSendState
           e     == Len(ledger) + 1
           n     == Len(o.targets)
           f     == Cardinality(Fresh(o.targets))
           row   == [day |-> s.day, at |-> now, count |-> n, fresh |-> Fresh(o.targets)]
           mine  == [entry |-> e, day |-> s.day, count |-> n, fresh |-> f, last |-> Stamp(s),
                     previousLast |-> s.last, contacts |-> Elems(o.targets) \ contacts]
           added == Elems(o.targets)
<1>1. /\ ~Refused(s, o.targets)
      /\ usage' = [s EXCEPT !.today = @ + n, !.newChats = @ + f, !.tokens = @ - n * Minute, !.last = Stamp(s)]
      /\ contacts' = contacts \cup added
      /\ rcpt' = [rcpt EXCEPT ![r] = IF o.receipt THEN mine ELSE NoReceipt]
      /\ ledger' = Append(ledger, row)
      /\ happened' = happened \cup {e} /\ charged' = charged \cup {e} /\ freshCharged' = freshCharged \cup {e}
      /\ pc' = [pc EXCEPT ![r] = "ready"]
      /\ UNCHANGED <<now, limits, archived, nSet>>
  BY DEF ReserveSend
<1>2. Reads(s)
  BY ReadMeans
<1> HIDE DEF s
<1>3. o.targets \in Seq(JIDs) /\ n \in Nat
  BY LimitsAssumption
<1>4. IsFiniteSet(Fresh(o.targets)) /\ Fresh(o.targets) \subseteq {Chat(j) : j \in JIDs} /\ f \in Nat /\ added \subseteq JIDs
  BY <1>3, FreshFinite, ElemsFinite, FS_CardinalityType, Zenon
<1>5. s \in Used /\ s.day = Today /\ s.refill = now /\ s.rate = limits.minute /\ s.last = usage.last
  BY <1>2, Zenon DEF Reads
<1>6. /\ now \in Nat \ {0} /\ Today \in Nat /\ Minute \in Nat /\ s.last \in Nat /\ s.tokens \in Int /\ s.today \in Nat
      /\ s.newChats \in Nat /\ limits.minute \in Nat /\ limits.day \in Nat /\ limits.fresh \in Nat /\ nSet \in Nat
      /\ usage.day \in Int /\ usage.refill \in Nat
  BY <1>3, <1>5, TodayNat, LimitsAssumption, Zenon DEF BudgetInv, BudgetTypes, Used, Limits
<1>6p. n * Minute \in Nat /\ limits.minute * Minute \in Nat
  BY <1>3, <1>6
<1>7. Stamp(s) \in Nat /\ Stamp(s) > s.last
  BY <1>6 DEF Stamp, Most
<1>8. /\ usage'.day = Today /\ usage'.today = s.today + n /\ usage'.newChats = s.newChats + f
      /\ usage'.tokens = s.tokens - n * Minute /\ usage'.rate = limits.minute /\ usage'.refill = now
      /\ usage'.last = Stamp(s) /\ usage' \in Used
  <2>1. usage' = [day |-> s.day, today |-> s.today + n, newChats |-> s.newChats + f, tokens |-> s.tokens - n * Minute,
                  rate |-> s.rate, refill |-> s.refill, last |-> Stamp(s)]
    BY <1>1, <1>5, Zenon DEF Used
  <2>2. s.today + n \in Nat /\ s.newChats + f \in Nat /\ s.tokens - n * Minute \in Int
    <3> DEFINE w == n * Minute
    <3>1. n \in Nat /\ f \in Nat /\ s.today \in Nat /\ s.newChats \in Nat /\ s.tokens \in Int /\ w \in Int
      BY <1>3, <1>4, <1>6, <1>6p
    <3> HIDE DEF n, f, w
    <3>2. s.tokens - w \in Int
      BY <3>1
    <3> QED BY <3>1, <3>2 DEF w
  <2>3. s.day \in Int /\ s.rate \in Nat /\ s.refill \in Nat
    BY <1>5, <1>6
  <2> HIDE DEF n, f
  <2> QED BY <1>5, <1>7, <2>1, <2>2, <2>3 DEF Used
<1>9. row \in Row /\ row.day = Today /\ row.at = now /\ row.count = n /\ row.fresh = Fresh(o.targets)
  BY <1>3, <1>4, <1>5, <1>6, Zenon DEF Row
<1> HIDE DEF row
<1>10. /\ ledger' \in Seq(Row) /\ Len(ledger') = e /\ e \in Nat \ {0}
       /\ DOMAIN ledger = 1..Len(ledger) /\ Len(ledger) \in Nat
       /\ DOMAIN ledger' = DOMAIN ledger \cup {e} /\ e \notin DOMAIN ledger
       /\ ledger'[e] = row /\ \A k \in DOMAIN ledger : ledger'[k] = ledger[k]
       /\ IsFiniteSet(Units(DOMAIN ledger', Messages')) /\ IsFiniteSet(Units(DOMAIN ledger', NewChats'))
  BY <1>1, <1>4, <1>9, Charging
<1>11. \A S \in SUBSET DOMAIN ledger :
         /\ Total(S, Messages') = Total(S, Messages) /\ Total(S, NewChats') = Total(S, NewChats)
         /\ Total(S \cup {e}, Messages') = Total(S, Messages) + n
         /\ Total(S \cup {e}, NewChats') = Total(S, NewChats) + f
  BY <1>1, <1>4, <1>9, Charging, Zenon
<1>10n. e \in Nat /\ Len(ledger) \in Nat /\ DOMAIN ledger = 1..Len(ledger)
  BY <1>10
<1>12. Len(ledger) < e /\ \A k \in DOMAIN ledger : k \in Nat /\ k < e
  BY <1>10n
<1> HIDE DEF e, n, f
<1>13. /\ \A q \in Live' : q = r => rcpt'[q] = mine
       /\ \A q \in Live' : q # r => q \in Live /\ rcpt'[q] = rcpt[q] /\ pc'[q] = pc[q]
       /\ pc'[r] = "ready" /\ pc' \in [Requests -> Stages]
  <2>1. rcpt \in [Requests -> Held] /\ pc \in [Requests -> Stages]
    BY DEF BudgetInv, BudgetTypes
  <2>2. NoReceipt.entry = 0
    BY DEF NoReceipt
  <2> HIDE DEF mine
  <2>3. rcpt'[r] = (IF o.receipt THEN mine ELSE NoReceipt) /\ \A q \in Requests : q # r => rcpt'[q] = rcpt[q]
    BY <1>1, <2>1
  <2>4. rcpt'[r] = mine \/ rcpt'[r] = NoReceipt
    BY <2>3
  <2>5. \A q \in Live' : q \in Requests /\ rcpt'[q].entry # 0
    BY DEF Live
  <2>6. \A q \in Live' : q = r => rcpt'[q] = mine
    BY <2>2, <2>4, <2>5
  <2>7. \A q \in Live' : q # r => q \in Live /\ rcpt'[q] = rcpt[q]
    BY <2>3, <2>5 DEF Live
  <2>8. pc'[r] = "ready" /\ pc' \in [Requests -> Stages] /\ \A q \in Requests : q # r => pc'[q] = pc[q]
    <3>1. pc' = [pc EXCEPT ![r] = "ready"]
      BY <1>1
    <3> QED BY <2>1, <3>1 DEF Stages
  <2> QED BY <2>5, <2>6, <2>7, <2>8
<1>14. mine \in Held /\ NoReceipt \in Held
  BY <1>3, <1>4, <1>5, <1>6, <1>7, <1>10, Zenon DEF Held, NoReceipt
<1>15. BudgetTypes'
  <2>1. rcpt' \in [Requests -> Held]
    <3> HIDE DEF mine
    <3> QED BY <1>1, <1>14 DEF BudgetInv, BudgetTypes
  <2>2. contacts' \subseteq JIDs /\ charged' \subseteq DOMAIN ledger' /\ freshCharged' \subseteq DOMAIN ledger'
    BY <1>1, <1>4, <1>10 DEF BudgetInv, BudgetTypes
  <2> QED BY <1>1, <1>8, <1>10, <1>13, <2>1, <2>2 DEF BudgetInv, BudgetTypes
<1>16. Today' = Today
  BY <1>1, Zenon DEF Today
<1>17. charged \subseteq DOMAIN ledger /\ freshCharged \subseteq DOMAIN ledger /\ happened \subseteq DOMAIN ledger
  BY Zenon DEF BudgetInv, BudgetTypes, BookInv
<1>18. BookInv'
  <2>1. happened' \subseteq charged' /\ charged' \subseteq freshCharged'
    BY <1>1 DEF BudgetInv, BookInv
  <2>2. usage'.day <= Today' /\ usage'.refill <= now' /\ usage'.refill # 0
    BY <1>1, <1>6, <1>8, <1>16
  <2>3. ASSUME NEW k \in DOMAIN ledger'
        PROVE  ledger'[k].day <= usage'.day /\ ledger'[k].at <= usage'.refill /\ IsFiniteSet(ledger'[k].fresh)
    <3>1. CASE k = e
      <4>1. ledger'[k] = row
        BY <1>10, <3>1
      <4>2. ledger'[k].day = Today /\ ledger'[k].at = now /\ ledger'[k].fresh = Fresh(o.targets)
        BY <1>9, <4>1, Zenon
      <4> QED BY <1>4, <1>6, <1>8, <4>2
    <3>2. CASE k # e
      <4>1. k \in DOMAIN ledger /\ ledger'[k] = ledger[k]
        BY <1>10, <3>2
      <4>2. ledger[k].day \in Nat /\ ledger[k].at \in Nat
        BY <4>1, RowTypes, Zenon DEF BudgetInv
      <4>3. /\ ledger[k].day <= usage.day /\ ledger[k].at <= usage.refill /\ IsFiniteSet(ledger[k].fresh)
            /\ usage.day <= Today /\ usage.refill <= now
        BY <4>1, Zenon DEF BudgetInv, BookInv
      <4> QED BY <1>6, <1>8, <4>1, <4>2, <4>3
    <3> QED BY <3>1, <3>2, Zenon
  <2> QED BY <1>10, <2>1, <2>2, <2>3 DEF BookInv
<1>19. ReceiptInv'
  <2>1. ASSUME NEW q \in Live'
        PROVE  /\ rcpt'[q].entry \in charged'
               /\ rcpt'[q].day = ledger'[rcpt'[q].entry].day /\ rcpt'[q].count = ledger'[rcpt'[q].entry].count
               /\ rcpt'[q].fresh = Cardinality(ledger'[rcpt'[q].entry].fresh)
               /\ pc'[q] = "release" => rcpt'[q].entry \notin happened'
    <3>1. CASE q = r
      <4>1. rcpt'[q].entry = e /\ rcpt'[q].day = s.day /\ rcpt'[q].count = n /\ rcpt'[q].fresh = f
        <5>1. mine.entry = e /\ mine.day = s.day /\ mine.count = n /\ mine.fresh = f
          BY Zenon
        <5> HIDE DEF mine
        <5>2. rcpt'[q] = mine
          BY <1>13, <3>1, Zenon
        <5> QED BY <5>1, <5>2, Zenon
      <4> QED BY <1>1, <1>5, <1>9, <1>10, <1>13, <3>1, <4>1 DEF f
    <3>2. CASE q # r
      <4>1. q \in Live /\ rcpt'[q] = rcpt[q] /\ pc'[q] = pc[q]
        BY <1>13, <3>2, Zenon
      <4>2. /\ rcpt[q].entry \in charged
            /\ rcpt[q].day = ledger[rcpt[q].entry].day /\ rcpt[q].count = ledger[rcpt[q].entry].count
            /\ rcpt[q].fresh = Cardinality(ledger[rcpt[q].entry].fresh)
            /\ pc[q] = "release" => rcpt[q].entry \notin happened
        BY <4>1, Zenon DEF BudgetInv, ReceiptInv
      <4>3. rcpt[q].entry \in DOMAIN ledger /\ rcpt[q].entry # e
        BY <1>10, <1>17, <4>2, Zenon
      <4> QED BY <1>1, <1>10, <4>1, <4>2, <4>3
    <3> QED BY <3>1, <3>2, Zenon
  <2>2. \A q, p \in Live' : rcpt'[q].entry = rcpt'[p].entry => q = p
    <3>1. \A q \in Live : rcpt[q].entry # e
      BY <1>10, <1>17, Zenon DEF BudgetInv, ReceiptInv
    <3>2. \A q, p \in Live : rcpt[q].entry = rcpt[p].entry => q = p
      BY Zenon DEF BudgetInv, ReceiptInv
    <3>3. mine.entry = e
      BY Zenon
    <3> HIDE DEF mine
    <3> QED BY <1>13, <3>1, <3>2, <3>3
  <2> QED BY <2>1, <2>2, Zenon DEF ReceiptInv
<1>20. OrderInv'
  <2>1. \A q \in Live : rcpt[q].last \in Nat /\ rcpt[q].last <= s.last /\ rcpt[q].last < Stamp(s) /\ rcpt[q].entry \in Nat
    <3> SUFFICES ASSUME NEW q \in Live
                 PROVE  rcpt[q].last \in Nat /\ rcpt[q].last <= s.last /\ rcpt[q].last < Stamp(s) /\ rcpt[q].entry \in Nat
      OBVIOUS
    <3>1. rcpt[q] \in Held
      BY Zenon DEF BudgetInv, BudgetTypes, Live
    <3>2. rcpt[q].last \in Nat /\ rcpt[q].last <= s.last /\ rcpt[q].entry \in Nat
      BY <1>5, <3>1, Zenon DEF BudgetInv, OrderInv, Held
    <3> QED BY <1>6, <1>7, <3>2
  <2>2. \A q \in Live : rcpt[q].entry \in DOMAIN ledger /\ rcpt[q].entry < e /\ rcpt[q].entry # e
    BY <1>10, <1>12, <1>17, Zenon DEF BudgetInv, ReceiptInv
  <2>3. mine.entry = e /\ mine.last = Stamp(s) /\ mine.previousLast = s.last
    BY Zenon
  <2> HIDE DEF mine
  <2>4. ASSUME NEW q \in Live'
        PROVE  /\ rcpt'[q].last <= usage'.last
               /\ rcpt'[q].last = usage'.last => \A k \in freshCharged' : k <= rcpt'[q].entry
    <3>1. CASE q = r
      <4>1. rcpt'[q].last = Stamp(s) /\ rcpt'[q].entry = e
        BY <1>13, <2>3, <3>1
      <4>2. \A k \in freshCharged' : k <= e
        BY <1>1, <1>10, <1>12, <1>17
      <4> QED BY <1>7, <1>8, <4>1, <4>2
    <3>2. CASE q # r
      <4>1. q \in Live /\ rcpt'[q] = rcpt[q]
        BY <1>13, <3>2
      <4>2. rcpt[q].last \in Nat /\ rcpt[q].last < Stamp(s)
        BY <2>1, <4>1, Zenon
      <4> QED BY <1>7, <1>8, <4>1, <4>2
    <3> QED BY <3>1, <3>2, Zenon
  <2>5. ASSUME NEW q \in Live', NEW p \in Live', rcpt'[q].entry < rcpt'[p].entry
        PROVE  /\ rcpt'[q].last <= rcpt'[p].previousLast
               /\ rcpt'[q].last = rcpt'[p].previousLast =>
                    \A k \in freshCharged' : k <= rcpt'[q].entry \/ k >= rcpt'[p].entry
    <3>1. q # r
      <4> SUFFICES ASSUME q = r PROVE FALSE
        BY Zenon
      <4>1. rcpt'[q].entry = e
        BY <1>13, <2>3, Zenon
      <4>2. rcpt'[p].entry = e \/ (rcpt'[p].entry \in Nat /\ rcpt'[p].entry < e)
        <5>1. CASE p = r
          BY <1>13, <2>3, <5>1, Zenon
        <5>2. CASE p # r
          <6>1. p \in Live /\ rcpt'[p] = rcpt[p]
            BY <1>13, <5>2, Zenon
          <6> QED BY <2>1, <2>2, <6>1, Zenon
        <5> QED BY <5>1, <5>2, Zenon
      <4> QED BY <1>10n, <2>5, <4>1, <4>2
    <3>2. q \in Live /\ rcpt'[q] = rcpt[q]
      BY <1>13, <3>1, Zenon
    <3>3. CASE p = r
      <4>1. rcpt'[p].entry = e /\ rcpt'[p].previousLast = s.last
        BY <1>13, <2>3, <3>3, Zenon
      <4>2. rcpt[q].last <= s.last
        BY <2>1, <3>2, Zenon
      <4>3. ASSUME rcpt[q].last = s.last, NEW k \in freshCharged'
            PROVE  k <= rcpt[q].entry \/ k >= e
        <5>1. CASE k = e
          BY <1>10n, <5>1
        <5>2. CASE k # e
          BY <1>1, <1>5, <3>2, <4>3, <5>2 DEF BudgetInv, OrderInv
        <5> QED BY <5>1, <5>2, Zenon
      <4> QED BY <3>2, <4>1, <4>2, <4>3, Zenon
    <3>4. CASE p # r
      <4>1. p \in Live /\ rcpt'[p] = rcpt[p]
        BY <1>13, <3>4, Zenon
      <4>2. /\ rcpt[q].last <= rcpt[p].previousLast
            /\ rcpt[q].last = rcpt[p].previousLast =>
                 \A k \in freshCharged : k <= rcpt[q].entry \/ k >= rcpt[p].entry
        BY <2>5, <3>2, <4>1, Zenon DEF BudgetInv, OrderInv
      <4>3. rcpt[p].entry \in Nat /\ rcpt[p].entry < e
        BY <2>1, <2>2, <4>1, Zenon
      <4>4. e >= rcpt[p].entry
        BY <1>10, <4>3
      <4> QED BY <1>1, <3>2, <4>1, <4>2, <4>4, Zenon
    <3> QED BY <3>3, <3>4
  <2> QED BY <2>4, <2>5, Zenon DEF OrderInv
<1>21. ASSUME NEW jid \in contacts', Chat(jid) \in Fresh(o.targets)
       PROVE  jid \in added \ contacts
  <2>1. PICK t \in added : ~Known(t) /\ Chat(jid) = Chat(t)
    BY <1>21 DEF Fresh
  <2>2. jid \notin contacts
    BY <2>1, Zenon DEF Known, Chat
  <2> QED BY <1>1, <2>2
<1>22. ContactInv'
  <2>1. \A q \in Live : rcpt[q].entry \in DOMAIN ledger /\ rcpt[q].entry < e /\ rcpt[q].entry # e
    BY <1>10, <1>12, <1>17 DEF BudgetInv, ReceiptInv
  <2>2. mine.entry = e /\ mine.contacts = added \ contacts
    OBVIOUS
  <2> HIDE DEF mine
  <2> SUFFICES ASSUME NEW q \in Live', NEW jid \in contacts', Chat(jid) \in ledger'[rcpt'[q].entry].fresh,
                      jid \notin rcpt'[q].contacts
               PROVE  \E k \in freshCharged' :
                        k > rcpt'[q].entry /\ \A p \in Live' : rcpt'[p].entry = k => jid \in rcpt'[p].contacts
    BY Zenon DEF ContactInv
  <2>3. CASE q = r
    <3>1. rcpt'[q].entry = e /\ rcpt'[q].contacts = added \ contacts
      BY <1>13, <2>2, <2>3
    <3>2. Chat(jid) \in Fresh(o.targets)
      BY <1>9, <1>10, <3>1, Zenon
    <3> QED BY <1>21, <3>1, <3>2, Zenon
  <2>4. CASE q # r
    <3>1. q \in Live /\ rcpt'[q] = rcpt[q]
      BY <1>13, <2>4, Zenon
    <3>2. Chat(jid) \in ledger[rcpt[q].entry].fresh
      BY <1>10, <2>1, <3>1, Zenon
    <3>3. CASE jid \notin contacts
      <4>1. jid \in added \ contacts
        BY <1>1, <3>3
      <4>2. \A p \in Live' : rcpt'[p].entry = e => jid \in rcpt'[p].contacts
        BY <1>13, <2>1, <2>2, <4>1, Zenon
      <4>3. e \in freshCharged' /\ e > rcpt[q].entry
        BY <1>1, <1>10, <2>1, <3>1, Zenon
      <4> QED BY <3>1, <4>2, <4>3
    <3>4. CASE jid \in contacts
      <4>1. PICK k \in freshCharged :
              k > rcpt[q].entry /\ \A p \in Live : rcpt[p].entry = k => jid \in rcpt[p].contacts
        BY <3>1, <3>2, <3>4 DEF BudgetInv, ContactInv
      <4>2. k \in freshCharged' /\ k # e
        BY <1>1, <1>10, <1>17, Zenon
      <4>3. \A p \in Live' : rcpt'[p].entry = k => jid \in rcpt'[p].contacts
        BY <1>13, <2>2, <4>1, <4>2
      <4> QED BY <3>1, <4>1, <4>2, <4>3, Zenon
    <3> QED BY <3>3, <3>4, Zenon
  <2> QED BY <2>3, <2>4, Zenon
<1>23. ContactsCharged'
  <2>1. ASSUME NEW jid \in contacts
        PROVE  \/ Chat(jid) \cap archived # {}
               \/ \E k \in freshCharged' : Chat(jid) \in ledger'[k].fresh
    <3> SUFFICES ASSUME Chat(jid) \cap archived = {}
                 PROVE  \E k \in freshCharged' : Chat(jid) \in ledger'[k].fresh
      BY Zenon
    <3>1. PICK k \in freshCharged : Chat(jid) \in ledger[k].fresh
      BY DEF BudgetInv, ContactsCharged
    <3>2. k \in freshCharged' /\ ledger'[k] = ledger[k]
      BY <1>1, <1>10, <1>17, Zenon
    <3> QED BY <3>1, <3>2, Zenon
  <2>2. ASSUME NEW t \in added
        PROVE  \/ Chat(t) \cap archived # {}
               \/ \E k \in freshCharged' : Chat(t) \in ledger'[k].fresh
    <3>1. CASE ~Known(t)
      <4>1. Chat(t) \in Fresh(o.targets)
        BY <3>1 DEF Fresh
      <4>2. e \in freshCharged' /\ ledger'[e].fresh = Fresh(o.targets)
        BY <1>1, <1>9, <1>10, Zenon
      <4> QED BY <4>1, <4>2
    <3>2. CASE Known(t) /\ Chat(t) \cap archived = {}
      <4>1. PICK c \in contacts : c = t \/ c = Twin(t)
        BY <3>2 DEF Known, Chat
      <4>2. t \in JIDs
        BY <1>4
      <4>3. Twin(Twin(t)) = t
        BY <4>2, LimitsAssumption
      <4>4. Chat(c) = Chat(t)
        BY <4>1, <4>3, Zenon DEF Chat
      <4> QED BY <2>1, <4>1, <4>4
    <3> QED BY <3>1, <3>2, Zenon
  <2> QED BY <1>1, <2>1, <2>2, Zenon DEF ContactsCharged
<1>24. \A d \in Nat : OnDay(d)' = OnDay(d) \cup {k \in {e} : d = Today}
  <2>1. ledger'[e].day = Today
    BY <1>9, <1>10, Zenon
  <2> QED BY <1>10, <2>1, Zenon DEF OnDay
<1>25. ASSUME NEW d \in Nat
       PROVE  /\ Total(charged' \cap OnDay(d)', Messages')
                   = Total(charged \cap OnDay(d), Messages) + (IF d = Today THEN n ELSE 0)
              /\ Total(freshCharged' \cap OnDay(d)', NewChats')
                   = Total(freshCharged \cap OnDay(d), NewChats) + (IF d = Today THEN f ELSE 0)
              /\ Total(charged \cap OnDay(d), Messages) \in Nat /\ Total(freshCharged \cap OnDay(d), NewChats) \in Nat
  <2> DEFINE S == charged \cap OnDay(d)
             F == freshCharged \cap OnDay(d)
  <2>1. S \in SUBSET DOMAIN ledger /\ F \in SUBSET DOMAIN ledger
    BY <1>17
  <2>2. Total(S, Messages) \in Nat /\ Total(F, NewChats) \in Nat
    BY <2>1, TotalsNat
  <2>3. CASE d = Today
    <3>1. charged' \cap OnDay(d)' = S \cup {e} /\ freshCharged' \cap OnDay(d)' = F \cup {e}
      <4>1. charged' = charged \cup {e} /\ freshCharged' = freshCharged \cup {e}
        BY <1>1
      <4>2. OnDay(d)' = OnDay(d) \cup {e}
        <5>1. OnDay(d)' = OnDay(d) \cup {k \in {e} : d = Today}
          BY <1>24
        <5>2. {k \in {e} : d = Today} = {e}
          BY <2>3, Zenon
        <5> QED BY <5>1, <5>2
      <4> QED BY <4>1, <4>2
    <3> HIDE DEF S, F
    <3>2. Total(S \cup {e}, Messages') = Total(S, Messages) + n /\ Total(F \cup {e}, NewChats') = Total(F, NewChats) + f
      BY <1>11, <2>1, Zenon
    <3> QED BY <2>2, <2>3, <3>1, <3>2, Zenon DEF S, F
  <2>4. CASE d # Today
    <3>1. OnDay(d) \subseteq DOMAIN ledger
      BY Zenon DEF OnDay
    <3>2. charged' \cap OnDay(d)' = S /\ freshCharged' \cap OnDay(d)' = F
      <4>1. charged' = charged \cup {e} /\ freshCharged' = freshCharged \cup {e}
        BY <1>1
      <4>2. e \notin OnDay(d)
        BY <1>10, <3>1, Zenon
      <4>3. OnDay(d)' = OnDay(d)
        <5>1. OnDay(d)' = OnDay(d) \cup {k \in {e} : d = Today}
          BY <1>24
        <5>2. {k \in {e} : d = Today} = {}
          BY <2>4
        <5> QED BY <5>1, <5>2
      <4> QED BY <4>1, <4>2, <4>3, Zenon
    <3> HIDE DEF S, F
    <3>3. Total(S, Messages') = Total(S, Messages) /\ Total(F, NewChats') = Total(F, NewChats)
      BY <1>11, <2>1, Zenon
    <3>4. Total(S, Messages) = Total(S, Messages) + 0 /\ Total(F, NewChats) = Total(F, NewChats) + 0
      BY <2>2
    <3> QED BY <2>2, <2>4, <3>2, <3>3, <3>4, Zenon DEF S, F
  <2> QED BY <2>2, <2>3, <2>4
<1>26. /\ s.today = Total(charged \cap OnDay(Today), Messages)
       /\ s.newChats = Total(freshCharged \cap OnDay(Today), NewChats)
  BY <1>2 DEF Reads
<1>27. CountersExact'
  <2>1. /\ Total(charged' \cap OnDay(Today)', Messages') = s.today + n
        /\ Total(freshCharged' \cap OnDay(Today)', NewChats') = s.newChats + f
    BY <1>6, <1>16, <1>25, <1>26, Zenon
  <2>2. usage'.day = Today' /\ usage'.today = s.today + n /\ usage'.newChats = s.newChats + f
    BY <1>8, <1>16, Zenon
  <2> QED BY <1>16, <2>1, <2>2 DEF CountersExact
<1>28. DayInv'
  <2> SUFFICES ASSUME nSet' = 0, NEW d \in Nat
               PROVE  /\ limits'.day > 0 => Total(charged' \cap OnDay(d)', Messages') <= limits'.day
                      /\ limits'.fresh > 0 => Total(freshCharged' \cap OnDay(d)', NewChats') <= limits'.fresh
    BY DEF DayInv
  <2>1. nSet = 0 /\ limits' = limits
    BY <1>1, Zenon
  <2>2. /\ limits.day > 0 => Total(charged \cap OnDay(d), Messages) <= limits.day
        /\ limits.fresh > 0 => Total(freshCharged \cap OnDay(d), NewChats) <= limits.fresh
    BY <2>1, Zenon DEF BudgetInv, DayInv
  <2>3. /\ limits.day > 0 => s.today + n <= limits.day
        /\ limits.fresh > 0 => s.newChats + f <= limits.fresh
    <3>1. /\ ~(limits.day > 0 /\ s.today + n > limits.day)
          /\ ~(limits.fresh > 0 /\ s.newChats + f > limits.fresh)
      BY <1>1 DEF Refused, n, f
    <3>2. n \in Nat /\ f \in Nat
      BY <1>3, <1>4
    <3> QED BY <1>6, <3>1, <3>2
  <2>4. CASE d = Today
    <3>1. /\ Total(charged' \cap OnDay(d)', Messages') = s.today + n
          /\ Total(freshCharged' \cap OnDay(d)', NewChats') = s.newChats + f
      BY <1>25, <1>26, <2>4, Zenon
    <3> QED BY <2>1, <2>3, <3>1
  <2>5. CASE d # Today
    <3>1. /\ Total(charged' \cap OnDay(d)', Messages') = Total(charged \cap OnDay(d), Messages)
          /\ Total(freshCharged' \cap OnDay(d)', NewChats') = Total(freshCharged \cap OnDay(d), NewChats)
      <4> DEFINE A == Total(charged \cap OnDay(d), Messages)
                 B == Total(freshCharged \cap OnDay(d), NewChats)
      <4>1. /\ Total(charged' \cap OnDay(d)', Messages') = A + 0 /\ A \in Nat
            /\ Total(freshCharged' \cap OnDay(d)', NewChats') = B + 0 /\ B \in Nat
        BY <1>25, <2>5, Zenon
      <4> HIDE DEF A, B
      <4>2. A + 0 = A /\ B + 0 = B
        BY <4>1
      <4>3. /\ Total(charged' \cap OnDay(d)', Messages') = A
            /\ Total(freshCharged' \cap OnDay(d)', NewChats') = B
        BY <4>1, <4>2
      <4> QED BY <4>3 DEF A, B
    <3> QED BY <2>1, <2>2, <3>1
  <2> QED BY <2>4, <2>5
<1>29. BucketInv'
  <2> SUFFICES ASSUME nSet' = 0, limits'.minute > 0, NEW i \in DOMAIN ledger'
               PROVE  /\ Total(charged' \cap (i..Len(ledger')), Messages') * Minute + usage'.tokens
                           <= limits'.minute * Minute + limits'.minute * (usage'.refill - ledger'[i].at)
                      /\ \A j \in DOMAIN ledger' : i <= j =>
                           Total(charged' \cap (i..j), Messages') * Minute
                             <= limits'.minute * Minute + limits'.minute * (ledger'[j].at - ledger'[i].at)
    <3>1. usage'.rate = limits'.minute
      BY <1>1, <1>8
    <3> QED BY <3>1, Zenon DEF BucketInv
  <2> DEFINE m == limits.minute
             full == m * Minute
             left(a) == m * (now - a)
             T == Total(charged \cap (i..Len(ledger)), Messages)
             U == Total(charged' \cap (i..e), Messages')
  <2>1. nSet = 0 /\ limits' = limits /\ m > 0 /\ m \in Nat
    BY <1>1, <1>6
  <2>1f. full \in Int
    BY <1>6p
  <2>2. n * Minute <= s.tokens
    <3>1. ~(limits.minute > 0 /\ s.tokens < n * Minute)
      BY <1>1 DEF Refused, n
    <3> DEFINE w == n * Minute
    <3>2. w \in Int /\ ~(s.tokens < w)
      BY <1>6p, <2>1, <3>1
    <3> HIDE DEF w
    <3>3. w <= s.tokens
      BY <1>6, <3>2
    <3> QED BY <3>3 DEF w
  <2>3. s.tokens <= full
    BY <1>2, Zenon DEF Reads
  <2>4. ledger'[i].at \in Nat
    <3>1. CASE i = e
      BY <1>6, <1>9, <1>10, <3>1, Zenon
    <3>2. CASE i # e
      <4>1. i \in DOMAIN ledger /\ ledger'[i] = ledger[i]
        BY <1>10, <3>2, Zenon
      <4> QED BY <4>1, RowTypes, Zenon DEF BudgetInv
    <3> QED BY <3>1, <3>2
  <2>5. left(ledger'[i].at) \in Int
    <3>1. now - ledger'[i].at \in Int
      BY <1>6, <2>4
    <3> QED BY <2>1, <3>1
  <2>6. U * Minute + (s.tokens - n * Minute) <= full + left(ledger'[i].at) /\ U * Minute <= full + left(ledger'[i].at)
    <3>1. CASE i = e
      <4>1. charged' \cap (i..e) = {} \cup {e}
        <5>1. i..e = {e}
          BY <1>10, <3>1
        <5> QED BY <1>1, <5>1, Zenon
      <4>2. U = n
        <5>1. Total({} \cup {e}, Messages') = Total({}, Messages) + n
          BY <1>11, Zenon
        <5>2. n \in Nat
          BY <1>3
        <5>3. Total({}, Messages) + n = n
          BY <5>2, NoUnits
        <5> QED BY <4>1, <5>1, <5>3, Zenon
      <4>3. ledger'[i].at = now
        BY <1>9, <1>10, <3>1, Zenon
      <4>4. left(ledger'[i].at) = 0
        BY <1>6, <2>1, <4>3
      <4> DEFINE w == n * Minute
      <4>5. w \in Int /\ w <= s.tokens
        BY <1>6p, <2>2
      <4> HIDE DEF w, full, left, U
      <4>6. w + (s.tokens - w) <= full + 0 /\ w <= full + 0
        BY <1>6, <2>1f, <2>3, <4>5
      <4> QED BY <4>2, <4>4, <4>6 DEF w
    <3>2. CASE i # e
      <4>1. i \in DOMAIN ledger /\ ledger'[i] = ledger[i]
        BY <1>10, <3>2
      <4> DEFINE S == charged \cap (i..Len(ledger))
      <4>2. charged' \cap (i..e) = S \cup {e} /\ S \in SUBSET DOMAIN ledger
        <5>1. i..e = (i..Len(ledger)) \cup {e}
          BY <1>10, <4>1 DEF e
        <5> QED BY <1>1, <1>10, <1>17, <5>1, Zenon
      <4>3. U = T + n /\ T \in Nat
        BY <1>11, <4>2, TotalsNat, Zenon
      <4>4. T * Minute + s.tokens <= full + left(ledger'[i].at)
        BY <1>2, <2>1, <4>1, Zenon DEF Reads
      <4> DEFINE w == n * Minute
                 x == T * Minute
                 y == left(ledger'[i].at)
      <4>5. U * Minute = x + w /\ x \in Int /\ w \in Int
        <5>1. n \in Nat
          BY <1>3
        <5> HIDE DEF T, U
        <5> QED BY <1>6, <4>3, <5>1, Scale
      <4>6. w <= s.tokens /\ x + s.tokens <= full + y /\ y \in Int
        BY <2>2, <2>5, <4>4, Zenon
      <4> HIDE DEF w, x, y, full, left, U, T
      <4>7. (x + w) + (s.tokens - w) <= full + y /\ x + w <= full + y
        BY <1>6, <2>1f, <4>5, <4>6
      <4> QED BY <4>5, <4>7, Zenon DEF w, y
    <3> QED BY <3>1, <3>2, Zenon
  <2>7. ASSUME NEW j \in DOMAIN ledger', i <= j
        PROVE  Total(charged' \cap (i..j), Messages') * Minute <= full + m * (ledger'[j].at - ledger'[i].at)
    <3>1. CASE j = e
      BY <1>9, <1>10, <2>6, <3>1, Zenon
    <3>2. CASE j # e
      <4>1. j \in DOMAIN ledger /\ ledger'[j] = ledger[j] /\ j < e /\ j \in Nat
        BY <1>10, <1>12, <3>2, Zenon
      <4>2. i \in DOMAIN ledger /\ ledger'[i] = ledger[i]
        <5>1. i # e
          BY <1>10, <2>7, <4>1
        <5> QED BY <1>10, <5>1, Zenon
      <4>3. charged' \cap (i..j) = charged \cap (i..j)
        <5>1. e \notin i..j
          BY <1>10, <4>1
        <5> QED BY <1>1, <5>1, Zenon
      <4>4. charged \cap (i..j) \in SUBSET DOMAIN ledger
        BY <1>17
      <4>5. Total(charged \cap (i..j), Messages') = Total(charged \cap (i..j), Messages)
        BY <1>11, <4>4, Zenon
      <4>6. Total(charged \cap (i..j), Messages) * Minute <= full + m * (ledger[j].at - ledger[i].at)
        BY <2>1, <2>7, <4>1, <4>2, Zenon DEF BudgetInv, BucketInv
      <4> QED BY <4>1, <4>2, <4>3, <4>5, <4>6, Zenon
    <3> QED BY <3>1, <3>2
  <2> QED BY <1>8, <1>10, <2>1, <2>6, <2>7, Zenon
<1>30. BucketCapped'
  <2> DEFINE w == n * Minute
             full == limits.minute * Minute
  <2>1. w \in Nat /\ full \in Nat /\ s.tokens <= full
    BY <1>2, <1>6p DEF Reads
  <2>2. usage'.tokens = s.tokens - w /\ usage'.rate * Minute = full
    BY <1>8
  <2> HIDE DEF w, full
  <2>3. s.tokens - w <= full
    BY <1>6, <2>1
  <2> QED BY <2>2, <2>3, Zenon DEF BucketCapped
<1> QED BY <1>15, <1>18, <1>19, <1>20, <1>22, <1>23, <1>27, <1>28, <1>29, <1>30 DEF BudgetInv
(* releaseSendReservation: a refund takes back exactly its own charge, and the *)
(* new chats, the tokens and the time only when no later send used them.       *)
LEMMA ReleaseKeeps ==
  ASSUME BudgetInv, NEW r \in Requests, ReleaseSend(r)
  PROVE  BudgetInv'
<1> DEFINE s == ReadSendState
           q == rcpt[r]
           e == rcpt[r].entry
<1>1. /\ pc[r] = "release" /\ e # 0
      /\ usage' = [s EXCEPT
           !.today    = IF SameDay(s, q) THEN Most(0, @ - q.count) ELSE @,
           !.newChats = IF Latest(s, q) /\ SameDay(s, q) THEN Most(0, @ - q.fresh) ELSE @,
           !.tokens   = IF Latest(s, q) THEN Capped(@ + q.count * Minute) ELSE @,
           !.last     = IF Latest(s, q) THEN q.previousLast ELSE @]
      /\ contacts' = IF Latest(s, q) THEN contacts \ q.contacts ELSE contacts
      /\ charged' = charged \ {e}
      /\ freshCharged' = IF Latest(s, q) THEN freshCharged \ {e} ELSE freshCharged
      /\ pc' = [pc EXCEPT ![r] = "idle"] /\ rcpt' = [rcpt EXCEPT ![r] = NoReceipt]
      /\ UNCHANGED <<now, limits, archived, ledger, happened, nSet>>
  BY DEF ReleaseSend, End
<1>2. Reads(s)
  BY ReadMeans, Zenon
<1> HIDE DEF s
<1>3. s \in Used /\ s.day = Today /\ s.refill = now /\ s.rate = limits.minute /\ s.last = usage.last
  BY <1>2 DEF Reads
<1>4. q \in Held /\ rcpt \in [Requests -> Held] /\ pc \in [Requests -> Stages]
  BY Zenon DEF BudgetInv, BudgetTypes
<1>5. /\ now \in Nat \ {0} /\ Today \in Nat /\ Minute \in Nat /\ s.last \in Nat /\ s.tokens \in Int /\ s.today \in Nat
      /\ s.newChats \in Nat /\ limits.minute \in Nat /\ nSet \in Nat
      /\ usage.day \in Int /\ usage.refill \in Nat
  BY <1>3, TodayNat, LimitsAssumption DEF BudgetInv, BudgetTypes, Used, Limits
<1>6. /\ q.count \in Nat /\ q.fresh \in Nat /\ q.previousLast \in Nat /\ q.last \in Nat /\ e \in Nat
      /\ q.contacts \subseteq JIDs
  BY <1>4, Zenon DEF Held
<1>6p. q.count * Minute \in Nat /\ limits.minute * Minute \in Nat
  BY <1>5, <1>6
<1>7. r \in Live
  BY <1>1, Zenon DEF Live
<1>8. /\ e \in charged /\ e \in freshCharged /\ e \in DOMAIN ledger /\ e \notin happened
      /\ q.day = ledger[e].day /\ q.count = ledger[e].count /\ q.fresh = Cardinality(ledger[e].fresh)
  <2>1. charged \subseteq freshCharged /\ freshCharged \subseteq DOMAIN ledger /\ ReceiptInv
    BY DEF BudgetInv, BudgetTypes, BookInv
  <2>2. /\ e \in charged /\ e \notin happened
        /\ q.day = ledger[e].day /\ q.count = ledger[e].count /\ q.fresh = Cardinality(ledger[e].fresh)
    BY <1>1, <1>7, <2>1, Zenon DEF ReceiptInv
  <2> QED BY <2>1, <2>2, Zenon
<1>9. charged \subseteq freshCharged /\ freshCharged \subseteq DOMAIN ledger /\ DOMAIN ledger = 1..Len(ledger)
  BY DEF BudgetInv, BudgetTypes, BookInv
<1>10. /\ Live' \subseteq Live /\ r \notin Live'
       /\ \A p \in Live' : p # r /\ rcpt'[p] = rcpt[p] /\ pc'[p] = pc[p] /\ rcpt[p].entry # e
       /\ rcpt' \in [Requests -> Held] /\ pc' \in [Requests -> Stages]
  <2>1. NoReceipt \in Held /\ NoReceipt.entry = 0
    BY DEF NoReceipt, Held
  <2>2. rcpt' = [rcpt EXCEPT ![r] = NoReceipt] /\ pc' = [pc EXCEPT ![r] = "idle"]
    BY <1>1
  <2>3. /\ rcpt' \in [Requests -> Held] /\ pc' \in [Requests -> Stages] /\ rcpt'[r].entry = 0
        /\ \A p \in Requests : p # r => rcpt'[p] = rcpt[p] /\ pc'[p] = pc[p]
    BY <1>4, <2>1, <2>2, Zenon DEF Stages
  <2>4. Live' \subseteq Live /\ r \notin Live' /\ \A p \in Live' : p # r /\ rcpt'[p] = rcpt[p] /\ pc'[p] = pc[p]
    BY <2>3, Zenon DEF Live
  <2>5. \A p \in Live' : rcpt[p].entry # e
    BY <1>7, <2>4 DEF BudgetInv, ReceiptInv
  <2> QED BY <2>3, <2>4, <2>5, Zenon
<1>11. Messages' = Messages /\ NewChats' = NewChats /\ (\A d : OnDay(d)' = OnDay(d)) /\ Today' = Today
  BY <1>1, Zenon DEF Messages, NewChats, OnDay, Today
<1> DEFINE final == Latest(s, q)
<1>12. final = (usage.last = q.last)
  BY <1>3 DEF Latest
<1>13. /\ usage'.day = Today /\ usage'.rate = limits.minute /\ usage'.refill = now
       /\ usage'.today = (IF Today = q.day THEN Most(0, s.today - q.count) ELSE s.today)
       /\ usage'.newChats = (IF final /\ Today = q.day THEN Most(0, s.newChats - q.fresh) ELSE s.newChats)
       /\ usage'.tokens = (IF final THEN Capped(s.tokens + q.count * Minute) ELSE s.tokens)
       /\ usage'.last = (IF final THEN q.previousLast ELSE usage.last)
       /\ usage' \in Used
  <2> DEFINE a == IF Today = q.day THEN Most(0, s.today - q.count) ELSE s.today
             b == IF final /\ Today = q.day THEN Most(0, s.newChats - q.fresh) ELSE s.newChats
             t == IF final THEN Capped(s.tokens + q.count * Minute) ELSE s.tokens
             l == IF final THEN q.previousLast ELSE usage.last
  <2>1. usage' = [s EXCEPT !.today = a, !.newChats = b, !.tokens = t, !.last = l]
    <3>1. SameDay(s, q) <=> Today = q.day
      BY <1>3, Zenon DEF SameDay
    <3>2. s.last = usage.last
      BY <1>3, Zenon
    <3>3. usage' = [s EXCEPT
            !.today    = IF Today = q.day THEN Most(0, s.today - q.count) ELSE s.today,
            !.newChats = IF final /\ Today = q.day THEN Most(0, s.newChats - q.fresh) ELSE s.newChats,
            !.tokens   = IF final THEN Capped(s.tokens + q.count * Minute) ELSE s.tokens,
            !.last     = IF final THEN q.previousLast ELSE s.last]
      BY <1>1, <3>1, Zenon
    <3> QED BY <3>2, <3>3
  <2>2. a \in Nat
    BY <1>5, <1>6 DEF Most
  <2>3. b \in Nat
    <3> HIDE DEF final
    <3> QED BY <1>5, <1>6 DEF Most
  <2>4. t \in Int
    <3> DEFINE w == q.count * Minute
               full == limits.minute * Minute
    <3>1. w \in Int /\ full \in Int
      BY <1>6p
    <3> HIDE DEF w, full
    <3>2. Least(s.tokens + w, full) \in Int
      BY <1>5, <3>1 DEF Least
    <3> HIDE DEF final
    <3> QED BY <1>5, <3>2, Zenon DEF Capped, w, full
  <2>5. l \in Nat
    <3> HIDE DEF final
    <3> QED BY <1>3, <1>5, <1>6
  <2> HIDE DEF a, b, t, l
  <2>6. usage' = [day |-> s.day, today |-> a, newChats |-> b, tokens |-> t, rate |-> s.rate, refill |-> s.refill, last |-> l]
    BY <1>3, <2>1, Zenon DEF Used
  <2>7. s.day \in Int /\ s.rate \in Nat /\ s.refill \in Nat
    BY <1>3, Zenon DEF Used
  <2>8. usage' \in Used /\ usage'.day = Today /\ usage'.rate = limits.minute /\ usage'.refill = now
    BY <1>3, <2>2, <2>3, <2>4, <2>5, <2>6, <2>7, Zenon DEF Used
  <2>9. usage'.today = a /\ usage'.newChats = b /\ usage'.tokens = t /\ usage'.last = l
    BY <2>6
  <2> QED BY <2>8, <2>9, Zenon DEF a, b, t, l
<1>13d. usage'.day = Today /\ usage'.refill = now
  BY <1>13, Zenon
<1>14. /\ contacts' = IF final THEN contacts \ q.contacts ELSE contacts
       /\ freshCharged' = IF final THEN freshCharged \ {e} ELSE freshCharged
  BY <1>1
<1> HIDE DEF final
<1>15. charged' = charged \ {e} /\ now' = now /\ limits' = limits /\ archived' = archived /\ ledger' = ledger
       /\ happened' = happened /\ nSet' = nSet
  BY <1>1
<1>16. BudgetTypes'
  <2>1. contacts' \subseteq JIDs /\ charged' \subseteq DOMAIN ledger' /\ freshCharged' \subseteq DOMAIN ledger'
    BY <1>14, <1>15, Zenon DEF BudgetInv, BudgetTypes
  <2> QED BY <1>10, <1>13, <1>15, <2>1, Zenon DEF BudgetInv, BudgetTypes
<1>17. BookInv'
  <2>1. happened' \subseteq charged' /\ charged' \subseteq freshCharged'
    <3>1. happened \subseteq charged
      BY Zenon DEF BudgetInv, BookInv
    <3>2. freshCharged \ {e} \subseteq freshCharged'
      BY <1>14, Zenon
    <3> QED BY <1>8, <1>9, <1>15, <3>1, <3>2, Zenon
  <2>2. usage'.day <= Today' /\ usage'.refill <= now' /\ usage'.refill # 0
    BY <1>5, <1>11, <1>13d, <1>15
  <2>3. ASSUME NEW k \in DOMAIN ledger
        PROVE  ledger[k].day <= usage'.day /\ ledger[k].at <= usage'.refill /\ IsFiniteSet(ledger[k].fresh)
    <3>1. ledger[k].day \in Nat /\ ledger[k].at \in Nat
      BY RowTypes, Zenon DEF BudgetInv
    <3>2. /\ ledger[k].day <= usage.day /\ ledger[k].at <= usage.refill /\ IsFiniteSet(ledger[k].fresh)
          /\ usage.day <= Today /\ usage.refill <= now
      BY DEF BudgetInv, BookInv
    <3> QED BY <1>5, <1>13d, <3>1, <3>2
  <2>4. IsFiniteSet(Units(DOMAIN ledger', Messages')) /\ IsFiniteSet(Units(DOMAIN ledger', NewChats'))
    BY <1>11, <1>15, Zenon DEF BudgetInv, BookInv
  <2> QED BY <1>15, <2>1, <2>2, <2>3, <2>4, Zenon DEF BookInv
<1>18. ReceiptInv'
  <2>1. ASSUME NEW p \in Live'
        PROVE  /\ rcpt'[p].entry \in charged'
               /\ rcpt'[p].day = ledger'[rcpt'[p].entry].day /\ rcpt'[p].count = ledger'[rcpt'[p].entry].count
               /\ rcpt'[p].fresh = Cardinality(ledger'[rcpt'[p].entry].fresh)
               /\ pc'[p] = "release" => rcpt'[p].entry \notin happened'
    <3>1. p \in Live /\ rcpt'[p] = rcpt[p] /\ pc'[p] = pc[p] /\ rcpt[p].entry # e
      BY <1>10, Zenon
    <3>2. /\ rcpt[p].entry \in charged
          /\ rcpt[p].day = ledger[rcpt[p].entry].day /\ rcpt[p].count = ledger[rcpt[p].entry].count
          /\ rcpt[p].fresh = Cardinality(ledger[rcpt[p].entry].fresh)
          /\ pc[p] = "release" => rcpt[p].entry \notin happened
      BY <3>1, Zenon DEF BudgetInv, ReceiptInv
    <3> QED BY <1>15, <3>1, <3>2, Zenon
  <2>2. ASSUME NEW p \in Live', NEW o \in Live', rcpt'[p].entry = rcpt'[o].entry
        PROVE  p = o
    <3>1. p \in Live /\ o \in Live /\ rcpt[p].entry = rcpt[o].entry
      BY <1>10, <2>2, Zenon
    <3> QED BY <3>1, Zenon DEF BudgetInv, ReceiptInv
  <2> QED BY <2>1, <2>2, Zenon DEF ReceiptInv
<1>19. final => \A k \in freshCharged : k <= e
  BY <1>7, <1>12, Zenon DEF BudgetInv, OrderInv
<1>20. OrderInv'
  <2>1. ASSUME NEW p \in Live'
        PROVE  /\ p \in Live /\ rcpt'[p] = rcpt[p] /\ rcpt[p].last \in Nat /\ rcpt[p].entry \in Nat
               /\ rcpt[p].entry \in freshCharged
               /\ rcpt[p].last <= usage.last
               /\ rcpt[p].last = usage.last => \A k \in freshCharged : k <= rcpt[p].entry
    <3>1. p \in Live /\ rcpt'[p] = rcpt[p]
      BY <1>10, Zenon
    <3>2. rcpt[p] \in Held
      BY <1>4, <3>1 DEF Live
    <3>3. rcpt[p].entry \in freshCharged
      BY <1>9, <3>1, Zenon DEF BudgetInv, ReceiptInv
    <3> QED BY <3>1, <3>2, <3>3, Zenon DEF BudgetInv, OrderInv, Held
  <2>2. freshCharged' \subseteq freshCharged
    BY <1>14
  <2>3. ASSUME final, NEW p \in Live'
        PROVE  /\ rcpt[p].entry < e
               /\ rcpt[p].last <= q.previousLast
               /\ rcpt[p].last = q.previousLast => \A k \in freshCharged : k <= rcpt[p].entry \/ k >= e
    <3>1. rcpt[p].entry <= e
      BY <1>19, <2>1, <2>3, Zenon
    <3>2. rcpt[p].entry < e
      <4>1. rcpt[p].entry # e /\ rcpt[p].entry \in Nat
        BY <1>10, <2>1, Zenon
      <4> QED BY <1>6, <3>1, <4>1
    <3> QED BY <1>7, <2>1, <3>2, Zenon DEF BudgetInv, OrderInv
  <2>4. ASSUME NEW p \in Live'
        PROVE  /\ rcpt'[p].last <= usage'.last
               /\ rcpt'[p].last = usage'.last => \A k \in freshCharged' : k <= rcpt'[p].entry
    <3>1. CASE final
      <4>1. usage'.last = q.previousLast /\ freshCharged' = freshCharged \ {e}
        BY <1>13, <1>14, <3>1, Zenon
      <4>2. ASSUME rcpt[p].last = q.previousLast, NEW k \in freshCharged'
            PROVE  k <= rcpt[p].entry
        <5>1. k \in freshCharged /\ k # e /\ k \in Nat
          BY <1>9, <4>1
        <5>2. k <= e
          BY <1>19, <3>1, <5>1, Zenon
        <5>3. ~(k >= e)
          BY <1>6, <5>1, <5>2
        <5> QED BY <2>3, <3>1, <4>2, <5>1, <5>3, Zenon
      <4> QED BY <2>1, <2>3, <3>1, <4>1, <4>2, Zenon
    <3>2. CASE ~final
      <4>1. usage'.last = usage.last /\ freshCharged' = freshCharged
        BY <1>13, <1>14, <3>2, Zenon
      <4> QED BY <2>1, <4>1, Zenon
    <3> QED BY <3>1, <3>2
  <2>5. ASSUME NEW p \in Live', NEW o \in Live', rcpt'[p].entry < rcpt'[o].entry
        PROVE  /\ rcpt'[p].last <= rcpt'[o].previousLast
               /\ rcpt'[p].last = rcpt'[o].previousLast =>
                    \A k \in freshCharged' : k <= rcpt'[p].entry \/ k >= rcpt'[o].entry
    <3>1. rcpt'[p] = rcpt[p] /\ rcpt'[o] = rcpt[o] /\ p \in Live /\ o \in Live
      BY <2>1, Zenon
    <3> QED BY <2>2, <2>5, <3>1, Zenon DEF BudgetInv, OrderInv
  <2> QED BY <2>4, <2>5, Zenon DEF OrderInv
<1>21. ContactInv'
  <2> SUFFICES ASSUME NEW p \in Live', NEW jid \in contacts', Chat(jid) \in ledger'[rcpt'[p].entry].fresh,
                      jid \notin rcpt'[p].contacts
               PROVE  \E k \in freshCharged' :
                        k > rcpt'[p].entry /\ \A o \in Live' : rcpt'[o].entry = k => jid \in rcpt'[o].contacts
    BY DEF ContactInv
  <2>1. p \in Live /\ rcpt'[p] = rcpt[p] /\ jid \in contacts /\ ledger' = ledger
    BY <1>10, <1>14, <1>15, Zenon
  <2>2. PICK k \in freshCharged :
          k > rcpt[p].entry /\ \A o \in Live : rcpt[o].entry = k => jid \in rcpt[o].contacts
    BY <2>1, Zenon DEF BudgetInv, ContactInv
  <2>3. k \in freshCharged'
    <3>1. CASE final
      <4>1. contacts' = contacts \ q.contacts /\ freshCharged' = freshCharged \ {e}
        BY <1>14, <3>1, Zenon
      <4>2. k # e
        BY <1>7, <2>2, <4>1, Zenon
      <4> QED BY <2>2, <4>1, <4>2, Zenon
    <3>2. CASE ~final
      BY <1>14, <2>2, <3>2
    <3> QED BY <3>1, <3>2, Zenon
  <2>4. \A o \in Live' : rcpt'[o].entry = k => jid \in rcpt'[o].contacts
    <3>1. \A o \in Live' : o \in Live /\ rcpt'[o] = rcpt[o]
      BY <1>10, Zenon
    <3> QED BY <2>2, <3>1, Zenon
  <2> QED BY <2>1, <2>2, <2>3, <2>4, Zenon
<1>22. ContactsCharged'
  <2> SUFFICES ASSUME NEW jid \in contacts', Chat(jid) \cap archived' = {}
               PROVE  \E k \in freshCharged' : Chat(jid) \in ledger'[k].fresh
    BY Zenon DEF ContactsCharged
  <2>1. jid \in contacts /\ Chat(jid) \cap archived = {}
    BY <1>14, <1>15
  <2>2. PICK k \in freshCharged : Chat(jid) \in ledger[k].fresh
    BY <2>1, Zenon DEF BudgetInv, ContactsCharged
  <2>3. k \in freshCharged'
    <3>1. CASE final
      <4>1. contacts' = contacts \ q.contacts /\ freshCharged' = freshCharged \ {e}
        BY <1>14, <3>1, Zenon
      <4>2. ASSUME k = e PROVE FALSE
        <5>1. jid \notin q.contacts /\ Chat(jid) \in ledger[e].fresh
          BY <2>2, <4>1, <4>2
        <5>2. \E l \in freshCharged : l > e
          BY <1>7, <2>1, <5>1, Zenon DEF BudgetInv, ContactInv
        <5>3. PICK l \in freshCharged : l > e
          BY <5>2, Zenon
        <5>4. l <= e /\ l \in Nat
          BY <1>9, <1>19, <3>1
        <5> QED BY <1>6, <5>3, <5>4
      <4> QED BY <2>2, <4>1, <4>2, Zenon
    <3>2. CASE ~final
      BY <1>14, <2>2, <3>2
    <3> QED BY <3>1, <3>2, Zenon
  <2> QED BY <1>15, <2>2, <2>3, Zenon
<1>23. ASSUME NEW S \in SUBSET DOMAIN ledger, e \in S
       PROVE  /\ Total(S, Messages) \in Nat /\ Total(S \ {e}, Messages) \in Nat
              /\ Total(S, Messages) = Total(S \ {e}, Messages) + q.count
              /\ Total(S, NewChats) \in Nat /\ Total(S \ {e}, NewChats) \in Nat
              /\ Total(S, NewChats) = Total(S \ {e}, NewChats) + q.fresh
  <2>1. Messages[e] = 1..q.count /\ NewChats[e] = ledger[e].fresh
    BY <1>8, Zenon DEF Messages, NewChats
  <2>2. IsFiniteSet(ledger[e].fresh)
    BY <1>8, Zenon DEF BudgetInv, BookInv
  <2>3. IsFiniteSet(Messages[e]) /\ Cardinality(Messages[e]) = q.count
    BY <1>6, <2>1, CountUnits, Zenon
  <2>4. IsFiniteSet(Units(S, Messages)) /\ IsFiniteSet(Units(S, NewChats))
    BY TotalsNat
  <2>5. /\ Total(S, Messages) \in Nat /\ Total(S \ {e}, Messages) \in Nat
        /\ Total(S, Messages) = Total(S \ {e}, Messages) + Cardinality(Messages[e])
    BY <1>23, <2>3, <2>4, UnitsRemove, Zenon
  <2>6. /\ Total(S, NewChats) \in Nat /\ Total(S \ {e}, NewChats) \in Nat
        /\ Total(S, NewChats) = Total(S \ {e}, NewChats) + Cardinality(NewChats[e])
    BY <1>23, <2>1, <2>2, <2>4, UnitsRemove, Zenon
  <2> QED BY <1>8, <2>1, <2>3, <2>5, <2>6, Zenon
<1>24. /\ s.today = Total(charged \cap OnDay(Today), Messages)
       /\ s.newChats = Total(freshCharged \cap OnDay(Today), NewChats)
  BY <1>2, Zenon DEF Reads
<1>25. CountersExact'
  <2> DEFINE S == charged \cap OnDay(Today)
             F == freshCharged \cap OnDay(Today)
  <2>1. S \in SUBSET DOMAIN ledger /\ F \in SUBSET DOMAIN ledger
    BY <1>9
  <2>2. e \in OnDay(Today) <=> Today = q.day
    BY <1>8, Zenon DEF OnDay
  <2>3. usage'.today = Total(charged' \cap OnDay(Today), Messages)
    <3>1. CASE Today = q.day
      <4>1. e \in S /\ charged' \cap OnDay(Today) = S \ {e}
        BY <1>8, <1>15, <2>2, <3>1, Zenon
      <4> HIDE DEF S
      <4>2. s.today = Total(S \ {e}, Messages) + q.count /\ Total(S \ {e}, Messages) \in Nat
        BY <1>23, <1>24, <2>1, <4>1, Zenon DEF S
      <4>3. usage'.today = Most(0, s.today - q.count)
        BY <1>13, <3>1, Zenon
      <4>4. Most(0, s.today - q.count) = Total(S \ {e}, Messages)
        <5>1. s.today \in Nat /\ q.count \in Nat
          BY <1>5, <1>6, Zenon
        <5> QED BY <4>2, <5>1, TakeBack, Zenon
      <4> QED BY <4>1, <4>3, <4>4, Zenon
    <3>2. CASE Today # q.day
      <4>1. charged' \cap OnDay(Today) = S
        BY <1>15, <2>2, <3>2, Zenon
      <4> QED BY <1>13, <1>24, <3>2, <4>1, Zenon
    <3> QED BY <3>1, <3>2
  <2>4. usage'.newChats = Total(freshCharged' \cap OnDay(Today), NewChats)
    <3>1. CASE final /\ Today = q.day
      <4>1. e \in F /\ freshCharged' \cap OnDay(Today) = F \ {e}
        BY <1>8, <1>14, <2>2, <3>1, Zenon
      <4> HIDE DEF F
      <4>2. s.newChats = Total(F \ {e}, NewChats) + q.fresh /\ Total(F \ {e}, NewChats) \in Nat
        BY <1>23, <1>24, <2>1, <4>1, Zenon DEF F
      <4>3. usage'.newChats = Most(0, s.newChats - q.fresh)
        BY <1>13, <3>1, Zenon
      <4>4. Most(0, s.newChats - q.fresh) = Total(F \ {e}, NewChats)
        <5>1. s.newChats \in Nat /\ q.fresh \in Nat
          BY <1>5, <1>6, Zenon
        <5> QED BY <4>2, <5>1, TakeBack, Zenon
      <4> QED BY <4>1, <4>3, <4>4, Zenon
    <3>2. CASE ~(final /\ Today = q.day)
      <4>1. freshCharged' \cap OnDay(Today) = F
        BY <1>14, <2>2, <3>2
      <4>2. usage'.newChats = s.newChats
        BY <1>13, <3>2, Zenon
      <4> QED BY <1>24, <4>1, <4>2, Zenon
    <3> QED BY <3>1, <3>2
  <2>5. usage'.day = Today
    BY <1>13, Zenon
  <2>6. /\ usage'.today = Total(charged' \cap OnDay(usage'.day), Messages)
        /\ usage'.newChats = Total(freshCharged' \cap OnDay(usage'.day), NewChats)
    BY <2>3, <2>4, <2>5, Zenon
  <2> QED BY <1>11, <1>15, <2>6, Zenon DEF CountersExact, OnDay
<1>26. ASSUME NEW S \in SUBSET DOMAIN ledger, NEW R \in SUBSET S
       PROVE  /\ Total(R, Messages) \in Nat /\ Total(S, Messages) \in Nat /\ Total(R, Messages) <= Total(S, Messages)
              /\ Total(R, NewChats) \in Nat /\ Total(S, NewChats) \in Nat /\ Total(R, NewChats) <= Total(S, NewChats)
  <2>1. IsFiniteSet(Units(S, Messages)) /\ IsFiniteSet(Units(S, NewChats))
    BY TotalsNat
  <2> QED BY <2>1, UnitsMonotone, Zenon
<1>27. DayInv'
  <2> SUFFICES ASSUME nSet' = 0, NEW d \in Nat
               PROVE  /\ limits'.day > 0 => Total(charged' \cap OnDay(d)', Messages') <= limits'.day
                      /\ limits'.fresh > 0 => Total(freshCharged' \cap OnDay(d)', NewChats') <= limits'.fresh
    BY DEF DayInv
  <2> DEFINE S == charged \cap OnDay(d)
             F == freshCharged \cap OnDay(d)
             P == charged' \cap OnDay(d)
             G == freshCharged' \cap OnDay(d)
  <2>1. S \in SUBSET DOMAIN ledger /\ F \in SUBSET DOMAIN ledger /\ P \in SUBSET S /\ G \in SUBSET F
    BY <1>9, <1>14, <1>15, Zenon
  <2>2. /\ limits.day > 0 => Total(S, Messages) <= limits.day
        /\ limits.fresh > 0 => Total(F, NewChats) <= limits.fresh
    BY <1>15, Zenon DEF BudgetInv, DayInv
  <2>3. limits.day \in Nat /\ limits.fresh \in Nat
    BY Zenon DEF BudgetInv, BudgetTypes, Limits
  <2>4. OnDay(d)' = OnDay(d)
    BY <1>11, Zenon
  <2> HIDE DEF S, F, P, G
  <2>5. /\ Total(P, Messages) <= Total(S, Messages) /\ Total(G, NewChats) <= Total(F, NewChats)
        /\ Total(P, Messages) \in Nat /\ Total(S, Messages) \in Nat /\ Total(G, NewChats) \in Nat /\ Total(F, NewChats) \in Nat
    BY <1>26, <2>1, Zenon
  <2>6. /\ limits.day > 0 => Total(P, Messages) <= limits.day
        /\ limits.fresh > 0 => Total(G, NewChats) <= limits.fresh
    BY <2>2, <2>3, <2>5
  <2> QED BY <1>11, <1>15, <2>4, <2>6, Zenon DEF P, G
<1>28. usage'.tokens <= limits.minute * Minute
  <2> DEFINE w == q.count * Minute
             full == limits.minute * Minute
  <2>1. w \in Int /\ full \in Int /\ s.tokens <= full
    BY <1>2, <1>6p DEF Reads
  <2>2. usage'.tokens = (IF final THEN Least(s.tokens + w, full) ELSE s.tokens)
    BY <1>13, Zenon DEF Capped
  <2> HIDE DEF w, full
  <2>3. usage'.tokens <= full
    BY <1>5, <2>1, <2>2 DEF Least
  <2> QED BY <2>3, Zenon DEF full
<1>29. BucketCapped'
  <2>1. usage'.rate = limits.minute
    BY <1>13, Zenon
  <2> QED BY <1>28, <2>1, Zenon DEF BucketCapped
<1>30. BucketInv'
  <2> SUFFICES ASSUME nSet' = 0, limits'.minute > 0, NEW i \in DOMAIN ledger'
               PROVE  /\ Total(charged' \cap (i..Len(ledger')), Messages') * Minute + usage'.tokens
                           <= limits'.minute * Minute + limits'.minute * (usage'.refill - ledger'[i].at)
                      /\ \A j \in DOMAIN ledger' : i <= j =>
                           Total(charged' \cap (i..j), Messages') * Minute
                             <= limits'.minute * Minute + limits'.minute * (ledger'[j].at - ledger'[i].at)
    <3>1. usage'.rate = limits'.minute
      BY <1>13, <1>15
    <3> QED BY <3>1, Zenon DEF BucketInv
  <2> DEFINE m == limits.minute
             full == m * Minute
             left == m * (now - ledger[i].at)
             S == charged \cap (i..Len(ledger))
             P == charged' \cap (i..Len(ledger))
             w == q.count * Minute
  <2>1. nSet = 0 /\ limits' = limits /\ m > 0 /\ m \in Nat /\ i \in DOMAIN ledger
    BY <1>5, <1>15, Zenon
  <2>1f. full \in Nat /\ w \in Nat
    BY <1>6p, Zenon
  <2>2. ledger[i].at \in Nat /\ ledger[i].at <= now
    <3>1. ledger[i].at \in Nat
      BY <2>1, RowTypes, Zenon DEF BudgetInv
    <3>2. ledger[i].at <= usage.refill /\ usage.refill <= now
      BY <2>1, Zenon DEF BudgetInv, BookInv
    <3> QED BY <1>5, <3>1, <3>2
  <2>3. left \in Nat
    <3>1. now - ledger[i].at \in Nat
      BY <1>5, <2>2
    <3> QED BY <2>1, <3>1
  <2>4. S \in SUBSET DOMAIN ledger /\ P \in SUBSET S /\ P = S \ {e}
    BY <1>9, <1>15, Zenon
  <2>5. Total(S, Messages) * Minute + s.tokens <= full + left
    BY <1>2, <2>1, Zenon DEF Reads
  <2> DEFINE x == Total(S, Messages) * Minute
             y == Total(P, Messages) * Minute
  <2>6. x \in Nat /\ y \in Nat /\ y <= x
    <3> HIDE DEF S, P
    <3>1. Total(P, Messages) \in Nat /\ Total(S, Messages) \in Nat /\ Total(P, Messages) <= Total(S, Messages)
      BY <1>26, <2>4, Zenon
    <3> QED BY <1>5, <3>1, MulMonotone, Zenon
  <2>7. y + usage'.tokens <= full + left
    <3>1. CASE ~final
      <4>1. usage'.tokens = s.tokens
        BY <1>13, <3>1
      <4> HIDE DEF x, y, full, left
      <4>2. x + s.tokens <= full + left
        BY <2>5 DEF x
      <4> QED BY <1>5, <2>1f, <2>3, <2>6, <4>1, <4>2
    <3>2. CASE final /\ e \in S
      <4>1. usage'.tokens = Least(s.tokens + w, full)
        BY <1>13, <3>2 DEF Capped
      <4>2. Total(S, Messages) = Total(P, Messages) + q.count /\ Total(P, Messages) \in Nat
        <5> HIDE DEF S, P
        <5> QED BY <1>23, <2>4, <3>2, Zenon
      <4>3. x = y + w
        <5> HIDE DEF S, P
        <5>1. q.count \in Int /\ Minute \in Int /\ Total(P, Messages) \in Int
          BY <1>5, <1>6, <4>2
        <5>2. (Total(P, Messages) + q.count) * Minute = Total(P, Messages) * Minute + q.count * Minute
          BY <5>1, ScaleSum, Zenon
        <5> QED BY <4>2, <5>2, Zenon
      <4> HIDE DEF x, y, full, left, w
      <4>4. usage'.tokens <= s.tokens + w /\ usage'.tokens \in Int
        BY <1>5, <2>1f, <4>1 DEF Least
      <4>5. x + s.tokens <= full + left
        BY <2>5 DEF x
      <4> QED BY <1>5, <2>1f, <2>3, <2>6, <4>3, <4>4, <4>5
    <3>3. CASE final /\ e \notin S
      <4>1. e < i
        <5>1. e \in 1..Len(ledger) /\ i \in 1..Len(ledger) /\ Len(ledger) \in Nat /\ e \notin i..Len(ledger)
          BY <1>8, <1>9, <2>1, <3>3, RowTypes, Zenon DEF BudgetInv
        <5> QED BY <5>1
      <4>2. \A k \in charged : k <= e /\ k \in Nat
        BY <1>9, <1>19, <3>3
      <4>3. P = {}
        <5>1. i \in Nat
          BY <1>9, <2>1
        <5>2. \A k \in charged : k \notin i..Len(ledger)
          BY <1>6, <4>1, <4>2, <5>1
        <5> QED BY <2>4, <5>2, Zenon
      <4>4. y = 0
        <5>1. Total(P, Messages) = 0
          BY <4>3, NoUnits, Zenon
        <5> QED BY <1>5, <5>1
      <4>5. usage'.tokens <= full /\ usage'.tokens \in Int
        <5>1. usage' \in Used
          BY <1>13, Zenon
        <5>2. usage'.tokens \in Int
          BY <5>1, Zenon DEF Used
        <5> QED BY <1>28, <5>2
      <4> HIDE DEF y, full, left
      <4> QED BY <2>1f, <2>3, <4>4, <4>5
    <3> QED BY <3>1, <3>2, <3>3, Zenon
  <2>8. ASSUME NEW j \in DOMAIN ledger, i <= j
        PROVE  Total(charged' \cap (i..j), Messages) * Minute <= full + m * (ledger[j].at - ledger[i].at)
    <3> DEFINE A == charged \cap (i..j)
               B == charged' \cap (i..j)
               c == Total(A, Messages) * Minute
               d == Total(B, Messages) * Minute
               z == m * (ledger[j].at - ledger[i].at)
    <3>1. A \in SUBSET DOMAIN ledger /\ B \in SUBSET A
      BY <1>9, <1>15
    <3>2. c <= full + z
      BY <2>1, <2>8, Zenon DEF BudgetInv, BucketInv
    <3>3. z \in Int
      <4>1. ledger[j].at \in Nat
        BY RowTypes, Zenon DEF BudgetInv
      <4> QED BY <2>1, <2>2, <4>1
    <3>4. c \in Nat /\ d \in Nat /\ d <= c
      <4> HIDE DEF A, B
      <4>1. Total(B, Messages) \in Nat /\ Total(A, Messages) \in Nat /\ Total(B, Messages) <= Total(A, Messages)
        BY <1>26, <3>1
      <4> QED BY <1>5, <4>1, MulMonotone, Zenon
    <3> HIDE DEF c, d, z, full
    <3>5. d <= full + z
      BY <2>1f, <3>2, <3>3, <3>4
    <3> QED BY <3>5, Zenon DEF d, z
  <2>9. usage'.refill = now /\ ledger' = ledger /\ Messages' = Messages
    BY <1>11, <1>13, <1>15
  <2> QED BY <2>1, <2>7, <2>8, <2>9, Zenon
<1> QED BY <1>16, <1>17, <1>18, <1>20, <1>21, <1>22, <1>25, <1>27, <1>29, <1>30 DEF BudgetInv
-----------------------------------------------------------------------------
(* The invariant and the theorems *)

LEMMA BudgetStarts ==
  Init => BudgetInv
<1> SUFFICES ASSUME Init PROVE BudgetInv
  BY Zenon
<1>1. /\ now = 1 /\ limits \in Settings /\ contacts = {} /\ pc = [r \in Requests |-> "idle"]
      /\ rcpt = [r \in Requests |-> NoReceipt] /\ ledger = <<>>
      /\ happened = {} /\ charged = {} /\ freshCharged = {} /\ nSet = 0
      /\ usage = [day |-> -1, today |-> 0, newChats |-> 0, tokens |-> 0, rate |-> 0, refill |-> 0, last |-> 0]
  BY Zenon DEF Init
<1>2. limits \in Limits
  BY <1>1, LimitsAssumption, Zenon DEF Limits
<1>3. rcpt \in [Requests -> Held] /\ Live = {}
  <2>1. NoReceipt \in Held /\ NoReceipt.entry = 0
    BY Zenon DEF NoReceipt, Held
  <2> QED BY <1>1, <2>1 DEF Live
<1>4. BudgetTypes
  <2>1. usage \in Used
    BY <1>1 DEF Used
  <2>2. ledger \in Seq(Row)
    BY <1>1
  <2> QED BY <1>1, <1>2, <1>3, <2>1, <2>2 DEF BudgetTypes, Stages
<1>5. DOMAIN ledger = {}
  BY <1>1
<1>6. Today \in Nat
  BY <1>1, TodayNat
<1>7. BookInv
  <2>1. IsFiniteSet(Units(DOMAIN ledger, Messages)) /\ IsFiniteSet(Units(DOMAIN ledger, NewChats))
    BY <1>5, NoUnits, FS_EmptySet, Zenon
  <2>2. usage.day <= Today /\ usage.refill <= now
    BY <1>1, <1>6
  <2>3. happened = {} /\ charged = {} /\ freshCharged = {} /\ ledger = <<>>
    BY <1>1
  <2> QED BY <1>5, <2>1, <2>2, <2>3 DEF BookInv
<1>8. ReceiptInv /\ OrderInv /\ ContactInv
  BY <1>3, Zenon DEF ReceiptInv, OrderInv, ContactInv
<1>9. CountersExact
  <2>1. charged \cap OnDay(usage.day) = {} /\ freshCharged \cap OnDay(usage.day) = {}
    BY <1>1, Zenon
  <2> QED BY <1>1, <2>1, NoUnits, Zenon DEF CountersExact
<1>10. ContactsCharged
  BY <1>1 DEF ContactsCharged
<1>11. DayInv
  <2> SUFFICES ASSUME NEW d \in Nat
               PROVE  /\ limits.day > 0 => Total(charged \cap OnDay(d), Messages) <= limits.day
                      /\ limits.fresh > 0 => Total(freshCharged \cap OnDay(d), NewChats) <= limits.fresh
    BY Zenon DEF DayInv
  <2>1. charged \cap OnDay(d) = {} /\ freshCharged \cap OnDay(d) = {}
    BY <1>1
  <2>2. Total(charged \cap OnDay(d), Messages) = 0 /\ Total(freshCharged \cap OnDay(d), NewChats) = 0
    BY <2>1, NoUnits
  <2>3. limits.day \in Nat /\ limits.fresh \in Nat
    BY <1>2, Zenon DEF Limits
  <2> QED BY <2>2, <2>3
<1>12. BucketInv
  BY <1>1, <1>5, Zenon DEF BucketInv
<1>13. BucketCapped
  <2>1. 0 * Minute = 0
    BY LimitsAssumption
  <2> QED BY <1>1, <2>1 DEF BucketCapped
<1> QED BY <1>4, <1>7, <1>8, <1>9, <1>10, <1>11, <1>12, <1>13 DEF BudgetInv

(* The receipts and stages after a request ends. *)
LEMMA Ending ==
  ASSUME BudgetInv, NEW r \in Requests, End(r)
  PROVE  /\ pc' \in [Requests -> Stages] /\ rcpt' \in [Requests -> Held]
         /\ \A q \in Live' : rcpt'[q] = rcpt[q] /\ pc'[q] = pc[q]
<1>1. pc' = [pc EXCEPT ![r] = "idle"] /\ rcpt' = [rcpt EXCEPT ![r] = NoReceipt]
  BY DEF End
<1>2. pc \in [Requests -> Stages] /\ rcpt \in [Requests -> Held]
  BY DEF BudgetInv, BudgetTypes
<1>3. NoReceipt \in Held /\ NoReceipt.entry = 0
  BY DEF NoReceipt, Held
<1>4. /\ pc' \in [Requests -> Stages] /\ rcpt' \in [Requests -> Held] /\ rcpt'[r].entry = 0
      /\ \A q \in Requests : q # r => rcpt'[q] = rcpt[q] /\ pc'[q] = pc[q]
  BY <1>1, <1>2, <1>3 DEF Stages
<1> QED BY <1>4 DEF Live

(* Every step keeps the invariant: one case per action. *)
LEMMA BudgetStep ==
  BudgetInv /\ [Next]_vars => BudgetInv'
<1> SUFFICES ASSUME BudgetInv, [Next]_vars PROVE BudgetInv'
  OBVIOUS
<1>1. /\ now \in Nat \ {0} /\ Today \in Nat /\ limits \in Limits /\ nSet \in Nat
      /\ pc \in [Requests -> Stages] /\ rcpt \in [Requests -> Held]
  BY TodayNat, Zenon DEF BudgetInv, BudgetTypes
<1> DEFINE Still == UNCHANGED <<usage, contacts, ledger, charged, freshCharged>>
           Calm  == now' = now /\ limits' = limits /\ nSet' = nSet
<1>2. ASSUME Still, Calm, happened' \subseteq happened, archived \subseteq archived',
             pc' \in [Requests -> Stages], rcpt' \in [Requests -> Held],
             \A q \in Live' : /\ rcpt'[q] = rcpt[q]
                              /\ pc'[q] = "release" => pc[q] = "release" \/ rcpt[q].entry \notin happened'
      PROVE  BudgetInv'
  <2>1. Today' = Today
    BY <1>2, Zenon DEF Today
  <2>2. now <= now' /\ Today <= Today'
    BY <1>1, <1>2, <2>1
  <2> QED BY <1>1, <1>2, <2>2, Quiet, Zenon
<1>3. ASSUME NEW r \in Requests, NEW o \in Ops, NEW read \in BOOLEAN, ReserveFails(r, o, read) PROVE BudgetInv'
  <2>1. /\ Still /\ Calm /\ happened' = happened /\ archived' = archived /\ rcpt' = rcpt
        /\ pc' = pc \/ pc' = [pc EXCEPT ![r] = "ready"] \/ pc' = [pc EXCEPT ![r] = "recheck"]
    BY <1>3, Zenon DEF ReserveFails, dbVars, bookVars
  <2>2. pc' \in [Requests -> Stages] /\ \A q \in Requests : pc'[q] = "release" => pc[q] = "release"
    BY <1>1, <2>1 DEF Stages
  <2>3. \A q \in Live' : q \in Requests
    BY DEF Live
  <2> HIDE DEF Still, Calm
  <2> QED BY <1>1, <1>2, <2>1, <2>2, <2>3
<1>4. ASSUME NEW r \in Requests, Recheck(r) PROVE BudgetInv'
  <2>1. Still /\ Calm /\ happened' = happened /\ archived' = archived
    BY <1>4, Zenon DEF Recheck, dbVars, bookVars
  <2>2. CASE End(r)
    <3> HIDE DEF Still, Calm
    <3> QED BY <1>2, <2>1, <2>2, Ending, Zenon
  <2>3. CASE pc' = [pc EXCEPT ![r] = "ready"] /\ rcpt' = rcpt
    <3>1. pc' \in [Requests -> Stages] /\ \A q \in Requests : pc'[q] = "release" => pc[q] = "release"
      BY <1>1, <2>3 DEF Stages
    <3>2. \A q \in Live' : q \in Requests
      BY Zenon DEF Live
    <3> HIDE DEF Still, Calm
    <3> QED BY <1>1, <1>2, <2>1, <2>3, <3>1, <3>2
  <2> QED BY <1>4, <2>2, <2>3, Zenon DEF Recheck
<1>5. ASSUME NEW r \in Requests, NotSent(r) PROVE BudgetInv'
  <2>1. /\ Still /\ Calm /\ happened' = happened \ {rcpt[r].entry} /\ archived' = archived /\ rcpt' = rcpt
        /\ pc' = [pc EXCEPT ![r] = "release"]
    BY <1>5, Zenon DEF NotSent, dbVars
  <2>2. pc' \in [Requests -> Stages] /\ \A q \in Requests : q # r => pc'[q] = pc[q]
    BY <1>1, <2>1, Zenon DEF Stages
  <2>3. \A q \in Live' : q \in Requests
    BY DEF Live
  <2>4. \A q \in Live' : pc'[q] = "release" => pc[q] = "release" \/ rcpt[q].entry \notin happened'
    BY <2>1, <2>2, <2>3, Zenon
  <2> HIDE DEF Still, Calm
  <2> QED BY <1>1, <1>2, <2>1, <2>2, <2>4, Zenon
<1>6. ASSUME NEW r \in Requests, NEW stored \in BOOLEAN, Attempted(r, stored) PROVE BudgetInv'
  <2>1. Still /\ Calm /\ happened' = happened /\ archived \subseteq archived' /\ End(r)
    BY <1>6, Zenon DEF Attempted, dbVars, bookVars
  <2> HIDE DEF Still, Calm
  <2> QED BY <1>2, <2>1, Ending, Zenon
<1>7. ASSUME NEW r \in Requests, ReleaseNothing(r) PROVE BudgetInv'
  <2>1. Still /\ Calm /\ happened' = happened /\ archived' = archived /\ End(r)
    BY <1>7, Zenon DEF ReleaseNothing, dbVars, bookVars
  <2> HIDE DEF Still, Calm
  <2> QED BY <1>2, <2>1, Ending, Zenon
<1>8. CASE Crash
  <2>1. /\ Still /\ Calm /\ happened' = happened /\ archived' = archived
        /\ pc' = [r \in Requests |-> "idle"] /\ rcpt' = [r \in Requests |-> NoReceipt]
    BY <1>8, Zenon DEF Crash, dbVars, bookVars
  <2>2. NoReceipt \in Held /\ NoReceipt.entry = 0
    BY DEF NoReceipt, Held
  <2>3. pc' \in [Requests -> Stages] /\ rcpt' \in [Requests -> Held] /\ Live' = {}
    BY <2>1, <2>2, Zenon DEF Live, Stages
  <2> HIDE DEF Still, Calm
  <2> QED BY <1>2, <2>1, <2>3
<1>9. CASE Tick
  <2>1. /\ Still /\ now' = now + 1 /\ limits' = limits /\ nSet' = nSet /\ happened' = happened
        /\ archived' = archived /\ pc' = pc /\ rcpt' = rcpt
    BY <1>9 DEF Tick, dbVars, bookVars
  <2>2. now' \in Nat \ {0} /\ now <= now'
    BY <1>1, <2>1
  <2>3. Today <= Today'
    BY <1>1, <2>1, LimitsAssumption, DayNeverBack, Zenon DEF Today
  <2> QED BY <1>1, <2>1, <2>2, <2>3, Quiet
<1>10. ASSUME NEW jid \in Inbox, Inbound(jid) PROVE BudgetInv'
  <2>1. /\ Still /\ Calm /\ happened' = happened /\ archived \subseteq archived' /\ pc' = pc /\ rcpt' = rcpt
    BY <1>10, Zenon DEF Inbound, dbVars, bookVars
  <2> HIDE DEF Still, Calm
  <2> QED BY <1>1, <1>2, <2>1
<1>11. ASSUME NEW l \in Settings, SetLimits(l) PROVE BudgetInv'
  <2>1. /\ Still /\ now' = now /\ limits' = l /\ nSet' = nSet + 1 /\ happened' = happened
        /\ archived' = archived /\ pc' = pc /\ rcpt' = rcpt
    BY <1>11 DEF SetLimits, dbVars, bookVars
  <2>2. l \in Limits
    BY <1>11, LimitsAssumption, Zenon DEF Limits
  <2>3. nSet' \in Nat /\ nSet' # 0 /\ now <= now'
    BY <1>1, <2>1
  <2>4. Today <= Today'
    BY <1>1, <2>1 DEF Today
  <2> QED BY <1>1, <2>1, <2>2, <2>3, <2>4, Quiet, Zenon
<1>12. CASE UNCHANGED vars
  <2>1. Still /\ Calm /\ happened' = happened /\ archived' = archived /\ pc' = pc /\ rcpt' = rcpt
    BY <1>12, Zenon DEF vars, bookVars
  <2> HIDE DEF Still, Calm
  <2> QED BY <1>1, <1>2, <2>1, Zenon
<1>13. ASSUME NEW r \in Requests, Request(r) PROVE BudgetInv'
  BY <1>3, <1>4, <1>5, <1>6, <1>7, <1>13, RefusedKeeps, SendKeeps, ReleaseKeeps DEF Request
<1> QED BY <1>8, <1>9, <1>10, <1>11, <1>12, <1>13 DEF Next

LEMMA BudgetAlways ==
  Spec => []BudgetInv
BY BudgetStarts, BudgetStep, PTL DEF Spec

(* What reserveSend and releaseSendReservation keep in send_usage and send_contacts is *)
(* exactly what was charged and not refunded: the counters of the day, and a contact   *)
(* for each chat with a standing charge or messages.  For any number of requests,      *)
(* batches and settings, through refunds in any order, midnights and crashes.          *)
THEOREM UsageExact ==
  Spec => []ExactUsage
<1>1. BudgetInv => ExactUsage
  BY DEF BudgetInv, ExactUsage
<1> QED BY <1>1, BudgetAlways, PTL

(* The budgets hold over what left: no day carries more messages or new chats than     *)
(* its limits, no stretch of time more messages than a full bucket and its refill, and *)
(* the bucket never holds more than a full one.                                        *)
THEOREM BudgetsKept ==
  Spec => []BudgetsHeld
<1>1. BudgetInv => BudgetsHeld
  <2> SUFFICES ASSUME BudgetInv PROVE BudgetsHeld
    OBVIOUS
  <2>1. happened \subseteq charged /\ charged \subseteq freshCharged /\ freshCharged \subseteq DOMAIN ledger
    BY Zenon DEF BudgetInv, BookInv, BudgetTypes
  <2>2. Minute \in Nat /\ limits.minute \in Nat /\ limits.day \in Nat /\ limits.fresh \in Nat
    BY LimitsAssumption, Zenon DEF BudgetInv, BudgetTypes, Limits
  <2>3. ASSUME NEW S \in SUBSET DOMAIN ledger, NEW R \in SUBSET S
        PROVE  /\ Total(R, Messages) \in Nat /\ Total(S, Messages) \in Nat /\ Total(R, Messages) <= Total(S, Messages)
               /\ Total(R, NewChats) \in Nat /\ Total(S, NewChats) \in Nat /\ Total(R, NewChats) <= Total(S, NewChats)
    BY TotalsNat, UnitsMonotone, Zenon
  <2>4. DayBudget
    <3> SUFFICES ASSUME nSet = 0, NEW j \in DOMAIN ledger
                 PROVE  LET d == ledger[j].day
                        IN /\ limits.day > 0 => Total(happened \cap OnDay(d), Messages) <= limits.day
                           /\ limits.fresh > 0 => Total(happened \cap OnDay(d), NewChats) <= limits.fresh
      BY Zenon DEF DayBudget
    <3> DEFINE d == ledger[j].day
               S == charged \cap OnDay(d)
               F == freshCharged \cap OnDay(d)
               P == happened \cap OnDay(d)
    <3>1. d \in Nat
      BY RowTypes DEF BudgetInv
    <3>2. /\ limits.day > 0 => Total(S, Messages) <= limits.day
          /\ limits.fresh > 0 => Total(F, NewChats) <= limits.fresh
      BY <3>1, Zenon DEF BudgetInv, DayInv
    <3>3. S \in SUBSET DOMAIN ledger /\ F \in SUBSET DOMAIN ledger /\ P \in SUBSET S /\ P \in SUBSET F
      BY <2>1, Zenon
    <3> HIDE DEF S, F, P
    <3>4. /\ Total(P, Messages) \in Nat /\ Total(S, Messages) \in Nat /\ Total(P, Messages) <= Total(S, Messages)
          /\ Total(P, NewChats) \in Nat /\ Total(F, NewChats) \in Nat /\ Total(P, NewChats) <= Total(F, NewChats)
      BY <2>3, <3>3, Zenon
    <3>5. /\ limits.day > 0 => Total(P, Messages) <= limits.day
          /\ limits.fresh > 0 => Total(P, NewChats) <= limits.fresh
      BY <2>2, <3>2, <3>4
    <3> QED BY <3>5, Zenon DEF P
  <2>5. MinuteBudget
    <3> SUFFICES ASSUME nSet = 0, limits.minute > 0, NEW i \in DOMAIN ledger, NEW j \in DOMAIN ledger, i <= j
                 PROVE  Total(happened \cap (i..j), Messages) * Minute
                          <= limits.minute * Minute + limits.minute * (ledger[j].at - ledger[i].at)
      BY DEF MinuteBudget
    <3> DEFINE S == charged \cap (i..j)
               P == happened \cap (i..j)
               x == Total(S, Messages) * Minute
               y == Total(P, Messages) * Minute
               z == limits.minute * Minute + limits.minute * (ledger[j].at - ledger[i].at)
    <3>1. x <= z
      BY Zenon DEF BudgetInv, BucketInv
    <3>2. z \in Int
      <4>1. ledger[i].at \in Nat /\ ledger[j].at \in Nat
        BY RowTypes DEF BudgetInv
      <4> QED BY <2>2, <4>1
    <3>3. S \in SUBSET DOMAIN ledger /\ P \in SUBSET S
      BY <2>1, Zenon
    <3>4. x \in Nat /\ y \in Nat /\ y <= x
      <4> HIDE DEF S, P
      <4>1. Total(P, Messages) \in Nat /\ Total(S, Messages) \in Nat /\ Total(P, Messages) <= Total(S, Messages)
        BY <2>3, <3>3
      <4> QED BY <2>2, <4>1, MulMonotone
    <3> HIDE DEF x, y, z
    <3>5. y <= z
      BY <3>1, <3>2, <3>4
    <3> QED BY <3>5, Zenon DEF y, z
  <2> QED BY <2>4, <2>5 DEF BudgetInv, BudgetsHeld
<1> QED BY <1>1, BudgetAlways, PTL
=============================================================================
