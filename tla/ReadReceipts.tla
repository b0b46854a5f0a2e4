---------------------------- MODULE ReadReceipts ----------------------------
(***************************************************************************)
(* POST /api/mark-read.  A call reads a page of unread inbound rows, sends *)
(* one receipt per sender and batch, and moves the chat's read marker over *)
(* what was acknowledged.  Times have one-second resolution, so a marker   *)
(* cannot stand inside a second: the marker is cut back at ties, and a     *)
(* call that the send budget refuses half-way saves the IDs it has already *)
(* acknowledged (read_receipt_sent).  Calls run concurrently, and rows may *)
(* arrive, older ones too, between any two of their steps.                 *)
(***************************************************************************)
EXTENDS Naturals, Sequences, FiniteSets, SequencesExt, FiniteSetsExt

CONSTANTS
  Ids,          \* message IDs: numbers, in the order that breaks ties of a second
  Callers,      \* concurrent requests; a scene has some of them
  Batch,        \* markReadBatch
  MaxMessages,  \* markReadMaxMessages
  Scenes        \* bound: the rows, the calls and the faults of one behaviour

VARIABLES
  scene,      \* rows and requests of this behaviour
  present,    \* rows in the archive
  sent,       \* rows with read_receipt_sent = 1
  marker,     \* chats.last_read_time
  asks,       \* listed requests still to come
  call,       \* the running requests
  faults,     \* sends and writes that may still fail
  crashes,    \* restarts still to come
  receipted,  \* IDs a receipt went out for
  saved       \* IDs whose receipt a refused request recorded

vars == <<scene, present, sent, marker, asks, call, faults, crashes, receipted, saved>>

Later(a, b) == IF a > b THEN a ELSE b
Time(id) == scene.rows[id].ts
Sender(id) == scene.rows[id].sender         \* "" when the phone named none
Idle == [pc |-> "idle"]

Init ==
  /\ scene \in Scenes
  /\ present = scene.first /\ sent = {} /\ marker = 0
  /\ asks = scene.listed /\ call = [k \in Callers |-> Idle]
  /\ faults = scene.faults /\ crashes = scene.crashes
  /\ receipted = {} /\ saved = {}

Fail == faults > 0 /\ faults' = faults - 1
Set(k, c) == call' = [call EXCEPT ![k] = c]

\* A message is archived, live or from history.
Arrive ==
  /\ \E id \in scene.late \ present : present' = present \cup {id}
  /\ UNCHANGED <<scene, sent, marker, asks, call, faults, crashes, receipted, saved>>

-----------------------------------------------------------------------------
(* One page and its receipts *)

\* UnreadInboundMessages: oldest first, by time and ID.
Before(a, b) == Time(a) < Time(b) \/ (Time(a) = Time(b) /\ a < b)
Unread(from) ==
  LET rows == {id \in present \ sent : from < Time(id) /\ Time(id) <= scene.upTo}
  IN [n \in 1..Cardinality(rows) |-> CHOOSE id \in rows : Cardinality({r \in rows : Before(r, id)}) = n - 1]

\* groupBySender: rows without a participant get no receipt in a group.
Unaddressable(ids) == {id \in ids : scene.group /\ Sender(id) = ""}
Key(id) == IF scene.group THEN Sender(id) ELSE ""
Groups(pending) ==
  LET rows == SelectSeq(pending, LAMBDA id : id \notin Unaddressable(Ids))
      first == SelectSeq([i \in DOMAIN rows |-> i],
                         LAMBDA i : \A j \in 1..(i - 1) : Key(rows[j]) # Key(rows[i]))
  IN [n \in DOMAIN first |-> SelectSeq(rows, LAMBDA id : Key(id) = Key(rows[first[n]]))]

Chunks(ids) ==
  [n \in 1..((Len(ids) + Batch - 1) \div Batch) |->
     SubSeq(ids, (n - 1) * Batch + 1, IF n * Batch < Len(ids) THEN n * Batch ELSE Len(ids))]
Batches(pending) == LET groups == Groups(pending) IN FlattenSeq([n \in DOMAIN groups |-> Chunks(groups[n])])

\* Fault: the marker is not cut back in front of a tied second.
MutCoveredPrefix(pending, acked, overflow) ==
  Max({n \in 0..Len(pending) : \A i \in 1..n : pending[i] \in acked})

\* Fault: a page that is one second never advances the marker.
MutStuckPrefix(pending, acked, overflow) ==
  LET lead == Max({n \in 0..Len(pending) : \A i \in 1..n : pending[i] \in acked})
      stop == IF lead < Len(pending) THEN {pending[lead + 1]} ELSE overflow
  IN Max({0} \cup {n \in 1..lead : \A s \in stop : Time(pending[n]) < Time(s)})

\* coveredPrefix: the leading acknowledged rows, cut back so that the marker's
\* second holds no row it must not cover; a page that is one second advances.
CoveredPrefix(pending, acked, overflow) ==
  LET lead == Max({n \in 0..Len(pending) : \A i \in 1..n : pending[i] \in acked})
      stop == IF lead < Len(pending) THEN {pending[lead + 1]} ELSE overflow
      trimmed == Max({0} \cup {n \in 1..lead : \A s \in stop : Time(pending[n]) < Time(s)})
  IN IF trimmed = 0 /\ lead = Len(pending) THEN lead ELSE trimmed

\* AcknowledgedReceiptPrefix: saved progress in front of the first pending row.
SavedPrefix ==
  LET above == {id \in present : marker < Time(id) /\ Time(id) <= scene.upTo}
      done == {Time(id) : id \in {i \in above \cap sent : \A j \in above \ sent : Time(i) < Time(j)}}
  IN Max({0} \cup done)

-----------------------------------------------------------------------------
(* The handler *)

\* The marker and the rows are two queries.
Open(k) ==
  /\ call[k].pc = "idle" /\ k \in scene.callers
  /\ Set(k, [pc |-> "page", from |-> marker])
  /\ UNCHANGED <<scene, present, sent, marker, asks, faults, crashes, receipted, saved>>

ReadPage(k) ==
  LET all == Unread(call[k].from)
      pending == SubSeq(all, 1, IF Len(all) > MaxMessages THEN MaxMessages ELSE Len(all))
  IN /\ call[k].pc = "page"
     /\ Set(k, IF all = <<>> THEN [pc |-> "saved", seen |-> {}, one |-> FALSE]
               ELSE [pc |-> "send", pending |-> pending, seen |-> Range(all), knew |-> saved,
                     overflow |-> IF Len(all) > MaxMessages THEN {all[MaxMessages + 1]} ELSE {},
                     one |-> Cardinality({Time(id) : id \in Range(pending)}) = 1,
                     todo |-> Batches(pending), acked |-> Unaddressable(Range(pending)),
                     left |-> scene.budget])
     /\ UNCHANGED <<scene, present, sent, marker, asks, faults, crashes, receipted, saved>>

\* One turn of the loop: a sender that cannot be resolved costs only itself, a
\* refused send ends the request, a failed one ends the loop.
SendReceipt(k) ==
  LET c == call[k]
      chunk == Range(Head(c.todo))
      sender == Key(Head(Head(c.todo)))
  IN /\ c.pc = "send"
     /\ \/ /\ c.todo = <<>> /\ Set(k, [c EXCEPT !.pc = "cover"])
           /\ UNCHANGED <<faults, receipted>>
        \/ /\ c.todo # <<>> /\ sender \in scene.unresolvable
           /\ Set(k, [c EXCEPT !.todo = SelectSeq(@, LAMBDA b : Key(Head(b)) # sender)])
           /\ UNCHANGED <<faults, receipted>>
        \/ /\ c.todo # <<>> /\ sender \notin scene.unresolvable
           /\ \/ /\ c.left = 0 /\ Set(k, [c EXCEPT !.pc = "refused"]) /\ UNCHANGED <<faults, receipted>>
              \/ /\ c.left > 0 /\ receipted' = receipted \cup chunk
                 /\ Set(k, [c EXCEPT !.todo = Tail(@), !.acked = @ \cup chunk, !.left = @ - 1])
                 /\ UNCHANGED faults
              \/ /\ c.left > 0 /\ Fail /\ Set(k, [c EXCEPT !.pc = "cover"]) /\ UNCHANGED receipted
     /\ UNCHANGED <<scene, present, sent, marker, asks, crashes, saved>>

\* persistReadMarker over the covered rows; a failed write ends the request.
Cover(k) ==
  LET c == call[k]
      n == CoveredPrefix(c.pending, c.acked, c.overflow)
  IN /\ c.pc = "cover"
     /\ \/ /\ marker' = IF n = 0 THEN marker ELSE Later(marker, Time(c.pending[n]))
           /\ Set(k, [c EXCEPT !.pc = "saved"]) /\ UNCHANGED faults
        \/ n > 0 /\ Fail /\ Set(k, Idle) /\ UNCHANGED marker
     /\ UNCHANGED <<scene, present, sent, asks, crashes, receipted, saved>>

Recorded(acked) == acked

\* persistRefusedReceiptProgress: the acknowledged IDs and the marker, together.
Refused(k) ==
  LET c == call[k]
      n == CoveredPrefix(c.pending, c.acked, c.overflow)
  IN /\ c.pc = "refused"
     /\ \/ /\ sent' = sent \cup Recorded(c.acked) /\ saved' = saved \cup c.acked
           /\ marker' = IF n = 0 THEN marker ELSE Later(marker, Time(c.pending[n]))
           /\ UNCHANGED faults
        \/ c.acked # {} /\ Fail /\ UNCHANGED <<sent, saved, marker>>
     /\ Set(k, [c EXCEPT !.pc = "saved"])
     /\ UNCHANGED <<scene, present, asks, crashes, receipted>>

\* persistAcknowledgedReceiptPrefix: a query, then the marker.
ReadSaved(k) ==
  /\ call[k].pc = "saved"
  /\ \/ Set(k, [pc |-> "prefix", to |-> SavedPrefix, seen |-> call[k].seen, one |-> call[k].one]) /\ UNCHANGED faults
     \/ Fail /\ Set(k, Idle)
  /\ UNCHANGED <<scene, present, sent, marker, asks, crashes, receipted, saved>>

CoverSaved(k) ==
  /\ call[k].pc = "prefix"
  /\ \/ marker' = Later(marker, call[k].to) /\ UNCHANGED faults
     \/ call[k].to # 0 /\ Fail /\ UNCHANGED marker
  /\ Set(k, Idle)
  /\ UNCHANGED <<scene, present, sent, asks, crashes, receipted, saved>>

\* markListedRead: every ID is an inbound row of one sender; one receipt, and
\* the marker goes to the newest of them.
SendListed(k) ==
  /\ call[k].pc = "idle" /\ k \in scene.callers
  /\ \E ids \in asks :
       /\ asks' = asks \ {ids}
       /\ ids \subseteq present /\ Cardinality({Sender(id) : id \in ids}) = 1
       /\ \/ /\ receipted' = receipted \cup ids /\ Set(k, [pc |-> "listed", ids |-> ids]) /\ UNCHANGED faults
          \/ Fail /\ UNCHANGED <<receipted, call>>
  /\ UNCHANGED <<scene, present, sent, marker, crashes, saved>>

\* MaxMessageTimestamp; when the lookup fails, the time of the request takes its place.
LookUpListed(k) ==
  /\ call[k].pc = "listed"
  /\ \/ Set(k, [pc |-> "newest", to |-> Max({Time(id) : id \in call[k].ids})]) /\ UNCHANGED faults
     \/ Fail /\ Set(k, [pc |-> "newest", to |-> scene.readAt])
  /\ UNCHANGED <<scene, present, sent, marker, asks, crashes, receipted, saved>>

CoverListed(k) ==
  /\ call[k].pc = "newest"
  /\ \/ marker' = Later(marker, call[k].to) /\ UNCHANGED faults
     \/ Fail /\ UNCHANGED marker
  /\ Set(k, Idle)
  /\ UNCHANGED <<scene, present, sent, asks, crashes, receipted, saved>>

\* The process restarts; what the requests had not written is gone.
Restart ==
  /\ crashes > 0 /\ crashes' = crashes - 1
  /\ call' = [k \in Callers |-> Idle]
  /\ UNCHANGED <<scene, present, sent, marker, asks, faults, receipted, saved>>

Handle(k) == \/ Open(k) \/ ReadPage(k) \/ SendReceipt(k) \/ Cover(k) \/ Refused(k)
             \/ ReadSaved(k) \/ CoverSaved(k) \/ LookUpListed(k) \/ CoverListed(k)

Next == Arrive \/ Restart \/ \E k \in Callers : Handle(k) \/ SendListed(k)

\* The caller repeats the request, as the answer tells it to, and a handler
\* runs to its end; listed requests come as they like.
Fairness == \A k \in Callers : WF_vars(Handle(k))

Spec == Init /\ [][Next]_vars /\ Fairness

-----------------------------------------------------------------------------
(* Properties *)

\* "The marker only ever covers what was acknowledged": when a whole-chat
\* request moves the marker, every row it saw pending and that the marker now
\* covers had a receipt, or can have none.  The one exception is the page that
\* is a single second (coveredPrefix), past which no caller could get.
MarkerStep ==
  \A k \in Callers :
    call[k].pc \in {"cover", "refused", "prefix"} /\ call'[k] # call[k] /\ ~call[k].one =>
      \A id \in call[k].seen :
        marker < Time(id) /\ Time(id) <= marker' => id \in receipted \cup Unaddressable(Ids)

\* Receipts that a refused request recorded are never sent again by a request
\* that starts later, after a restart too (read_receipt_sent).
ReceiptsNotRepeated ==
  \A k \in Callers : call[k].pc = "send" =>
    \A n \in DOMAIN call[k].todo : Range(call[k].todo[n]) \cap call[k].knew = {}

\* A caller that repeats the request gets the chat read, however few receipts
\* its budget allows per request and whatever shares a second, up to the first
\* row of a sender that cannot be resolved.
ChatGetsRead ==
  <>[](\A id \in present :
         /\ Time(id) <= scene.upTo
         /\ \A u \in present : Key(u) \in scene.unresolvable => Time(id) < Time(u)
         => marker >= Time(id))
=============================================================================
