------------------------------ MODULE Archive ------------------------------
(***************************************************************************)
(* The message archive under its writers.  Live events are handled one at  *)
(* a time, and the SDK acknowledges an event at any moment from its        *)
(* delivery to the return of the handler; the phone's history sync and     *)
(* the import of a history bundle shared by a group member run in          *)
(* goroutines of their own; REST calls delete rows and record receipts; a  *)
(* media retry renews a locator; a LID may become known at any moment; and *)
(* the process may crash between any two commits, after which start-up     *)
(* merges the LID chats it can map.  Every write to messages.db is one     *)
(* commit (BEGIN IMMEDIATE), and any of them may be given up.              *)
(*                                                                         *)
(* Edits have their own module (PendingEdits), and so do poll votes        *)
(* (PollVotes) and read receipts (ReadReceipts).                           *)
(***************************************************************************)
EXTENDS ArchiveRows, Sequences, SequencesExt

CONSTANTS
  Ids,       \* message IDs
  Batch,     \* historyBatchMessages
  Cutoff,    \* oldest second WHATSAPP_HISTORY_MAX_AGE_DAYS accepts, 0 for no limit
  Scenes     \* bound: the deliveries, payloads and faults of one behaviour

Chats == {"pn", "lid", "group"}      \* a contact's phone and LID chats, and a group
Importers == {"phone", "peer"}
Pointers == {"vote", "edit", "empty"} \* history rows that storeChunk passes over

ASSUME ArchiveAssumption ==
  /\ Batch \in Nat \ {0} /\ Cutoff \in Nat /\ Renewed \in Nat \ {0} /\ IsFiniteSet(Ids)
  /\ \A s \in Scenes : /\ s.faults \in Nat /\ s.crashes \in Nat
                       /\ \A e \in s.events : e.chat \in Chats
                       /\ \A w \in Importers : s.payload[w] \in Seq(s.conversations)

VARIABLES
  scene,     \* what this behaviour delivers
  rows,      \* messages: chat -> ID -> row
  chats,     \* chats
  polls,     \* polls: <<chat, ID>> with poll metadata
  known,     \* the session store maps the contact's LID to its phone number
  inbox,     \* live events the bridge has not acknowledged
  orig,      \* originalTimestamps, 0 where nothing is remembered
  live,      \* the running live handler
  imp,       \* the running imports
  waiting,   \* history shares: the one job waiting behind the worker
  retry,     \* the media retry in progress: the row and the snapshot it started from
  boot,      \* "chats" and "senders" while start-up migrates, then "up"
  stopping,  \* the bridge's context is cancelled
  rest,      \* REST calls still to come
  faults,    \* writes that may still fail
  crashes,   \* crashes still to come
  accepted,  \* times of the messages ever accepted into a row of the chat
  ever,      \* IDs that ever had a row in the chat
  missed     \* chats with a live write that was given up, or cut short for good

dbVars == <<rows, chats, polls>>
ghostVars == <<accepted, ever, missed>>
vars == <<scene, rows, chats, polls, known, inbox, orig, live, imp, waiting, retry, boot,
          stopping, rest, faults, crashes, accepted, ever, missed>>

Idle == [pc |-> "idle"]
NoImport == [pc |-> "idle", job |-> "none", conv |-> 0, chat |-> "pn", at |-> 0, row |-> 0,
             media |-> {}, kept |-> {}, lost |-> 0]

Init ==
  /\ scene \in Scenes
  /\ rows = [c \in Chats |-> [id \in Ids |-> NoRow]]
  /\ chats = [c \in Chats |-> NoChat]
  /\ polls = {}
  /\ known = scene.known
  /\ inbox = scene.events
  /\ orig = [id \in Ids |-> 0]
  /\ live = Idle /\ imp = [w \in Importers |-> NoImport] /\ waiting = <<>> /\ retry = Idle
  /\ boot = "up" /\ stopping = FALSE
  /\ rest = scene.rest /\ faults = scene.faults /\ crashes = scene.crashes
  /\ accepted = [c \in Chats |-> {}] /\ ever = [c \in Chats |-> {}] /\ missed = {}

\* A write that is given up after its bounded retries on a busy database.
Fail == faults > 0 /\ faults' = faults - 1

ResolveChat(c) == IF c = "lid" /\ known THEN "pn" ELSE c
ResolveUser(a) == IF a = "A@lid" /\ known THEN "A" ELSE a

\* liveLocationSender: the archived LID author of a live location is kept when
\* the delivery names the same person by phone number.
LocationSender(old, m) ==
  IF m.live /\ Exists(old) /\ old.own = m.own /\ old.author = "A@lid" /\ known
     /\ ResolveUser(m.author) = "A"
  THEN "A@lid" ELSE ResolveUser(m.author)

Prepared(old, m) == [m EXCEPT !.author = LocationSender(old, m)]

Note(c, m, kept) ==
  /\ ever' = [ever EXCEPT ![c] = @ \cup {m.id}]
  /\ accepted' = [accepted EXCEPT ![c] = IF kept THEN @ ELSE @ \cup {m.ts}]

-----------------------------------------------------------------------------
(* Live events *)

Running == boot = "up"

\* UndecryptableMessage: the first delivery carries the true send time.
Remember(e) ==
  /\ e.what = "undecryptable"
  /\ orig' = [orig EXCEPT ![e.id] = IF @ = 0 \/ e.ts < @ THEN e.ts ELSE @]
  /\ inbox' = inbox \ {e}
  /\ UNCHANGED <<dbVars, live, faults, ghostVars>>

\* A read receipt of one of our own devices moves the marker to the newest
\* archived message it names, or to its own time when none is archived.
SelfRead(e) ==
  LET c == ResolveChat(e.chat)
      named == {rows[c][id].ts : id \in e.ids} \ {0}
      at == IF named = {} THEN e.ts ELSE Max(named)
  IN /\ e.what = "receipt"
     /\ \/ chats' = [chats EXCEPT ![c] = MarkChatRead(@, at)] /\ UNCHANGED faults
        \/ Fail /\ UNCHANGED chats
     /\ inbox' = inbox \ {e}
     /\ UNCHANGED <<rows, polls, orig, live, ghostVars>>

\* handleMessage up to its first write; the resend of an undecryptable message
\* takes the remembered time.
Begin(e) ==
  /\ e.what = "message"
  /\ live' = [pc |-> "settings", ev |-> [e EXCEPT !.ts = IF orig[e.id] # 0 /\ orig[e.id] < @ THEN orig[e.id] ELSE @],
              ack |-> e, chat |-> ResolveChat(e.chat)]
  /\ orig' = [orig EXCEPT ![e.id] = 0]
  /\ UNCHANGED <<dbVars, inbox, faults, ghostVars>>

Receive ==
  /\ Running /\ live.pc = "idle"
  /\ \E e \in inbox :
       /\ e.resend => ~\E f \in inbox : f.what = "undecryptable" /\ f.id = e.id
       /\ Remember(e) \/ SelfRead(e) \/ Begin(e)
  /\ UNCHANGED <<scene, known, imp, waiting, retry, boot, stopping, rest, crashes>>

\* historyShareQueue.submit: the first job starts the worker, after that one
\* job waits in the channel and another one is refused.
Starts(job) == job # "none" /\ ~stopping /\ imp["peer"].pc = "idle"
Waits(job) == job # "none" /\ ~stopping /\ imp["peer"].pc # "idle" /\ waiting = <<>>
Job(job) == [NoImport EXCEPT !.pc = "decode", !.job = job]

\* Revokes, timers and a bundle to import, then the end of a message that
\* carries nothing else.
Settings ==
  LET e == live.ev
      c == live.chat
  IN /\ Running /\ live.pc = "settings"
     /\ \/ /\ rows' = [rows EXCEPT ![c][e.target].deleted =
                          IF e.kind = "revoke" /\ Exists(rows[c][e.target]) /\ @ = 0 THEN e.ts ELSE @]
           /\ chats' = [chats EXCEPT ![c] = UpdateTimer(@, e.timer, e.timerTs)]
           /\ UNCHANGED faults
        \/ Fail /\ (e.kind = "revoke" \/ e.timerTs # 0) /\ UNCHANGED <<rows, chats>>
     /\ imp' = IF Starts(e.job) THEN [imp EXCEPT !["peer"] = Job(e.job)] ELSE imp
     /\ waiting' = IF Waits(e.job) THEN <<e.job>> ELSE waiting
     /\ live' = [live EXCEPT !.pc = IF e.kind \in {"revoke", "timer", "bundle"} THEN "ack" ELSE "chat"]
     /\ UNCHANGED <<scene, polls, known, inbox, orig, retry, boot, stopping, rest, crashes, ghostVars>>

\* storeRow: the chat row, the message row, and only then the chat's time.
LiveChat ==
  /\ Running /\ live.pc = "chat"
  /\ \/ /\ chats' = [chats EXCEPT ![live.chat] = EnsureChat(@)]
        /\ live' = [live EXCEPT !.pc = "row"] /\ UNCHANGED faults
        /\ UNCHANGED missed
     \/ /\ Fail /\ live' = [live EXCEPT !.pc = "ack"] /\ missed' = missed \cup {live.chat}
        /\ UNCHANGED chats
  /\ UNCHANGED <<scene, rows, polls, known, inbox, orig, imp, waiting, retry, boot, stopping,
                 rest, crashes, accepted, ever>>

\* Fault: a write that was given up still moves the chat's time.
MutAfterRow(stored, consumed) == IF consumed THEN "ack" ELSE "time"

AfterRow(stored, consumed) == IF ~stored \/ consumed THEN "ack" ELSE "time"

LiveRow ==
  LET c == live.chat
      old == rows[c][live.ev.id]
      m == Prepared(old, live.ev)
      consumed == Consumed(old, m)
  IN /\ Running /\ live.pc = "row"
     /\ \/ /\ rows' = [rows EXCEPT ![c][m.id] = Persist(old, m, FALSE)]
           /\ polls' = IF m.kind = "poll" THEN polls \cup {<<c, m.id>>} ELSE polls
           /\ live' = [live EXCEPT !.pc = AfterRow(TRUE, consumed)]
           /\ Note(c, m, consumed)
           /\ UNCHANGED <<faults, missed>>
        \/ /\ Fail /\ live' = [live EXCEPT !.pc = AfterRow(FALSE, FALSE)]
           /\ missed' = missed \cup {c} /\ UNCHANGED <<rows, polls, accepted, ever>>
     /\ UNCHANGED <<scene, chats, known, inbox, orig, imp, waiting, retry, boot, stopping, rest, crashes>>

LiveTime ==
  /\ Running /\ live.pc = "time"
  /\ \/ chats' = [chats EXCEPT ![live.chat] = StoreChat(@, live.ev.ts)] /\ UNCHANGED <<faults, missed>>
     \/ Fail /\ missed' = missed \cup {live.chat} /\ UNCHANGED chats
  /\ live' = [live EXCEPT !.pc = "ack"]
  /\ UNCHANGED <<scene, rows, polls, known, inbox, orig, imp, waiting, retry, boot, stopping,
                 rest, crashes, accepted, ever>>

\* The handler returns.
Handled ==
  /\ Running /\ live.pc = "ack"
  /\ inbox' = inbox \ {live.ack} /\ live' = Idle
  /\ UNCHANGED <<scene, dbVars, known, orig, imp, waiting, retry, boot, stopping, rest, faults,
                 crashes, ghostVars>>

\* The bridge does not ask the SDK to acknowledge synchronously: the server may be told
\* before the handler has written anything, and then the event never comes again.
Ack ==
  /\ Running /\ live.pc \notin {"idle", "ack"} /\ live.ack \in inbox
  /\ inbox' = inbox \ {live.ack}
  /\ UNCHANGED <<scene, dbVars, known, orig, live, imp, waiting, retry, boot, stopping, rest,
                 faults, crashes, ghostVars>>

Live == Receive \/ Settings \/ LiveChat \/ LiveRow \/ LiveTime \/ Handled \/ Ack

-----------------------------------------------------------------------------
(* Imports: the phone's history sync, and a bundle shared by a group member *)
(* (preserveExisting).                                                      *)

\* boundedHistory
Fresh(ms) == SelectSeq(ms, LAMBDA m : m.ts = 0 \/ m.ts >= Cutoff)

\* historyShareMessages: rows attributed to this account are left out, and no
\* other row is its own.
Shared(ms) ==
  LET others == SelectSeq(ms, LAMBDA m : m.author \notin {"me", "me@lid"})
  IN [n \in DOMAIN others |-> [others[n] EXCEPT !.own = FALSE]]

Data(w) ==
  LET given == scene.payload[w]
  IN [n \in DOMAIN given |->
       [given[n] EXCEPT !.rows = Fresh(IF w = "peer" THEN Shared(@) ELSE @)]]

\* historyShareMatchesGroup
InScope(job) == \A n \in DOMAIN scene.payload["peer"] : scene.payload["peer"][n].chat = "group"

Conv(w) == Data(w)[imp[w].conv]
ChunkEnd(w) == Min({imp[w].at + Batch - 1, Len(Conv(w).rows)})

\* noteHistoryLoss counts what could have been stored, edits included.
Storable(m) == m.ts # 0 /\ m.kind \notin {"vote", "empty"}
Loss(ms) == Len(SelectSeq(ms, Storable))

\* Fault: a peer's row is compared with the rows of this import only.
MutPasses(w, c, acc, m) == m.kind \in Pointers \/ m.ts = 0 \/ (w = "peer" /\ m.id \in acc.owned)

\* What storeChunk passes over: pointers, rows without a time and, for a peer,
\* every message or poll that is archived already.
Passes(w, c, acc, m) ==
  \/ m.kind \in Pointers \/ m.ts = 0
  \/ w = "peer" /\ (Exists(acc.rows[m.id]) \/ <<c, m.id>> \in acc.polls)

\* historyLocationInitialTimes: a position sample takes the time of the first
\* sample of its own author in the same conversation.
SampleTime(w, m) ==
  LET first == {n.ts : n \in {k \in Range(Conv(w).rows) :
                   /\ k.live /\ k.seq = 0 /\ k.ts # 0 /\ k.id = m.id /\ k.own = m.own
                   /\ ResolveUser(k.author) = ResolveUser(m.author)}}
  IN IF w = "phone" /\ m.live /\ m.seq > 0 /\ first # {} THEN Min(first) ELSE m.ts

\* One row of storeChunk, on the rows of the open transaction.
StoreRow(w, c, acc, m) ==
  LET old == acc.rows[m.id]
      given == Prepared(old, [m EXCEPT !.ts = SampleTime(w, m)])
      owned == ~Consumed(old, given)
  IN IF Passes(w, c, acc, m) THEN acc
     ELSE [rows  |-> [acc.rows EXCEPT ![m.id] = Persist(old, given, TRUE)],
           polls |-> IF m.kind = "poll" THEN acc.polls \cup {<<c, m.id>>} ELSE acc.polls,
           owned |-> IF owned THEN acc.owned \cup {m.id} ELSE acc.owned,
           media |-> IF owned /\ Complete(given) /\ given.path # 0 THEN acc.media \cup {given} ELSE acc.media,
           bad   |-> acc.bad \/ m.id \in scene.bad]

Transaction(w, c, ms) ==
  FoldLeft(LAMBDA acc, m : StoreRow(w, c, acc, m),
           [rows |-> rows[c], polls |-> polls, owned |-> {}, media |-> {}, bad |-> FALSE], ms)

\* storeHistoryActivity: time and read marker of the rows this transaction owns.
Activity(chat, tx, ms, markRead) ==
  LET stamp == Max({0} \cup {tx.rows[id].ts : id \in tx.owned})
      timed == StoreChat(chat, stamp)
  IN IF tx.owned = {} THEN chat ELSE IF markRead THEN MarkChatRead(timed, stamp) ELSE timed

Set(w, i) == imp' = [imp EXCEPT ![w] = i]
NextConv(w) == [imp[w] EXCEPT !.pc = "conv", !.conv = @ + 1, !.at = 1, !.row = 0, !.media = {}]

\* The next chunk, or the next row while a failed chunk is replayed by rows.
Advance(w) ==
  LET i == imp[w]
      over == i.row = 0 \/ i.row = ChunkEnd(w)
  IN IF over THEN [i EXCEPT !.at = ChunkEnd(w) + 1, !.row = 0] ELSE [i EXCEPT !.row = @ + 1]

StartSync ==
  /\ Running /\ ~stopping /\ imp["phone"].pc = "idle" /\ scene.payload["phone"] # <<>>
  /\ Set("phone", [NoImport EXCEPT !.pc = "conv", !.conv = 1, !.at = 1])
  /\ UNCHANGED <<scene, dbVars, known, inbox, orig, live, waiting, retry, boot, stopping, rest,
                 faults, crashes, ghostVars>>

\* runHistoryShare: a download that fails, and a bundle out of its group, end the job.
Decode ==
  /\ Running /\ imp["peer"].pc = "decode"
  /\ \/ ~stopping /\ InScope(imp["peer"].job) /\ Set("peer", [imp["peer"] EXCEPT !.pc = "conv", !.conv = 1, !.at = 1])
     \/ Set("peer", [imp["peer"] EXCEPT !.pc = "halted"])
  /\ UNCHANGED <<scene, dbVars, known, inbox, orig, live, waiting, retry, boot, stopping, rest,
                 faults, crashes, ghostVars>>

\* The worker takes the job that waited.
NextJob ==
  /\ Running /\ imp["peer"].pc \in {"done", "halted"} /\ waiting # <<>>
  /\ Set("peer", Job(Head(waiting))) /\ waiting' = <<>>
  /\ UNCHANGED <<scene, dbVars, known, inbox, orig, live, retry, boot, stopping, rest, faults,
                 crashes, ghostVars>>

\* The bundle a payload of the phone carries is queued when its import returns.
Bundle == LET found == {m \in UNION {Range(Data("phone")[n].rows) : n \in DOMAIN Data("phone")} : m.job # "none"}
          IN IF found = {} THEN "none" ELSE (CHOOSE m \in found : TRUE).job

End(w, how) ==
  LET over == [imp EXCEPT ![w].pc = how]
      job == IF w = "phone" THEN Bundle ELSE "none"
  IN /\ imp' = IF Starts(job) THEN [over EXCEPT !["peer"] = Job(job)] ELSE over
     /\ waiting' = IF Waits(job) THEN <<job>> ELSE waiting

\* The stop checks between transactions; a peer's job also has a deadline.
Halt(w) ==
  /\ Running /\ imp[w].pc \in {"conv", "chunk"} /\ (stopping \/ w = "peer")
  /\ End(w, "halted")
  /\ UNCHANGED <<scene, dbVars, known, inbox, orig, live, retry, boot, stopping, rest, faults,
                 crashes, ghostVars>>

Conversation(w) ==
  LET ms == Conv(w).rows
      c == ResolveChat(Conv(w).chat)
  IN /\ Running /\ ~stopping /\ imp[w].pc = "conv"
     /\ \/ /\ imp[w].conv > Len(Data(w)) /\ End(w, "done") /\ UNCHANGED <<chats, faults>>
        \/ /\ imp[w].conv <= Len(Data(w)) /\ UNCHANGED waiting
           /\ \/ /\ ms = <<>> \/ ms[1].ts = 0          \* nothing to date the conversation by
                 /\ Set(w, NextConv(w)) /\ UNCHANGED <<chats, faults>>
              \/ /\ ms # <<>> /\ ms[1].ts # 0
                 /\ chats' = [chats EXCEPT ![c] = EnsureChat(@)]
                 /\ Set(w, [imp[w] EXCEPT !.pc = IF w = "phone" THEN "timer" ELSE "chunk", !.chat = c])
                 /\ UNCHANGED faults
              \/ /\ ms # <<>> /\ ms[1].ts # 0 /\ Fail
                 /\ Set(w, [NextConv(w) EXCEPT !.lost = @ + Loss(ms)]) /\ UNCHANGED chats
     /\ UNCHANGED <<scene, rows, polls, known, inbox, orig, live, retry, boot, stopping, rest,
                    crashes, ghostVars>>

HistoryTimer ==
  /\ Running /\ imp["phone"].pc = "timer"
  /\ \/ chats' = [chats EXCEPT ![imp["phone"].chat] = UpdateTimer(@, Conv("phone").timer, Conv("phone").timerTs)]
        /\ UNCHANGED faults
     \/ Fail /\ UNCHANGED chats
  /\ Set("phone", [imp["phone"] EXCEPT !.pc = "chunk"])
  /\ UNCHANGED <<scene, rows, polls, known, inbox, orig, live, waiting, retry, boot, stopping,
                 rest, crashes, ghostVars>>

\* Fault: a busy chunk is skipped and the older ones are still imported.
MutBusy(w, ms, from) == [Advance(w) EXCEPT !.lost = @ + Loss(SubSeq(ms, from, ChunkEnd(w)))]

\* A database that stays busy ends the conversation: the newest committed part
\* stays whole, and the tail is counted.
Busy(w, ms, from) == [NextConv(w) EXCEPT !.lost = @ + Loss(SubSeq(ms, from, Len(ms)))]

\* A chunk that fails otherwise is replayed row by row; a row that fails costs itself.
Broken(w, ms, from) ==
  IF imp[w].row = 0 THEN [imp[w] EXCEPT !.row = imp[w].at]
  ELSE [Advance(w) EXCEPT !.lost = @ + Loss(<<ms[from]>>)]

Repairs(w, tx) == w = "phone" /\ Conv(w).ondemand /\ imp[w].chat = "pn" /\ tx.media # {}

StoreChunk(w) ==
  LET i == imp[w]
      c == i.chat
      ms == Conv(w).rows
      from == IF i.row = 0 THEN i.at ELSE i.row
      to == IF i.row = 0 THEN ChunkEnd(w) ELSE i.row
      tx == Transaction(w, c, SubSeq(ms, from, to))
  IN /\ Running /\ ~stopping /\ i.pc = "chunk"
     /\ \/ /\ i.at > Len(ms) /\ Set(w, NextConv(w))
           /\ UNCHANGED <<dbVars, faults, accepted, ever>>
        \/ /\ i.at <= Len(ms) /\ ~tx.bad
           /\ rows' = [rows EXCEPT ![c] = tx.rows] /\ polls' = tx.polls
           /\ chats' = [chats EXCEPT ![c] = Activity(@, tx, SubSeq(ms, from, to),
                                                    w = "phone" /\ Conv(w).read)]
           /\ Set(w, [Advance(w) EXCEPT !.pc = IF Repairs(w, tx) THEN "alias" ELSE "chunk",
                                        !.media = tx.media, !.kept = @ \cup ({i.conv} \X (from..to))])
           /\ ever' = [ever EXCEPT ![c] = @ \cup {id \in Ids : Exists(tx.rows[id])}]
           /\ accepted' = [accepted EXCEPT ![c] = @ \cup {tx.rows[id].ts : id \in tx.owned}]
           /\ UNCHANGED faults
        \/ /\ i.at <= Len(ms) /\ tx.bad /\ Set(w, Broken(w, ms, from))
           /\ UNCHANGED <<dbVars, faults, accepted, ever>>
        \/ /\ i.at <= Len(ms) /\ Fail /\ Set(w, Busy(w, ms, from))
           /\ UNCHANGED <<dbVars, accepted, ever>>
     /\ UNCHANGED <<scene, known, inbox, orig, live, waiting, retry, boot, stopping, rest, crashes, missed>>

\* repairHistoryMediaAlias: the phone's answer to request_history also repairs
\* the media of an existing LID twin, and nothing else of it.
Twin(old, m) ==
  IF Exists(old) /\ old.kind = "media" /\ old.own = m.own
  THEN Upsert(old, [m EXCEPT !.author = old.author, !.text = old.text, !.ts = old.ts], TRUE)
  ELSE old

RepairAliases ==
  LET i == imp["phone"]
      match(id) == {m \in i.media : m.id = id}
  IN /\ Running /\ i.pc = "alias"
     /\ \/ /\ known
           /\ rows' = [rows EXCEPT !["lid"] = [id \in Ids |->
                 IF match(id) = {} THEN @[id] ELSE Twin(@[id], CHOOSE m \in match(id) : TRUE)]]
           /\ UNCHANGED faults
        \/ ~known /\ UNCHANGED <<rows, faults>>
        \/ Fail /\ UNCHANGED rows
     /\ Set("phone", [i EXCEPT !.pc = "chunk", !.media = {}])
     /\ UNCHANGED <<scene, chats, polls, known, inbox, orig, live, waiting, retry, boot, stopping,
                    rest, crashes, ghostVars>>

Import == \/ StartSync \/ Decode \/ NextJob \/ HistoryTimer \/ RepairAliases
          \/ \E w \in Importers : Halt(w) \/ Conversation(w) \/ StoreChunk(w)

-----------------------------------------------------------------------------
(* REST calls, the media retry, the session store, crash and start-up *)

\* POST /api/delete: the local row goes, or a message of ours is retracted for everyone.
DeleteRow(r) ==
  /\ r.op = "delete" /\ UNCHANGED stopping
  /\ rows' = [rows EXCEPT ![r.chat][r.id] = NoRow]

RevokeRow(r) ==
  /\ r.op = "revoke" /\ UNCHANGED stopping
  /\ rows' = [rows EXCEPT ![r.chat][r.id].deleted = IF rows[r.chat][r.id].own /\ @ = 0 THEN r.now ELSE @]

\* A receipt recorded by mark-read, on an inbound row.
RecordReceipt(r) ==
  /\ r.op = "receipt" /\ Exists(rows[r.chat][r.id]) /\ UNCHANGED stopping
  /\ rows' = [rows EXCEPT ![r.chat][r.id].receipt = ~rows[r.chat][r.id].own]

\* Shutdown cancels the bridge's context.
StopBridge(r) == r.op = "stop" /\ stopping' = TRUE /\ UNCHANGED rows

Rest ==
  /\ Running
  /\ \E r \in rest : rest' = rest \ {r} /\ (DeleteRow(r) \/ RevokeRow(r) \/ RecordReceipt(r) \/ StopBridge(r))
  /\ UNCHANGED <<scene, chats, polls, known, inbox, orig, live, imp, waiting, retry, boot, faults,
                 crashes, ghostVars>>

\* downloadViaMediaRetry starts from the snapshot of the row it downloads.
AskPhone ==
  /\ Running /\ retry.pc = "idle"
  /\ \E r \in rest : /\ r.op = "retry" /\ Complete(rows[r.chat][r.id])
                      /\ retry' = [pc |-> "asked", chat |-> r.chat, id |-> r.id, from |-> rows[r.chat][r.id]]
                      /\ rest' = rest \ {r}
  /\ UNCHANGED <<scene, dbVars, known, inbox, orig, live, imp, waiting, boot, stopping, faults,
                 crashes, ghostVars>>

\* StoreMediaInfo: the fresh locator with the key and hash it was asked for.
Refreshed(row, from) ==
  [row EXCEPT !.url = from.key + Renewed, !.path = from.key + Renewed, !.key = from.key, !.sha = from.sha]

PhoneAnswers ==
  LET row == rows[retry.chat][retry.id]
  IN /\ Running /\ retry.pc = "asked"
     /\ \/ rows' = [rows EXCEPT ![retry.chat][retry.id] = IF Exists(row) THEN Refreshed(row, retry.from) ELSE @]
        \/ UNCHANGED rows
     /\ retry' = Idle
     /\ UNCHANGED <<scene, chats, polls, known, inbox, orig, live, imp, waiting, boot, stopping,
                    rest, faults, crashes, ghostVars>>

\* The session store learns the contact's phone number.
Learn ==
  /\ Running /\ ~known /\ scene.learns /\ known' = TRUE
  /\ UNCHANGED <<scene, dbVars, inbox, orig, live, imp, waiting, retry, boot, stopping, rest,
                 faults, crashes, ghostVars>>

\* A handler cut between the row and the time leaves the chat behind for good when its
\* event does not come again, when it is a position update (its sample is consumed the
\* second time), or when the contact's number may be learnt before it comes (it then
\* goes to the phone chat).
CutForGood ==
  live.pc = "time" /\ (live.ack \notin inbox \/ live.chat = "lid" \/ (live.ev.live /\ live.ev.seq > 0))

\* The process dies; a live event that was not acknowledged comes again.
Crash ==
  /\ Running /\ crashes > 0 /\ crashes' = crashes - 1
  /\ boot' = "chats" /\ stopping' = FALSE
  /\ orig' = [id \in Ids |-> 0] /\ live' = Idle /\ retry' = Idle
  /\ imp' = [w \in Importers |-> NoImport] /\ waiting' = <<>>
  /\ missed' = IF CutForGood THEN missed \cup {live.chat} ELSE missed
  /\ UNCHANGED <<scene, dbVars, known, inbox, rest, faults, accepted, ever>>

MigrateChats ==
  LET mapped == known /\ (chats["lid"].there \/ \E id \in Ids : Exists(rows["lid"][id]))
  IN /\ boot = "chats" /\ boot' = "senders"
     /\ rows' = IF ~mapped THEN rows
                ELSE [rows EXCEPT !["pn"] = [id \in Ids |-> MergedRow(@[id], rows["lid"][id])],
                                  !["lid"] = [id \in Ids |-> NoRow]]
     /\ chats' = IF ~mapped THEN chats
                 ELSE [chats EXCEPT !["pn"] = MergedChat(@, chats["lid"], rows["lid"]), !["lid"] = NoChat]
     /\ ever' = IF ~mapped THEN ever ELSE [ever EXCEPT !["pn"] = @ \cup ever["lid"]]
     /\ accepted' = IF ~mapped THEN accepted ELSE [accepted EXCEPT !["pn"] = @ \cup accepted["lid"]]
     /\ missed' = IF mapped /\ "lid" \in missed THEN missed \cup {"pn"} ELSE missed
     /\ UNCHANGED <<scene, polls, known, inbox, orig, live, imp, waiting, retry, stopping, rest,
                    faults, crashes>>

MigrateSenders ==
  /\ boot = "senders" /\ boot' = "up"
  /\ rows' = [c \in Chats |-> [id \in Ids |-> [rows[c][id] EXCEPT !.author = ResolveUser(@)]]]
  /\ UNCHANGED <<scene, chats, polls, known, inbox, orig, live, imp, waiting, retry, stopping,
                 rest, faults, crashes, ghostVars>>

Next == Live \/ Import \/ Rest \/ AskPhone \/ PhoneAnswers \/ Learn \/ Crash \/ MigrateChats \/ MigrateSenders

Spec == Init /\ [][Next]_vars

-----------------------------------------------------------------------------
(* Properties *)

Quiet == /\ Running /\ live.pc = "idle" /\ inbox = {}
         /\ \A w \in Importers : imp[w].pc \in {"idle", "done", "halted"}

\* A chat's last_message_time is the time of a message that was accepted into
\* one of its rows: a dropped, refused or unstored message is not activity
\* (storeRow, storeHistoryActivity).  And once no handler or import is running
\* it is no older than any row, unless a live write of the chat was given up or
\* cut short for good: a crash between the row and the time is made good by the
\* redelivered event, and only an event the SDK had acknowledged by then, a
\* position update or a message under a LID leaves the time behind.
LastTimeHonest ==
  /\ \A c \in Chats : chats[c].last \in {0} \cup accepted[c]
  /\ Quiet => \A c \in Chats \ missed : \A id \in Ids : rows[c][id].ts <= chats[c].last

\* The media columns of a row belong to one upload, whatever partial replay,
\* history import, alias repair or media retry wrote them last: a key is never
\* stored beside the hash or the locator of another file (insertMessageSQL,
\* StoreMediaInfo).
SnapshotCoherent ==
  \A c \in Chats, id \in Ids :
    LET row == rows[c][id]
        uploads == {row.url % Renewed, row.path % Renewed, row.key, row.sha} \ {0}
    IN Cardinality(uploads) <= 1

ImportStep(w) == boot' = boot /\ live' = live /\ imp'[w] # imp[w]

\* What an import may never do to an existing row.  A bundle of a group member
\* only adds rows, and never touches a read marker or a timer.  The phone's
\* history never replaces a complete snapshot by another locator.  Neither
\* drops a row, undoes a retraction or a receipt, moves a live position back,
\* or lets another author take over a location.
HistoryPreserves ==
  \A c \in Chats, id \in Ids :
    LET old == rows[c][id]
        new == rows'[c][id]
    IN /\ ImportStep("peer") => /\ Exists(old) => new = old
                                /\ chats'[c].read = chats[c].read /\ chats'[c].timerTs = chats[c].timerTs
       /\ ImportStep("phone") /\ Exists(old) =>
            /\ Exists(new) /\ new.deleted = old.deleted /\ new.receipt = old.receipt
            /\ Complete(old) /\ old.path # 0 => new.path = old.path /\ new.key = old.key
            /\ old.kind = "location" => new.seq >= old.seq /\ new.author = old.author

\* handleHistorySync passes over a conversation whose newest row is missing or has no
\* time, with all the rows behind it, and noteHistoryLoss is not told.
Skipped(w, n) == Data(w)[n].rows = <<>> \/ Data(w)[n].rows[1].ts = 0

\* An import that ran to its end stored every storable row of the conversations it
\* opened or counted it, each exactly once: a bad row costs only itself, and a busy
\* database costs a tail of the conversation, so that the oldest stored message (the
\* anchor of the next request_history) never lies beyond a lost one.  Of a conversation
\* without a date at its head nothing is stored and nothing is counted.
ImportAccounted ==
  \A w \in Importers : imp[w].pc = "done" =>
    LET all == {p \in (DOMAIN Data(w)) \X (1..Max({0} \cup {Len(Data(w)[n].rows) : n \in DOMAIN Data(w)})) :
                  p[2] \in DOMAIN Data(w)[p[1]].rows /\ Storable(Data(w)[p[1]].rows[p[2]])}
        opened == {p \in all : ~Skipped(w, p[1])}
        lost == opened \ imp[w].kept
        msg(p) == Data(w)[p[1]].rows[p[2]]
    IN /\ imp[w].lost = Cardinality(lost)
       /\ \A p \in all \ opened : p \notin imp[w].kept
       /\ \A p \in opened \ lost : msg(p).kind # "edit" =>
            \E c \in Chats : msg(p).id \in ever[c] \/ <<c, msg(p).id>> \in polls
       /\ \A p \in lost : msg(p).id \notin scene.bad =>
            \A q \in imp[w].kept : q[1] = p[1] => q[2] < p[2]

\* Start-up loses nothing when it merges a LID chat into its phone chat: every
\* message of either has a row, an acknowledged receipt of either survives, and
\* neither time of the chat goes back (MigrateLegacyLIDChatsToPhoneJIDs).
TwinsMerged ==
  boot = "chats" /\ boot' = "senders" /\ known =>
    /\ \A id \in Ids :
         /\ Exists(rows["pn"][id]) \/ Exists(rows["lid"][id]) => Exists(rows'["pn"][id])
         /\ rows["pn"][id].receipt \/ rows["lid"][id].receipt => rows'["pn"][id].receipt
         /\ ~Exists(rows'["lid"][id])
    /\ chats'["pn"].read >= Later(chats["pn"].read, chats["lid"].read)
    /\ chats'["pn"].last >= Later(chats["pn"].last, chats["lid"].last)

\* Neither an import nor the merge of start-up loses what the archive holds.
RowsPreserved == [][HistoryPreserves /\ TwinsMerged]_vars
=============================================================================
