---------------------------- MODULE ArchiveRows ----------------------------
(***************************************************************************)
(* What one statement of messages.db does to a message row and to a chat   *)
(* row: the upsert of insertMessageSQL with its rule for media snapshots,  *)
(* the live-location guard in front of it, the chat upserts with their     *)
(* monotone columns, and the start-up merge of a LID chat into its phone   *)
(* chat.  Pure operators; Archive.tla says when they are applied.          *)
(*                                                                         *)
(* Media columns hold the number of the upload they belong to (0: empty).  *)
(* A direct path is renewed by the sender's phone: path u + Renewed is a   *)
(* newer path to upload u.                                                 *)
(***************************************************************************)
EXTENDS Naturals, FiniteSets, FiniteSetsExt

CONSTANT Renewed       \* larger than every upload number

\* A row that is absent has time 0; a chat row that is absent has there = FALSE.
NoRow == [ts |-> 0, own |-> FALSE, author |-> "", kind |-> "text", text |-> "",
          url |-> 0, path |-> 0, key |-> 0, sha |-> 0,
          live |-> FALSE, seq |-> 0, meta |-> "", deleted |-> 0, receipt |-> FALSE]
NoChat == [there |-> FALSE, last |-> 0, read |-> 0, timer |-> 0, timerTs |-> 0]

Exists(row) == row.ts # 0
Columns == DOMAIN NoRow

\* storedMessageSnapshot: what a delivered message m fills a new row with.
RowOf(m) == [f \in Columns |-> IF f \in {"deleted", "receipt"} THEN NoRow[f] ELSE m[f]]

Complete(m) == (m.url # 0 \/ m.path # 0) /\ m.key # 0 /\ m.sha # 0

ReplaceMedia(old, m, replay) ==
  \/ Complete(m) /\ ~(replay /\ old.path # 0 /\ old.sha # 0 /\ old.key # 0 /\ m.path # old.path)
  \/ old.url = 0 /\ old.path = 0 /\ old.key = 0 /\ old.sha = 0

\* The location columns of the upsert: a live sample that is older than the
\* stored position gives the row its metadata and leaves the position alone.
LocationSeq(old, m) ==
  IF m.kind # "location" THEN old.seq
  ELSE IF old.kind = "location" /\ old.live /\ m.live /\ old.seq > m.seq THEN old.seq ELSE m.seq

\* Fault: every media column is kept when the incoming one is empty.
MutUpsert(old, m, replay) ==
  IF ~Exists(old) THEN RowOf(m)
  ELSE [old EXCEPT !.ts = m.ts, !.own = m.own, !.author = m.author, !.text = m.text,
                   !.url = IF m.url = 0 THEN @ ELSE m.url,
                   !.path = IF m.path = 0 THEN @ ELSE m.path,
                   !.key = IF m.key = 0 THEN @ ELSE m.key,
                   !.sha = IF m.sha = 0 THEN @ ELSE m.sha]

Upsert(old, m, replay) ==
  LET swap == ReplaceMedia(old, m, replay)
  IN IF ~Exists(old) THEN RowOf(m)
     ELSE [old EXCEPT
       !.own = m.own, !.author = m.author,
       !.text = IF ~Complete(m) /\ m.text = "" /\ old.kind = "media" THEN @ ELSE m.text,
       !.ts = IF ~swap /\ old.kind = "media" THEN @ ELSE m.ts,
       !.kind = IF swap /\ m.kind # "text" THEN m.kind ELSE @,
       !.url = IF swap THEN m.url ELSE @,
       !.path = IF swap THEN m.path ELSE @,
       !.key = IF swap THEN m.key ELSE @,
       !.sha = IF swap THEN m.sha ELSE @,
       !.live = IF m.kind = "location" THEN m.live ELSE @,
       !.seq = LocationSeq(old, m),
       !.meta = IF m.kind = "location" THEN m.meta ELSE @]

-----------------------------------------------------------------------------
(* The live-location guard: a true Consumed keeps the message away from the *)
(* upsert, and from the chat's activity.                                    *)

SameAuthor(old, m) == old.author = m.author /\ old.own = m.own

Collides(old, m) == Exists(old) /\ ~SameAuthor(old, m) /\ (old.kind = "location" \/ m.live)
PositionUpdate(old, m) == Exists(old) /\ SameAuthor(old, m) /\ m.live /\ m.seq > 0
Consumed(old, m) == Collides(old, m) \/ PositionUpdate(old, m)

Persist(old, m, replay) ==
  IF Collides(old, m) THEN old
  ELSE IF PositionUpdate(old, m)
       THEN IF old.kind = "location" /\ old.live /\ old.seq < m.seq
            THEN [old EXCEPT !.seq = m.seq] ELSE old
       ELSE Upsert(old, m, replay)

-----------------------------------------------------------------------------
(* Chat rows. *)

Later(a, b) == IF a > b THEN a ELSE b

\* storeChatWith: time 0 binds NULL, "no news".
StoreChat(chat, t) == [chat EXCEPT !.there = TRUE, !.last = Later(@, t)]
EnsureChat(chat) == StoreChat(chat, 0)
MarkChatRead(chat, t) == [chat EXCEPT !.there = TRUE, !.read = Later(@, t)]
UpdateTimer(chat, timer, ts) ==
  IF ts = 0 \/ (chat.there /\ ts < chat.timerTs) THEN chat
  ELSE [chat EXCEPT !.there = TRUE, !.timer = timer, !.timerTs = ts]

-----------------------------------------------------------------------------
(* MigrateLegacyLIDChatsToPhoneJIDs, for one mapped pair of chats. *)

LatestRow(rows) == Max({0} \cup {rows[id].ts : id \in DOMAIN rows})

\* The disappearing timer is not among the columns the merge carries over.
MergedChat(phone, lid, lidRows) ==
  LET last == IF lid.last # 0 THEN lid.last ELSE LatestRow(lidRows)
  IN [phone EXCEPT !.there = TRUE, !.last = Later(@, last), !.read = Later(@, lid.read)]

\* INSERT OR IGNORE, then the receipts of both sources.
MergedRow(phone, lid) ==
  [(IF Exists(phone) THEN phone ELSE lid) EXCEPT !.receipt = phone.receipt \/ lid.receipt]
=============================================================================
