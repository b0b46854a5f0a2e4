---------------------------- MODULE PendingEdits ----------------------------
(***************************************************************************)
(* Edits that arrive before, after or beside the message they edit         *)
(* (pending_edits.go, and the archive write of store_batch.go).            *)
(*                                                                         *)
(* An edit whose target is archived updates its row; any other waits in    *)
(* pending_edits until the original is archived, a deadline or a cap.  The *)
(* phone address "pn" and the hidden address "lid" name one person, which  *)
(* the session learns at some time; a delivery resolved before that time   *)
(* may commit after it.  An original therefore looks up the aliases of the *)
(* pending edits before its transaction, and the transaction checks that   *)
(* the pending identities did not change in between.                       *)
(***************************************************************************)
EXTENDS Integers, Sequences, FiniteSets, SequencesExt

CONSTANTS
  Scenes,             \* the conversations: records of the fields below
  Originals, Editors, \* concurrent writers: of originals, of edits
  TTL, SenderCap, ChatCap, GlobalCap, MaxAttempts

VARIABLES
  scene,              \* the conversation
  now, mapped,        \* clock; does the session map lid to pn
  row,                \* table messages: [chat, id] -> row or NoRow
  pending,            \* table pending_edits in rowid order
  orig, editor,       \* the deliveries in flight
  nOriginal, nEdit, nRestart, nFault

Wires == scene.wires              \* delivery addresses [chat, author] before resolution
Owner == scene.owner              \* Owner[id]: the person who wrote the message
Edits == scene.edits              \* [id, person, stamp]: the edits that are sent
Ids   == DOMAIN Owner
MaxNow      == scene.maxNow       \* bound: clock
MaxOriginal == scene.maxOriginal  \* bound: deliveries of originals, replays included
MaxEdit     == scene.maxEdit      \* bound: deliveries of edits, replays included
MaxRestart  == scene.maxRestart
MaxFault    == scene.maxFault

counters == <<nOriginal, nEdit, nRestart, nFault>>
vars == <<scene, now, mapped, row, pending, orig, editor, counters>>

ASSUME EditsAssumption ==
  /\ {TTL, SenderCap, ChatCap, GlobalCap, MaxAttempts} \subseteq Nat \ {0}
  /\ \A s \in Scenes :
       /\ {s.maxNow, s.maxOriginal, s.maxEdit, s.maxRestart, s.maxFault} \subseteq Nat
       /\ \A e \in s.edits : e.id \in DOMAIN s.owner /\ e.stamp \in Nat \ {0}

Person(author) == IF author = "lid" THEN "pn" ELSE author
Chats   == {"pn"} \cup {w.chat : w \in Wires}
Authors == {"pn"} \cup {w.author : w \in Wires}
Resolve(jid, known) == IF known THEN Person(jid) ELSE jid

NoRow  == [author |-> "", stamp |-> 0, deleted |-> FALSE]
NoOrig == [pc |-> "idle"]
NoEdit == [pc |-> "idle"]

Row     == [author : Authors, stamp : Nat, deleted : BOOLEAN] \cup {NoRow}
Pending == [chat : Chats, id : Ids, author : Authors, stamp : Nat, arrived : Nat, expires : Nat]

Init ==
  /\ scene \in Scenes /\ now = 0 /\ mapped = FALSE
  /\ row = [k \in Chats \X Ids |-> NoRow] /\ pending = <<>>
  /\ orig = [o \in Originals |-> NoOrig] /\ editor = [v \in Editors |-> NoEdit]
  /\ nOriginal = 0 /\ nEdit = 0 /\ nRestart = 0 /\ nFault = 0
-----------------------------------------------------------------------------
(* The table *)

Prune(table) == SelectSeq(table, LAMBDA p : p.expires > now)

SameKey(p, q) == p.chat = q.chat /\ p.id = q.id /\ p.author = q.author

\* Arrival order of two positions of a table: arrived_ms, then rowid.
Later(table, i, j) ==
  \/ table[i].arrived > table[j].arrived
  \/ table[i].arrived = table[j].arrived /\ i > j

\* The partitions the caps count in: an entry's group, and none for other chats.
BySender(p, chat) == IF p.chat = chat THEN <<chat, p.author>> ELSE <<>>
ByChat(p, chat)   == IF p.chat = chat THEN <<chat>> ELSE <<>>

\* Of the positions of each group, the newest cap stay.
Newest(table, group, cap) ==
  LET out == {i \in DOMAIN table : group[i] # <<>> /\
                Cardinality({j \in DOMAIN table : group[j] = group[i] /\ Later(table, j, i)}) >= cap}
  IN [k \in 1..(Len(table) - Cardinality(out)) |->
        table[CHOOSE i \in DOMAIN table \ out :
                Cardinality({j \in DOMAIN table \ out : j <= i}) = k]]

CapSender(table, chat) == Newest(table, [i \in DOMAIN table |-> BySender(table[i], chat)], SenderCap)

CapChat(table, chat) == Newest(table, [i \in DOMAIN table |-> ByChat(table[i], chat)], ChatCap)

\* Fault: the chat's oldest edits go before one sender's burst is cut.
MutCapPendingEdits(table, chat) ==
  CapSender(CapChat(table, chat), chat)

\* capPendingEdits: per sender, per chat, then over the table.
CapPendingEdits(table, chat) ==
  LET byChat == CapChat(CapSender(table, chat), chat)
  IN Newest(byChat, [i \in DOMAIN byChat |-> <<"table">>], GlobalCap)

\* ON CONFLICT: a newer version replaces the text and keeps arrival and deadline.
Merged(old, new) == IF new.stamp > old.stamp THEN [old EXCEPT !.stamp = new.stamp] ELSE old

Insert(table, p) ==
  IF \E i \in DOMAIN table : SameKey(table[i], p)
  THEN [i \in DOMAIN table |-> IF SameKey(table[i], p) THEN Merged(table[i], p) ELSE table[i]]
  ELSE Append(table, p)
-----------------------------------------------------------------------------
(* Edits *)

\* The edit is resolved and, where its target is archived under the hidden
\* address of the same person, keeps that address (liveLocationSender).
DeliverEdit(v, e, w, hint) ==
  LET chat   == Resolve(w.chat, mapped \/ hint)
      author == Resolve(w.author, mapped \/ hint)
  IN /\ editor[v].pc = "idle" /\ nEdit < MaxEdit
     /\ Person(w.author) = e.person
     /\ editor' = [editor EXCEPT ![v] =
          [pc |-> "apply", edit |-> e, chat |-> chat,
           author |-> IF mapped /\ author = "pn" /\ row[chat, e.id].author = "lid" THEN "lid" ELSE author]]
     /\ nEdit' = nEdit + 1
     /\ UNCHANGED <<scene, now, mapped, row, pending, orig, nOriginal, nRestart, nFault>>

EditApplies(r, author, stamp) == r.author = author /\ r.stamp < stamp /\ ~r.deleted

\* applyOrDeferMessageEdit, one transaction.
ApplyEdit(v) ==
  LET d     == editor[v]
      k     == <<d.chat, d.edit.id>>
      table == Prune(pending)
      entry == [chat |-> d.chat, id |-> d.edit.id, author |-> d.author, stamp |-> d.edit.stamp,
                arrived |-> now, expires |-> now + TTL]
  IN /\ d.pc = "apply"
     /\ IF row[k] # NoRow
        THEN /\ pending' = table
             /\ row' = IF EditApplies(row[k], d.author, d.edit.stamp)
                       THEN [row EXCEPT ![k].stamp = d.edit.stamp] ELSE row
        ELSE /\ pending' = CapPendingEdits(Insert(table, entry), d.chat)
             /\ UNCHANGED row
     /\ editor' = [editor EXCEPT ![v] = NoEdit]
     /\ UNCHANGED <<scene, now, mapped, orig, counters>>
-----------------------------------------------------------------------------
(* Originals *)

\* A delivery is resolved; hint: it carries the verified other address.
DeliverOriginal(o, id, w, hint) ==
  /\ orig[o].pc = "idle" /\ nOriginal < MaxOriginal
  /\ Person(w.author) = Owner[id]
  /\ orig' = [orig EXCEPT ![o] =
       [pc |-> "prepare", id |-> id, wire |-> w, hint |-> hint, attempt |-> 1,
        chat |-> Resolve(w.chat, mapped \/ hint), author |-> Resolve(w.author, mapped \/ hint)]]
  /\ nOriginal' = nOriginal + 1
  /\ UNCHANGED <<scene, now, mapped, row, pending, editor, nEdit, nRestart, nFault>>

\* The typed identities pending for a target and not expired at a time.
Identities(id, at) ==
  {[chat |-> pending[i].chat, author |-> pending[i].author] :
     i \in {j \in DOMAIN pending : pending[j].id = id /\ pending[j].expires > at}}

Twin(jid)  == CASE jid = "pn" -> "lid" [] jid = "lid" -> "pn" [] OTHER -> ""

\* pendingEditAlias: the session is asked only about addresses some pending
\* edit of this target has; "" when there is none or the map does not know.
ChatAlias(d) ==
  LET found == \E p \in Identities(d.id, now) :
                 p.chat = Twin(d.chat) /\ p.author \in {d.author, Twin(d.author)}
  IN IF found /\ mapped THEN Twin(d.chat) ELSE ""
AuthorAlias(d) ==
  LET found == \E p \in Identities(d.id, now) :
                 p.author = Twin(d.author) /\ (p.chat = d.chat \/ p.chat = ChatAlias(d))
  IN IF found /\ mapped THEN Twin(d.author) ELSE ""

\* Addresses the delivery itself proves: its own before resolution, and the
\* hidden one its hint names.
WireAlias(raw, resolved, hint) ==
  IF resolved = "pn" /\ (raw = "lid" \/ hint) THEN "lid" ELSE ""
OrElse(a, b) == IF a # "" THEN a ELSE b

\* preparePendingEdit and the hints; ok: the session answers.
Prepare(o, ok) ==
  LET d  == orig[o]
      ca == IF ok THEN ChatAlias(d) ELSE ""
      aa == IF ok THEN AuthorAlias(d) ELSE ""
  IN /\ d.pc = "prepare"
     /\ IF ok THEN UNCHANGED nFault ELSE nFault < MaxFault /\ nFault' = nFault + 1
     /\ orig' = [orig EXCEPT ![o] =
          [pc |-> "write", id |-> d.id, wire |-> d.wire, hint |-> d.hint, attempt |-> d.attempt,
           chat |-> d.chat, author |-> d.author, readAt |-> now, seen |-> Identities(d.id, now),
           chatAlias |-> OrElse(ca, WireAlias(d.wire.chat, d.chat, d.hint)),
           authorAlias |-> OrElse(aa, WireAlias(d.wire.author, d.author, d.hint)),
           sure |-> ok /\ mapped]]
     /\ UNCHANGED <<scene, now, mapped, row, pending, editor, nOriginal, nEdit, nRestart>>

\* Fault: the identities are not checked again.
MutUnchanged(d) == TRUE

Unchanged(d) == Identities(d.id, d.readAt) = d.seen

Exhausted(d) == d.attempt >= MaxAttempts

\* Pending edits were added or removed meanwhile: prepare again, three times.
WriteRefused(o) ==
  LET d == orig[o]
  IN /\ d.pc = "write" /\ ~Unchanged(d)
     /\ orig' = [orig EXCEPT ![o] =
          IF Exhausted(d) THEN NoOrig
          ELSE [pc |-> "prepare", id |-> d.id, wire |-> d.wire, hint |-> d.hint,
                attempt |-> d.attempt + 1, chat |-> d.chat, author |-> d.author]]
     /\ UNCHANGED <<scene, now, mapped, row, pending, editor, counters>>

InChats(p, d) == p.id = d.id /\ (p.chat = d.chat \/ p.chat = d.chatAlias)

\* Fault: any pending author may edit the row.
MutMatches(p, d) == InChats(p, d)

\* consumePendingEdits: what may update the row.
Matches(p, d) == InChats(p, d) /\ (p.author = d.author \/ p.author = d.authorAlias)

Removed(p, d) == InChats(p, d)

Greatest(S) == CHOOSE n \in S : \A k \in S : k <= n

\* StoreMessage, one transaction: the upsert keeps an edited text, the newest
\* matching edit is applied and every edit of the target is removed.
WriteOriginal(o) ==
  LET d      == orig[o]
      k      == <<d.chat, d.id>>
      table  == Prune(pending)
      stamps == {table[i].stamp : i \in {j \in DOMAIN table : Matches(table[j], d)}}
      newest == Greatest(stamps \cup {row[k].stamp})
  IN /\ d.pc = "write" /\ Unchanged(d)
     /\ row' = [row EXCEPT ![k] =
          [author |-> d.author, deleted |-> @.deleted, stamp |-> IF @.deleted THEN @.stamp ELSE newest]]
     /\ pending' = SelectSeq(table, LAMBDA p : ~Removed(p, d))
     /\ orig' = [orig EXCEPT ![o] = NoOrig]
     /\ UNCHANGED <<scene, now, mapped, editor, counters>>
-----------------------------------------------------------------------------
(* The rest *)

\* MarkMessageDeleted.
Revoke(k) ==
  /\ row[k] # NoRow /\ ~row[k].deleted
  /\ row' = [row EXCEPT ![k].deleted = TRUE]
  /\ UNCHANGED <<scene, now, mapped, pending, orig, editor, counters>>

LearnMapping ==
  /\ ~mapped /\ mapped' = TRUE
  /\ UNCHANGED <<scene, now, row, pending, orig, editor, counters>>

\* The clock matters to pending edits alone.
Tick ==
  /\ pending # <<>> /\ now < MaxNow /\ now' = now + 1
  /\ UNCHANGED <<scene, mapped, row, pending, orig, editor, counters>>

\* A conflict of the migration: the newest text, the earliest deadline.
Migrated(old, new) ==
  [old EXCEPT !.stamp = Greatest({@, new.stamp}),
              !.arrived = -Greatest({-@, -new.arrived}), !.expires = -Greatest({-@, -new.expires})]

MoveEntry(table, p) ==
  IF \E i \in DOMAIN table : SameKey(table[i], p)
  THEN [i \in DOMAIN table |-> IF SameKey(table[i], p) THEN Migrated(table[i], p) ELSE table[i]]
  ELSE Append(table, p)

\* migratePendingEditChats.
MigratePendingEditChats(table) ==
  LET hidden == SelectSeq(table, LAMBDA p : p.chat = "lid")
      others == SelectSeq(table, LAMBDA p : p.chat # "lid")
      moved  == FoldLeft(MoveEntry, others, [i \in DOMAIN hidden |-> [hidden[i] EXCEPT !.chat = "pn"]])
  IN IF hidden = <<>> THEN table ELSE CapPendingEdits(moved, "pn")

\* MigrateLegacyLIDChatsToPhoneJIDs: a row of the phone chat wins.
MigrateRows ==
  [k \in DOMAIN row |->
     CASE k[1] = "lid" -> NoRow
       [] k[1] = "pn" /\ row[k] = NoRow /\ "lid" \in Chats -> row[<<"lid", k[2]>>]
       [] OTHER -> row[k]]

\* Startup: deliveries in flight are lost, both tables are migrated.
Restart ==
  /\ nRestart < MaxRestart /\ nRestart' = nRestart + 1
  /\ orig' = [o \in Originals |-> NoOrig] /\ editor' = [v \in Editors |-> NoEdit]
  /\ pending' = IF mapped THEN MigratePendingEditChats(Prune(pending)) ELSE Prune(pending)
  /\ row' = IF mapped THEN MigrateRows ELSE row
  /\ UNCHANGED <<scene, now, mapped, nOriginal, nEdit, nFault>>
-----------------------------------------------------------------------------
Next ==
  \/ \E v \in Editors, e \in Edits, w \in Wires, hint \in BOOLEAN : DeliverEdit(v, e, w, hint)
  \/ \E v \in Editors : ApplyEdit(v)
  \/ \E o \in Originals, id \in Ids, w \in Wires, hint \in BOOLEAN : DeliverOriginal(o, id, w, hint)
  \/ \E o \in Originals : (\E ok \in BOOLEAN : Prepare(o, ok)) \/ WriteRefused(o) \/ WriteOriginal(o)
  \/ \E k \in Chats \X Ids : Revoke(k)
  \/ LearnMapping \/ Tick \/ Restart

Spec == Init /\ [][Next]_vars
-----------------------------------------------------------------------------
Entries == {pending[i] : i \in DOMAIN pending}
Alive   == {p \in Entries : p.expires > now}

\* A row shows the text of an edit only if the person who wrote the message
\* wrote that edit, whatever identities were pending for it.
OnlyTheAuthorEdits ==
  \A k \in Chats \X Ids : row[k].stamp # 0 =>
    \E e \in Edits : e.id = k[2] /\ e.stamp = row[k].stamp /\ e.person = Owner[k[2]]

\* No edit waits for a message that is archived in its chat: nothing would
\* consume it.  Rows a startup migration moved are excepted.
NoneWaitsInVain ==
  nRestart = 0 => \A p \in Alive : row[p.chat, p.id] = NoRow

\* Replays and late deliveries never bring an older text back, and a retracted
\* message keeps its text.
TextNeverOlder ==
  \A k \in Chats \X Ids :
    row[k] # NoRow /\ nRestart' = nRestart =>
      /\ row'[k].stamp >= row[k].stamp
      /\ row[k].deleted => row'[k].deleted /\ row'[k].stamp = row[k].stamp

\* When an original is archived by a writer that could ask the session, no
\* pending edit of its author in its chats is discarded unapplied, also when the
\* edit was committed while the original was being prepared.
NoEditDiscarded ==
  \A o \in Originals :
    orig[o].pc = "write" /\ orig'[o].pc = "idle" /\ orig[o].sure /\ row' # row /\ nRestart' = nRestart =>
      LET k == <<orig[o].chat, orig[o].id>>
      IN \A p \in Alive :
           (p.id = k[2] /\ p.chat \in {k[1], Twin(k[1])} /\ Person(p.author) = Owner[k[2]])
             => row'[k].deleted \/ row'[k].stamp >= p.stamp

\* A burst of edits by one member removes no edit of another member while the
\* members' caps fit into the chat's and the chats' into the table's.
FloodIsolated ==
  [][/\ Cardinality(Authors) * SenderCap <= ChatCap
     /\ Cardinality({w.chat : w \in Wires}) * ChatCap <= GlobalCap
     => \A v \in Editors :
          editor[v].pc = "apply" /\ editor'[v].pc = "idle" /\ nRestart' = nRestart =>
            \A p \in Alive : p.author # editor[v].author => \E j \in DOMAIN pending' : pending'[j] = p]_vars


\* The text of a row is true: its author's, and never older than before
\* (applyMessageEdit and the consumption of pending edits).
TextTrue == [][OnlyTheAuthorEdits' /\ TextNeverOlder]_vars

\* No edit that came before its message is lost: the writer of the message consumes
\* it, and none is parked where no writer will look.
NoEditLost == [][NoEditDiscarded /\ NoneWaitsInVain']_vars
=============================================================================
