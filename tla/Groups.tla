------------------------------- MODULE Groups -------------------------------
(***************************************************************************)
(* The cached membership of one group.  Four feeds write it: the           *)
(* notifications of the group, the senders of its messages, and whole      *)
(* rosters fetched by the scheduled pass, by a request or by the settings  *)
(* worker.  A fetch is a question and an answer, and everything else goes  *)
(* on in between; any notification may be delivered again, hours old.  The *)
(* backoff decides which of these feeds may touch a group the account left.*)
(***************************************************************************)
EXTENDS Naturals, Sequences, FiniteSets

CONSTANTS
  People,    \* participants other than this account
  Fetchers,  \* "sync", "rest", "subject", "worker": who may fetch a roster at once
  Skew,      \* groupLeaveClockSkew
  Long,      \* groupRosterGoneRetryAfter
  Short,     \* groupRosterRetryAfter
  Scenarios  \* bound: what happens in the group, and what may go wrong

Me == "me"
None == [since |-> 0, until |-> 0]
Forms == {"pn", "lid"}
Absent == [addr |-> {}, source |-> "none", seen |-> 0, admin |-> FALSE]

VARIABLES
  plot,     \* what is still to happen
  now,      \* the clock
  members,  \* who is in the group: person -> is an admin
  changed,  \* when a person last joined, left, or gained or lost the admin flag
  mode,     \* whether joining needs approval
  inbox,    \* notifications not handled yet
  old,      \* handled notifications WhatsApp may deliver again
  mail,     \* messages not handled yet
  mapped,   \* people whose LID the session store maps to a phone
  rows,     \* group_members: <<person, form of the key>> -> row
  wait,     \* rosterFailures.waits of the group
  back,     \* rosterFailures.back: the questions that went out before it, {} when absent
  setting,  \* chats.group_join_approval_required
  queued,   \* the group is in the settings queue (and in groupSettingsPending)
  handler,  \* the event handler
  fetch,    \* fetcher -> request state
  told,     \* ghost: people whose present membership the cache was told of
  unsure,   \* ghost: people whose present admin flag is not the last the cache was told
  gone,     \* ghost: "no", "clean" or "raced": the own departure was handled
  missed    \* ghost: an approval change whose observation was given up

groupVars == <<plot, now, members, changed, mode, inbox, old, mail, mapped, rows, wait, back, setting,
               queued, handler, fetch, told, unsure, gone, missed>>
world == <<members, changed, mode, inbox, mail, mapped>>

Ready == [pc |-> "idle", at |-> 0, who |-> Me, asking |-> {}]
NoFetch == [pc |-> "idle", at |-> 0, list |-> <<>>, mode |-> FALSE]

GroupInit ==
  /\ plot \in Scenarios /\ now = 1
  /\ members = plot.members /\ changed = [p \in People |-> 0] /\ mode = FALSE
  /\ inbox = <<>> /\ old = {} /\ mail = {} /\ mapped = plot.mapped
  /\ rows = [k \in People \X Forms |-> Absent] /\ wait = None /\ back = {}
  /\ setting = FALSE /\ queued = FALSE
  /\ handler = Ready /\ fetch = [f \in Fetchers |-> NoFetch]
  /\ told = {} /\ unsure = {} /\ gone = "no" /\ missed = FALSE

-----------------------------------------------------------------------------
(* The group itself, and the clock *)

Tick == now < plot.until /\ now' = now + 1 /\ UNCHANGED <<plot, world, old, rows, wait, back, setting, queued,
                                                       handler, fetch, told, unsure, gone, missed>>

Note(k, p) == [kind |-> k, who |-> p, at |-> now]
In == Me \in DOMAIN members
With(p, admin) == [q \in DOMAIN members \cup {p} |-> IF q = p THEN admin ELSE members[q]]
Without(p) == [q \in DOMAIN members \ {p} |-> members[q]]

\* What the next thing to happen in the group is, and what WhatsApp tells of it.
Happen ==
  LET e == Head(plot.script)
      p == e.who
  IN /\ plot.script # <<>>
     /\ plot' = [plot EXCEPT !.script = Tail(@), !.allowed = @ /\ e.kind # "exclude"]
     /\ \/ /\ e.kind = "join" /\ (p # Me /\ changed[p] > 0 => now > changed[p] + Skew)
           /\ members' = With(p, FALSE) /\ told' = told \ {p}
           /\ gone' = IF p = Me THEN "no" ELSE gone
           /\ UNCHANGED <<mode, mail, mapped>>
        \/ /\ e.kind = "leave" /\ members' = Without(p) /\ told' = told \ {p}
           /\ UNCHANGED <<mode, mail, mapped, gone>>
        \/ /\ e.kind \in {"promote", "demote"} /\ p \in DOMAIN members
           /\ members' = With(p, e.kind = "promote")
           /\ UNCHANGED <<mode, mail, mapped, told, gone>>
        \/ e.kind = "mode" /\ mode' = ~mode /\ UNCHANGED <<members, mail, mapped, told, gone>>
        \/ e.kind = "exclude" /\ UNCHANGED <<members, mode, mail, mapped, told, gone>>
        \/ e.kind = "map" /\ mapped' = mapped \cup {p} /\ UNCHANGED <<members, mode, mail, told, gone>>
        \/ /\ e.kind = "message" /\ mail' = mail \cup {Note("message", p)}
           /\ UNCHANGED <<members, mode, mapped, told, gone>>
     /\ unsure' = IF e.kind \in {"promote", "demote"} THEN unsure \cup {p} ELSE unsure
     /\ changed' = IF p = Me \/ members' = members THEN changed ELSE [changed EXCEPT ![p] = now]
     /\ inbox' = IF e.kind \in {"map", "message", "exclude"} \/ (~In /\ p # Me) THEN inbox
                 ELSE Append(inbox, Note(e.kind, p))
     /\ UNCHANGED <<now, old, rows, wait, back, setting, queued, handler, fetch, missed>>

\* WhatsApp delivers again what it thinks was not acknowledged.
Redeliver ==
  /\ plot.again > 0 /\ plot' = [plot EXCEPT !.again = @ - 1]
  /\ \E n \in old : inbox' = Append(inbox, n)
  /\ UNCHANGED <<now, members, changed, mode, mail, mapped, old, rows, wait, back, setting, queued, handler,
                 fetch, told, unsure, gone, missed>>

-----------------------------------------------------------------------------
(* The member table *)

\* newGroupMemberRow, groupMemberRowFromJID: both forms when the store maps the LID.
Addresses(p) == IF p \in mapped THEN Forms ELSE {"lid"}
KeyOf(addr) == IF "pn" \in addr THEN "pn" ELSE "lid"

\* memberMatchSQL: any address form a row shares with the participant.
Matches(k, p) == k[1] = p /\ rows[k].addr \cap Addresses(p) # {}

\* AddGroupMembers: keyed strictly; an existing row keeps its admin flag and source.
Joined(n) ==
  LET k == <<n.who, KeyOf(Addresses(n.who))>>
  IN [rows EXCEPT ![k] = IF @ = Absent THEN [addr |-> Addresses(n.who), source |-> "event", seen |-> now, admin |-> FALSE]
                         ELSE [@ EXCEPT !.addr = @ \cup Addresses(n.who), !.seen = now]]

\* RemoveGroupMembers: a row confirmed well after the departure is left alone.
Departed(n) ==
  [k \in DOMAIN rows |-> IF Matches(k, n.who) /\ rows[k].seen <= n.at + Skew THEN Absent ELSE rows[k]]

\* SetGroupMemberAdmin: no row is invented, last_seen stays.
Flagged(n) ==
  [k \in DOMAIN rows |-> IF Matches(k, n.who) THEN [rows[k] EXCEPT !.admin = n.kind = "promote"] ELSE rows[k]]

\* NoteGroupParticipant: only a sender that no row matches.
Noted(n) ==
  IF \E k \in DOMAIN rows : Matches(k, n.who) THEN rows
  ELSE [rows EXCEPT ![<<n.who, KeyOf(Addresses(n.who))>>] =
          [addr |-> Addresses(n.who), source |-> "message", seen |-> n.at, admin |-> FALSE]]

\* ReplaceGroupRoster: upsert the list under one stamp, then sweep what is older.
Replaced(list, at) ==
  LET listed == {<<p, KeyOf(Addresses(p))>> : p \in DOMAIN list \ {Me}}
      upsert(k) == [addr |-> rows[k].addr \cup Addresses(k[1]), source |-> "roster", seen |-> at, admin |-> list[k[1]]]
  IN [k \in DOMAIN rows |-> IF k \in listed THEN upsert(k)
                            ELSE IF rows[k].seen < at THEN Absent ELSE rows[k]]

-----------------------------------------------------------------------------
(* rosterFailures *)

Recent(t) == wait # None /\ t < wait.until
Asking == {f \in Fetchers : fetch[f].pc # "idle"} \cup (IF handler.pc \in {"check", "wait"} THEN {"handler"} ELSE {})
ForgetAt(asking) == wait' = None /\ back' = asking
Forget == ForgetAt(Asking)

\* recent drops a wait that is over.
Lapse(t) == wait' = IF Recent(t) THEN wait ELSE None

\* noteGone: the check under the mutex; the wait is written after it is released.
GoneAllowed(asker) == asker \notin back
WaitUntil(since, length) == wait' = [since |-> since, until |-> since + length]

-----------------------------------------------------------------------------
(* The event handler: one notification or message at a time *)

Take == handler.pc = "idle" /\ inbox # <<>> /\ inbox' = Tail(inbox)
Handled(n) == old' = old \cup {n}

\* requestGroupSettingsRefresh: nothing when the group waits already, when the
\* socket is down or when the queue is full.
RequestRefresh ==
  \/ queued' = TRUE /\ missed' = FALSE /\ UNCHANGED plot
  \/ /\ ~queued /\ plot.faults > 0 /\ plot' = [plot EXCEPT !.faults = @ - 1]
     /\ missed' = TRUE /\ UNCHANGED queued

\* Join, Leave, Promote and Demote of others (applyGroupParticipantChangesWithPolicy).
HandleChange ==
  LET n == Head(inbox)
      p == n.who
      new == /\ n.kind = "join" /\ p \in DOMAIN members /\ n.at >= changed[p] /\ gone = "no"
             /\ rows[<<p, KeyOf(Addresses(p))>>] = Absent
      said == p \in DOMAIN members /\ members[p] = (n.kind = "promote")
  IN /\ Take /\ n.kind \in {"join", "leave", "promote", "demote"} /\ p # Me /\ Handled(n)
     /\ \/ ~plot.allowed /\ UNCHANGED <<rows, told, unsure>>
        \/ /\ plot.allowed
           /\ \/ n.kind = "join" /\ rows' = Joined(n)
              \/ n.kind = "leave" /\ rows' = Departed(n)
              \/ n.kind \in {"promote", "demote"} /\ rows' = Flagged(n)
           /\ told' = IF new THEN told \cup {p} ELSE told
           /\ unsure' = IF ~new /\ n.kind \in {"join", "leave"} THEN unsure ELSE IF said THEN unsure \ {p} ELSE unsure \cup {p}
     /\ UNCHANGED <<plot, now, members, changed, mode, mail, mapped, wait, back, setting, queued, handler, fetch, gone, missed>>

\* JoinedGroup: the account is back.
HandleReturn ==
  LET n == Head(inbox)
  IN /\ Take /\ n.kind = "join" /\ n.who = Me
     /\ Forget /\ RequestRefresh /\ Handled(n)
     /\ gone' = IF ~In /\ gone = "clean" THEN "raced" ELSE gone
     /\ UNCHANGED <<now, members, changed, mode, mail, mapped, rows, setting, handler, fetch, told, unsure>>

\* The own departure: the roster is dropped, then the group is backed off.
HandleOwnLeave ==
  LET n == Head(inbox)
  IN /\ Take /\ n.kind = "leave" /\ n.who = Me /\ Handled(n)
     /\ \/ ~plot.allowed /\ UNCHANGED <<rows, told, handler, back, gone>>
        \/ /\ plot.allowed /\ rows' = [k \in DOMAIN rows |-> Absent] /\ told' = {}
           /\ handler' = [Ready EXCEPT !.pc = "check", !.at = now] /\ back' = back \ {"handler"}
           /\ gone' = IF In THEN gone ELSE IF \E f \in Fetchers : fetch[f].pc # "idle" THEN "raced" ELSE "clean"
     /\ UNCHANGED <<plot, now, members, changed, mode, mail, mapped, wait, setting, queued, fetch, unsure, missed>>

OwnLeaveCheck ==
  /\ handler.pc = "check"
  /\ IF GoneAllowed("handler") THEN back' = {} /\ handler' = [handler EXCEPT !.pc = "wait"]
     ELSE UNCHANGED back /\ handler' = Ready
  /\ UNCHANGED <<plot, now, world, old, rows, wait, setting, queued, fetch, told, unsure, gone, missed>>

OwnLeaveWait ==
  /\ handler.pc = "wait" /\ WaitUntil(handler.at, Long) /\ handler' = Ready
  /\ UNCHANGED <<plot, now, world, old, rows, back, setting, queued, fetch, told, unsure, gone, missed>>

\* A change of the approval mode does not say which way (applyGroupSettings).
HandleMode ==
  /\ Take /\ Head(inbox).kind = "mode" /\ Handled(Head(inbox))
  /\ \/ plot.allowed /\ RequestRefresh
     \/ ~plot.allowed /\ missed' = TRUE /\ UNCHANGED <<queued, plot>>
  /\ UNCHANGED <<now, members, changed, mode, mail, mapped, rows, wait, back, setting, handler, fetch, told, unsure, gone>>

MayNote(t) == ~Recent(t)

HandlerOnly == UNCHANGED <<plot, now, members, changed, mode, inbox, mapped, old, setting, queued, fetch, told,
                           unsure, gone, missed>>

\* noteGroupSender: the allow-list, then forgetIfAfter's look at the wait.  The
\* moment of the return it would record is read before it looks.
HandleMessage ==
  /\ handler.pc = "idle"
  /\ \E n \in mail :
       LET back_ == n.who = Me /\ wait # None /\ n.at > wait.since
       IN /\ mail' = mail \ {n}
          /\ handler' = IF plot.allowed THEN [pc |-> IF back_ THEN "forget" ELSE "recent", at |-> n.at, who |-> n.who, asking |-> Asking]
                        ELSE Ready
  /\ HandlerOnly /\ UNCHANGED <<rows, wait, back>>

\* An own message newer than the backoff ends it, whatever the wait is by now.
SenderForget ==
  /\ handler.pc = "forget" /\ ForgetAt(handler.asking) /\ handler' = [handler EXCEPT !.pc = "recent"]
  /\ HandlerOnly /\ UNCHANGED <<mail, rows>>

\* Nobody is noted in a group that is backed off; the account's own row is left out.
SenderRecent ==
  /\ handler.pc = "recent" /\ Lapse(handler.at)
  /\ handler' = IF MayNote(handler.at) /\ handler.who # Me THEN [handler EXCEPT !.pc = "note"] ELSE Ready
  /\ HandlerOnly /\ UNCHANGED <<mail, rows, back>>

SenderNote ==
  /\ handler.pc = "note" /\ rows' = Noted(handler) /\ handler' = Ready
  /\ HandlerOnly /\ UNCHANGED <<mail, wait, back>>

-----------------------------------------------------------------------------
(* Roster fetches *)

SetFetch(f, r) == fetch' = [fetch EXCEPT ![f] = r]

\* The worker clears the pending mark before it asks.
PendingDone(f) == f = "worker"

\* The stamp is read before the request: refreshGroupRoster, handleGroupMembers,
\* handleGroupSubject and the worker of requestGroupSettingsRefresh.
Ask(f) ==
  /\ fetch[f].pc = "idle"
  /\ IF f = "worker" THEN queued /\ UNCHANGED plot
     ELSE plot.fetches[f] > 0 /\ plot' = [plot EXCEPT !.fetches[f] = @ - 1]
  /\ queued' = IF PendingDone(f) THEN FALSE ELSE queued
  /\ IF f = "sync" THEN ~Recent(now) /\ Lapse(now) ELSE UNCHANGED wait
  /\ f # "worker" => plot.allowed
  /\ back' = back \ {f} /\ handler' = [handler EXCEPT !.asking = @ \ {f}]
  /\ IF plot.allowed THEN SetFetch(f, [NoFetch EXCEPT !.pc = "asked", !.at = now]) /\ UNCHANGED missed
     ELSE missed' = TRUE /\ UNCHANGED fetch
  /\ UNCHANGED <<now, world, old, rows, setting, told, unsure, gone>>

\* The metadata read for a new description is older than it: only the
\* participants are kept (handleGroupSubject).
FirstStore(f) == IF f = "subject" THEN "roster" ELSE "settings"

Answer(f) ==
  /\ fetch[f].pc = "asked"
  /\ \/ In /\ SetFetch(f, [fetch[f] EXCEPT !.pc = FirstStore(f), !.list = members, !.mode = mode])
        /\ UNCHANGED <<plot, missed>>
     \/ /\ ~In /\ SetFetch(f, IF f = "sync" THEN [fetch[f] EXCEPT !.pc = "gone"] ELSE NoFetch)
        /\ missed' = (missed \/ f = "worker") /\ UNCHANGED plot
     \/ /\ plot.faults > 0 /\ plot' = [plot EXCEPT !.faults = @ - 1]
        /\ SetFetch(f, IF f = "sync" THEN [fetch[f] EXCEPT !.pc = "failed"] ELSE NoFetch)
        /\ missed' = (missed \/ f = "worker")
  /\ UNCHANGED <<now, world, old, rows, wait, back, setting, queued, handler, told, unsure, gone>>

\* storeFetchedGroupInfo, recordGroupRoster: the policy is read again; the
\* settings, then the roster, then the backoff ends.
Refuse(f) ==
  /\ fetch[f].pc = "settings" \/ (fetch[f].pc = "roster" /\ f = "subject")
  /\ ~plot.allowed /\ missed' = TRUE
  /\ SetFetch(f, IF f = "sync" THEN [fetch[f] EXCEPT !.pc = "failed"] ELSE NoFetch)
  /\ UNCHANGED <<plot, now, world, old, rows, wait, back, setting, queued, handler, told, unsure, gone>>

StoreSettings(f) ==
  /\ fetch[f].pc = "settings" /\ plot.allowed /\ SetFetch(f, [fetch[f] EXCEPT !.pc = "roster"])
  /\ setting' = fetch[f].mode
  /\ missed' = (missed \/ (f # "worker" /\ fetch[f].mode # mode))
  /\ UNCHANGED <<plot, now, world, old, rows, wait, back, queued, handler, told, unsure, gone>>

\* Fault: the sweep uses the time the answer is stored.
MutSweepAt(f) == now

\* The stamp the sweep compares with.
SweepAt(f) == fetch[f].at

StoreRoster(f) ==
  LET r == fetch[f]
      new == Replaced(r.list, SweepAt(f))
      both(p) == p \in DOMAIN members /\ p \in DOMAIN r.list
      true_(p) == both(p) /\ r.at >= changed[p]
      lowered(p) == \E k \in DOMAIN rows : k[1] = p /\ rows[k].seen > r.at /\ new[k].seen <= r.at
  IN /\ r.pc = "roster" /\ (f = "subject" => plot.allowed) /\ rows' = new
     /\ SetFetch(f, [r EXCEPT !.pc = "forget"])
     /\ told' = {p \in People : gone = "no" /\ ~lowered(p) /\ (p \in told \/ true_(p))}
     /\ unsure' = {p \in People : IF both(p) THEN r.list[p] # members[p] ELSE p \in unsure}
     /\ UNCHANGED <<plot, now, world, old, wait, back, setting, queued, handler, gone, missed>>

EndBackoff(f) ==
  /\ fetch[f].pc = "forget" /\ SetFetch(f, NoFetch) /\ Forget
  /\ queued' = IF f = "worker" /\ ~PendingDone(f) THEN FALSE ELSE queued
  /\ UNCHANGED <<plot, now, world, old, rows, setting, handler, told, unsure, gone, missed>>

\* The pass was answered "not in the group", or got no answer.
SyncGoneCheck ==
  /\ "sync" \in Fetchers /\ fetch["sync"].pc = "gone"
  /\ IF GoneAllowed("sync") THEN back' = {} /\ SetFetch("sync", [fetch["sync"] EXCEPT !.pc = "wait"])
     ELSE UNCHANGED back /\ SetFetch("sync", NoFetch)
  /\ UNCHANGED <<plot, now, world, old, rows, wait, setting, queued, handler, told, unsure, gone, missed>>

SyncWait ==
  /\ "sync" \in Fetchers /\ fetch["sync"].pc \in {"wait", "failed"}
  /\ WaitUntil(fetch["sync"].at, IF fetch["sync"].pc = "wait" THEN Long ELSE Short) /\ SetFetch("sync", NoFetch)
  /\ UNCHANGED <<plot, now, world, old, rows, back, setting, queued, handler, told, unsure, gone, missed>>

Handle == \/ HandleChange \/ HandleReturn \/ HandleOwnLeave \/ OwnLeaveCheck \/ OwnLeaveWait \/ HandleMode
          \/ HandleMessage \/ SenderForget \/ SenderRecent \/ SenderNote

GroupNext ==
  \/ Tick \/ Happen \/ Redeliver \/ Handle \/ SyncGoneCheck \/ SyncWait
  \/ \E f \in Fetchers : Ask(f) \/ Answer(f) \/ Refuse(f) \/ StoreSettings(f) \/ StoreRoster(f) \/ EndBackoff(f)

-----------------------------------------------------------------------------
(* Properties *)

Quiet == inbox = <<>> /\ handler.pc = "idle" /\ ~queued /\ \A f \in Fetchers : fetch[f].pc = "idle"

\* A participant whose present membership the cache was told of keeps a row: a
\* roster answered before the join and stored after it, and a departure or join
\* that is delivered again hours later, change nothing.  The admin flag is right
\* too, unless the last flag the cache was told is an outdated one:
\* SetGroupMemberAdmin has no time guard, so one that is delivered again writes
\* the old flag and the next true roster mends it.  Left out: rows that an
\* overlapping older fetch stamped back (README).
MembersKept ==
  \A p \in told : \E k \in DOMAIN rows :
    k[1] = p /\ rows[k] # Absent /\ (p \notin unsure => rows[k].admin = members[p])

\* After the own departure was handled with no fetch in flight the cache stays
\* empty until the account is back, or is told so by an old JoinedGroup that is
\* delivered again: messages queued before the departure put nothing back.
GoneStaysGone ==
  gone = "clean" /\ handler.pc = "idle" => \A k \in DOMAIN rows : rows[k] = Absent

\* A change of the approval mode is observed: once everything queued was done,
\* the stored mode is the mode of the group, also when it changed while the
\* worker was fetching (groupSettingsPending).
ApprovalObserved == Quiet /\ ~missed => setting = mode
=============================================================================
