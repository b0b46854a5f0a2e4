----------------------------- MODULE RosterSync -----------------------------
(***************************************************************************)
(* The scheduled pass over the groups whose roster is stale.  A pass       *)
(* fetches at most Limit of them, paced; groups the allow-list excludes,   *)
(* and groups that failed lately, cost nothing.  The pass sleeps a whole   *)
(* interval, or a short while when it left stale groups over.  A Join of   *)
(* somebody the roster lists already makes the group look fresh.           *)
(***************************************************************************)
EXTENDS Naturals, FiniteSets

CONSTANTS
  Groups,     \* group chats of the store
  Excluded,   \* groups the allow-list does not name
  Left,       \* groups the account is no longer in
  Limit,      \* groupRosterSyncBatch
  Interval,   \* GroupRosterSync, in paces
  Retry,      \* groupRosterSyncRetryDelay
  RetryAfter, \* groupRosterRetryAfter
  GoneAfter,  \* groupRosterGoneRetryAfter
  MaxFaults   \* bound: failed fetches and listings, lost connections, repeated joins

VARIABLES
  age,        \* time since the newest last_seen of a group's roster rows, at most Interval + 1
  fetched,    \* groups whose roster was stored since the loop last slept
  backoff,    \* time left of the group's wait
  asleep,     \* the loop waits for its next pass
  delay,      \* time left of that wait
  todo,       \* stale groups this pass has not come to
  attempted,  \* fetches of this pass
  connected,
  troubles

syncVars == <<age, fetched, backoff, asleep, delay, todo, attempted, connected, troubles>>

Older(a) == [g \in Groups |-> IF a[g] > Interval THEN a[g] ELSE a[g] + 1]
Shorter(w) == [g \in Groups |-> IF w[g] = 0 THEN 0 ELSE w[g] - 1]
Stale == {g \in Groups : age[g] > Interval}

SyncInit ==
  /\ age \in [Groups -> {0, Interval + 1}] /\ fetched = {} /\ backoff = [g \in Groups |-> 0]
  /\ delay = 1 /\ todo = {} /\ attempted = 0 /\ asleep = TRUE
  /\ connected \in BOOLEAN /\ troubles = 0

\* Fault: a pass that left groups over sleeps the whole interval.
MutDelayAfter(more) == Interval

\* runGroupRosterSync
DelayAfter(more) == IF more THEN Retry ELSE Interval

Sleep(d) == delay' = d /\ attempted' = 0 /\ asleep' = TRUE /\ todo' = {}

Pass ==
  /\ asleep /\ delay > 0 /\ delay' = delay - 1 /\ age' = Older(age) /\ backoff' = Shorter(backoff)
  /\ fetched' = {} /\ UNCHANGED <<asleep, todo, attempted, connected, troubles>>

\* StaleGroupRosters, or another short sleep while the socket is down.  A listing
\* that fails ends the pass as one with nothing left over.
Wake ==
  /\ asleep /\ delay = 0
  /\ \/ connected /\ todo' = Stale /\ asleep' = FALSE /\ UNCHANGED <<attempted, delay, troubles>>
     \/ connected /\ troubles < MaxFaults /\ troubles' = troubles + 1 /\ Sleep(DelayAfter(FALSE))
     \/ ~connected /\ Sleep(Retry) /\ UNCHANGED troubles
  /\ UNCHANGED <<age, fetched, backoff, connected>>

\* syncGroupRosters, one stale group, in any order of activity.
Skip ==
  /\ ~asleep /\ connected
  /\ \E g \in todo : (g \in Excluded \/ backoff[g] > 0) /\ todo' = todo \ {g}
  /\ UNCHANGED <<age, fetched, backoff, delay, asleep, attempted, connected, troubles>>

\* refreshGroupRoster: a roster, "not in the group", or a failure; then the pace.
Refresh ==
  /\ ~asleep /\ connected /\ attempted < Limit
  /\ \E g \in todo \ Excluded :
       /\ backoff[g] = 0 /\ todo' = todo \ {g} /\ attempted' = attempted + 1
       /\ \/ /\ g \notin Left /\ age' = Older([age EXCEPT ![g] = 0]) /\ fetched' = fetched \cup {g}
             /\ backoff' = Shorter(backoff) /\ UNCHANGED troubles
          \/ /\ g \in Left /\ age' = Older(age) /\ UNCHANGED fetched
             /\ backoff' = Shorter([backoff EXCEPT ![g] = GoneAfter]) /\ UNCHANGED troubles
          \/ /\ troubles < MaxFaults /\ troubles' = troubles + 1 /\ age' = Older(age) /\ UNCHANGED fetched
             /\ backoff' = Shorter([backoff EXCEPT ![g] = RetryAfter])
  /\ UNCHANGED <<asleep, delay, connected>>

\* The pass ends: nothing is left, the cap is reached, or the socket is down.
Finish ==
  /\ ~asleep
  /\ \/ todo = {} /\ Sleep(DelayAfter(FALSE))
     \/ attempted = Limit /\ (\E g \in todo \ Excluded : backoff[g] = 0) /\ Sleep(DelayAfter(TRUE))
     \/ todo # {} /\ ~connected /\ Sleep(DelayAfter(TRUE))
  /\ UNCHANGED <<age, fetched, backoff, connected, troubles>>

\* AddGroupMembers on a row of the roster: source stays, last_seen moves.
JoinAgain ==
  /\ troubles < MaxFaults /\ troubles' = troubles + 1
  /\ \E g \in Groups \ (Excluded \cup Left) : age' = [age EXCEPT ![g] = 0]
  /\ UNCHANGED <<fetched, backoff, asleep, delay, todo, attempted, connected>>

Drop == connected /\ troubles < MaxFaults /\ connected' = FALSE /\ troubles' = troubles + 1
        /\ UNCHANGED <<age, fetched, backoff, asleep, delay, todo, attempted>>
Reconnect == ~connected /\ connected' = TRUE /\ UNCHANGED <<age, fetched, backoff, asleep, delay, todo, attempted, troubles>>

Sync == Pass \/ Wake \/ Skip \/ Refresh \/ Finish
SyncNext == Sync \/ JoinAgain \/ Drop \/ Reconnect

-----------------------------------------------------------------------------
\* The roster of every group that is allowed and that the account is in is fetched
\* again and again, however many excluded and departed groups are stale beside it
\* and whichever group is the most active (runGroupRosterSync's comment), once
\* joins of people the roster lists already no longer make it look fresh.
RostersRefreshed == \A g \in Groups \ (Excluded \cup Left) : []<>(g \in fetched)
=============================================================================
