------------------------------ MODULE MCGroups ------------------------------
(* The cached membership of a group, and the schedule of the roster passes, *)
(* on small instances; a behaviour is about one of the two.                 *)
EXTENDS Naturals, Sequences, FiniteSets, TLC

CONSTANTS People, Fetchers, Skew, Long, Short,
          Chats, Excluded, Left, Limit, Interval, Retry, RetryAfter, GoneAfter, MaxFaults

VARIABLES topic,
          plot, now, members, changed, mode, inbox, old, mail, mapped, rows, wait, back, setting,
          queued, handler, fetch, told, unsure, gone, missed,
          age, fetched, backoff, asleep, delay, todo, attempted, connected, troubles

E(k, p) == [kind |-> k, who |-> p]
Both == "me" :> FALSE @@ "a" :> FALSE
Plot == [members |-> Both, mapped |-> {}, script |-> <<>>, again |-> 0, faults |-> 0, allowed |-> TRUE,
         until |-> 1, fetches |-> [f \in Fetchers |-> IF f = "sync" THEN 1 ELSE 0]]

\* Somebody leaves and comes back, is made an admin, and the departure is delivered again.
PlotRejoin == [Plot EXCEPT !.script = <<E("leave", "a"), E("join", "a"), E("promote", "a")>>, !.again = 1, !.until = 4,
                           !.fetches["rest"] = 1, !.fetches["sync"] = 0]
\* Somebody joins, and the LID store learns their phone, while rosters are fetched.
PlotJoin == [Plot EXCEPT !.members = "me" :> FALSE, !.script = <<E("join", "a"), E("map", "a"), E("demote", "a")>>,
                         !.again = 1, !.fetches["subject"] = 1, !.until = 3]
\* The account leaves a group, with messages on their way, and comes back.
PlotDepart == [Plot EXCEPT !.script = <<E("message", "a"), E("message", "me"), E("leave", "me"), E("join", "me"), E("message", "me")>>,
                           !.faults = 1, !.until = 3]
\* Somebody is made an admin and loses the flag again; one of the two is delivered again.
PlotFlags == [Plot EXCEPT !.script = <<E("promote", "a"), E("demote", "a")>>, !.again = 1, !.until = 2, !.fetches["rest"] = 1]
\* The account leaves and comes back, and one of the two is delivered again, among messages.
PlotReturn == [Plot EXCEPT !.script = <<E("message", "a"), E("leave", "me"), E("join", "me"), E("leave", "me")>>, !.again = 1, !.until = 2]
\* The approval mode changes, queues and fetches fail, and the group is excluded.
PlotMode == [Plot EXCEPT !.script = <<E("mode", "me"), E("mode", "me"), E("mode", "me"), E("exclude", "me")>>,
                         !.faults = 1, !.fetches["subject"] = 1]
\* A group the allow-list excludes.
PlotExcluded == [Plot EXCEPT !.allowed = FALSE, !.script = <<E("message", "a"), E("mode", "me"), E("leave", "a"), E("leave", "me")>>]
MCPlots == {PlotRejoin, PlotJoin, PlotDepart, PlotFlags, PlotReturn, PlotMode, PlotExcluded}

G == INSTANCE Groups WITH Scenarios <- MCPlots
S == INSTANCE RosterSync WITH Groups <- Chats

groupVars == <<plot, now, members, changed, mode, inbox, old, mail, mapped, rows, wait, back, setting,
               queued, handler, fetch, told, unsure, gone, missed>>
syncVars == <<age, fetched, backoff, asleep, delay, todo, attempted, connected, troubles>>
vars == <<topic, groupVars, syncVars>>

Fresh == [g \in Chats |-> 0]
Init == \/ topic = "members" /\ G!GroupInit /\ S!SyncInit /\ age = Fresh /\ connected
        \/ topic = "schedule" /\ G!GroupInit /\ S!SyncInit /\ plot = PlotMode

Next == \/ topic = "members" /\ G!GroupNext /\ UNCHANGED <<topic, syncVars>>
        \/ topic = "schedule" /\ S!SyncNext /\ UNCHANGED <<topic, groupVars>>

Spec == /\ Init /\ [][Next]_vars
        /\ WF_vars(topic = "schedule" /\ S!Sync /\ UNCHANGED <<topic, groupVars>>)
        /\ WF_vars(topic = "schedule" /\ S!Reconnect /\ UNCHANGED <<topic, groupVars>>)

-----------------------------------------------------------------------------
(* The properties, as the components state them. *)

\* The cache of a group is true: a member the cache was told of keeps a true row
\* (ReplaceGroupRoster, RemoveGroupMembers), with its admin flag unless an old flag was
\* delivered again (SetGroupMemberAdmin); after the own departure nothing is put back
\* (noteGroupSender); and a change of the approval mode is observed
\* (requestGroupSettingsRefresh).
RosterTrue == G!MembersKept /\ G!GoneStaysGone /\ G!ApprovalObserved

\* Every roster that can be fetched is fetched again and again (runGroupRosterSync).
RostersRefreshed == topic = "schedule" => S!RostersRefreshed

=============================================================================
