---------------------------- MODULE MCReadsVotes ----------------------------
(* Read receipts and poll votes on small instances; a behaviour plays one   *)
(* scene of either.                                                         *)
EXTENDS Naturals, Sequences, FiniteSets, TLC

CONSTANTS Ids, Callers, Batch, MaxMessages, Votes, Payloads, Passes

VARIABLES topic,
          scene, present, sent, marker, asks, call, faults, crashes, receipted, saved,
          plan, secrets, tally, archive, waiting, superseded, work, liveVotes, handler, client,
          stopped, order

Row(t, s) == [ts |-> t, sender |-> s]
Plain == [group |-> TRUE, rows |-> [id \in Ids |-> Row(1, "A")], first |-> Ids, late |-> {}, upTo |-> 9, readAt |-> 4,
          unresolvable |-> {}, budget |-> 9, callers |-> {"k1"}, listed |-> {}, faults |-> 0, crashes |-> 0]

\* A second shared by three senders, one receipt per request, a restart.
SceneTied == [Plain EXCEPT !.rows = <<Row(1, "A"), Row(2, "A"), Row(2, "B"), Row(2, "C"), Row(3, "A")>>,
                           !.budget = 1, !.faults = 1, !.crashes = 1, !.late = {1, 4}, !.first = {2, 3, 5}]
\* A sender that cannot be resolved, a row without a sender, late rows.
SceneSenders == [Plain EXCEPT !.rows = <<Row(1, "A"), Row(2, ""), Row(3, "U"), Row(3, "A"), Row(4, "B")>>,
                              !.unresolvable = {"U"}, !.faults = 1, !.late = {1, 5}, !.first = {2, 3, 4}]
\* A private chat in one second, larger than a page, beside listed requests.
ScenePage == [Plain EXCEPT !.group = FALSE, !.rows = <<Row(2, "A"), Row(2, "A"), Row(2, "A"), Row(2, "A"), Row(3, "A")>>,
                           !.listed = {{3}, {1, 5}}, !.budget = 2, !.late = {4}, !.first = {1, 2, 3, 5}, !.faults = 1]
\* Two requests at once over a tied second.
SceneTwo == [Plain EXCEPT !.rows = <<Row(1, "A"), Row(1, "B"), Row(2, "A"), Row(3, "C"), Row(3, "C")>>,
                          !.budget = 1, !.callers = Callers, !.first = {1, 2}, !.late = {3}]
MCScenes == {SceneTied, SceneSenders, ScenePage, SceneTwo}

Story == [time |-> [v \in Votes |-> 1], known |-> {}, secret |-> Votes, live |-> {}, handoff |-> FALSE,
          stops |-> FALSE, votes |-> [p \in Payloads |-> <<>>]]

\* Three votes of one second and a later one, in two payloads and live, whose
\* secrets come in any order; and the same with a handoff or a shutdown.
PlanSecrets == [Story EXCEPT !.votes = (1 :> <<"v1", "v2">> @@ 2 :> <<"v3">>), !.live = {"v4"}]
PlanTimes == [PlanSecrets EXCEPT !.time = ("v1" :> 2 @@ "v2" :> 1 @@ "v3" :> 2 @@ "v4" :> 1), !.known = {"v3"}]
PlanHandoff == [PlanSecrets EXCEPT !.handoff = TRUE, !.known = {"v2"}]
PlanStop == [PlanTimes EXCEPT !.stops = TRUE, !.handoff = TRUE]
MCPlans == {PlanSecrets, PlanTimes, PlanHandoff, PlanStop}

R == INSTANCE ReadReceipts WITH Scenes <- MCScenes
V == INSTANCE PollVotes WITH Scenarios <- MCPlans

readVars == <<scene, present, sent, marker, asks, call, faults, crashes, receipted, saved>>
voteVars == <<plan, secrets, tally, archive, waiting, superseded, work, liveVotes, handler, client,
              stopped, order>>
vars == <<topic, readVars, voteVars>>

Init == \/ topic = "reads" /\ R!Init /\ V!VoteInit /\ plan = PlanSecrets
        \/ topic = "votes" /\ R!Init /\ V!VoteInit /\ scene = SceneTied

Next == \/ topic = "reads" /\ R!Next /\ UNCHANGED <<topic, voteVars>>
        \/ topic = "votes" /\ V!VoteNext /\ UNCHANGED <<topic, readVars>>

Spec == Init /\ [][Next]_vars /\ \A k \in Callers : WF_vars(topic = "reads" /\ R!Handle(k) /\ UNCHANGED <<topic, voteVars>>)

-----------------------------------------------------------------------------
(* The properties, as the components state them. *)

\* What mark-read says is true: the marker only ever covers what was acknowledged
\* (coveredPrefix), and receipts that a refused request recorded are not sent again
\* (persistRefusedReceiptProgress).
ReadsHonest == [][R!MarkerStep /\ R!ReceiptsNotRepeated']_vars

\* A caller that repeats mark-read gets the chat read (markWholeChatRead).
ChatGetsRead == topic = "reads" => R!ChatGetsRead

\* A vote that waited for its secret never replaces a later one (observeHistoryVote), and
\* every exit of a payload's goroutine releases its votes (releaseHistoryVotes).
LatestVoteCounts == [][V!TallyStep /\ V!WaitersReleased']_vars
=============================================================================
