----------------------------- MODULE PollVotes -----------------------------
(***************************************************************************)
(* Poll votes of one voter.  A live vote is observed, decrypted and        *)
(* written by the event handler.  The votes of a history payload are       *)
(* worked on by a goroutine of their own: the payloads take turns for a    *)
(* first pass in arrival order, and a vote whose secret is missing waits   *)
(* for the shared retry passes while later payloads go on.  The tally must *)
(* not be decided by the order in which the secrets happen to arrive, nor  *)
(* by the work of a client that was replaced meanwhile.                    *)
(***************************************************************************)
EXTENDS Naturals, Sequences, FiniteSets, SequencesExt, FiniteSetsExt

CONSTANTS
  Votes,      \* vote messages
  Payloads,   \* history payloads, numbered in arrival order
  Scenarios,  \* bound: who delivers which vote, and what may go wrong
  Passes      \* len(HistoryVoteRetryDelays)

None == "none"

VARIABLES
  plan,        \* the deliveries of this behaviour
  secrets,     \* votes whose poll secret the session store holds
  tally,       \* poll_votes: the vote counted for the voter
  archive,     \* votes with a message row
  waiting,     \* historyPendingVotes: the registered vote, by client
  superseded,  \* votes another one of the same or a later second overtook
  work,        \* payload -> goroutine state
  liveVotes,   \* live votes not handled yet
  handler,     \* the live handler
  client,      \* current client generation
  stopped,     \* b.ctx is cancelled, or the operator logs out
  order        \* votes in the order they were observed

voteVars == <<plan, secrets, tally, archive, waiting, superseded, work, liveVotes, handler,
              client, stopped, order>>

At(v) == plan.time[v]
Clients == 1..2
Quiet == [pc |-> "idle", vote |-> None, decoded |-> FALSE]
Queued == [pc |-> "queued", todo |-> <<>>, pending |-> <<>>, pass |-> 0, decoded |-> FALSE, client |-> 0]

VoteInit ==
  /\ plan \in Scenarios
  /\ secrets = plan.known /\ tally = [vote |-> None, decoded |-> FALSE] /\ archive = {}
  /\ waiting = [c \in Clients |-> None] /\ superseded = {}
  /\ work = [p \in Payloads |-> Queued]
  /\ liveVotes = plan.live /\ handler = Quiet
  /\ client = 1 /\ stopped = FALSE /\ order = <<>>

-----------------------------------------------------------------------------
(* The order of arrival and the upsert *)

\* Fault: a vote that comes later does not overtake the one that waits.
MutOvertaken(v, previous) == {}

\* observeHistoryVote: the older of the new vote and the waiting one is overtaken.
Overtaken(v, previous) ==
  IF previous = None THEN {} ELSE IF At(v) < At(previous) THEN {v} ELSE {previous}

Observe(v, c, register) ==
  LET lost == Overtaken(v, waiting[c])
      kept == IF waiting[c] \in lost THEN None ELSE waiting[c]
  IN /\ superseded' = superseded \cup lost
     /\ waiting' = [waiting EXCEPT ![c] = IF register /\ v \notin lost THEN v ELSE kept]
     /\ order' = Append(order, v)

\* releaseHistoryVotes
Released(vs) == [c \in Clients |-> IF waiting[c] \in vs THEN None ELSE waiting[c]]

\* upsertPollVote: an older vote does not replace a newer one.
Counted(v, decoded) ==
  IF tally.vote = None \/ At(v) >= At(tally.vote) THEN [vote |-> v, decoded |-> decoded] ELSE tally

-----------------------------------------------------------------------------
(* The live handler: observe, decrypt, write. *)

LiveObserve ==
  /\ handler.pc = "idle" /\ ~stopped
  /\ \E v \in liveVotes : /\ Observe(v, client, FALSE)
                          /\ handler' = [Quiet EXCEPT !.pc = "decrypt", !.vote = v]
                          /\ liveVotes' = liveVotes \ {v}
  /\ UNCHANGED <<plan, secrets, tally, archive, work, client, stopped>>

LiveDecrypt ==
  /\ handler.pc = "decrypt"
  /\ handler' = [handler EXCEPT !.pc = "write", !.decoded = handler.vote \in secrets]
  /\ UNCHANGED <<plan, secrets, tally, archive, waiting, superseded, work, liveVotes, client, stopped, order>>

LiveWrite ==
  /\ handler.pc = "write"
  /\ tally' = Counted(handler.vote, handler.decoded)
  /\ archive' = IF handler.decoded THEN archive \cup {handler.vote} ELSE archive
  /\ handler' = Quiet
  /\ UNCHANGED <<plan, secrets, waiting, superseded, work, liveVotes, client, stopped, order>>

-----------------------------------------------------------------------------
(* The goroutine of a payload *)

SetWork(p, w) == work' = [work EXCEPT ![p] = w]

\* queueHistoryPollVotes, when the import of the payload returns.
Queue(p) ==
  /\ work[p].pc = "queued" /\ \A q \in Payloads : q < p => work[q].pc # "queued"
  /\ SetWork(p, IF stopped THEN [Queued EXCEPT !.pc = "done"]
                ELSE [Queued EXCEPT !.pc = "turn", !.todo = plan.votes[p], !.client = client])
  /\ UNCHANGED <<plan, secrets, tally, archive, waiting, superseded, liveVotes, handler, client, stopped, order>>

\* The first pass waits for the first pass of the payload before.
Turn(p) ==
  /\ work[p].pc = "turn"
  /\ \/ stopped /\ SetWork(p, [work[p] EXCEPT !.pc = "done", !.todo = <<>>])
     \/ /\ \A q \in Payloads : q < p => work[q].pc \notin {"turn", "next", "decrypt", "write"} \/ work[q].pass > 0
        /\ SetWork(p, [work[p] EXCEPT !.pc = "next"])
  /\ UNCHANGED <<plan, secrets, tally, archive, waiting, superseded, liveVotes, handler, client, stopped, order>>

\* A goroutine that gives up releases what it holds.
GiveUp(p, held) ==
  /\ waiting' = Released(held \cup Range(work[p].pending))
  /\ SetWork(p, [Queued EXCEPT !.pc = "done"])
  /\ UNCHANGED <<superseded, order>>

\* The next vote of a pass: observed in the first one; work of a replaced
\* client is dropped vote by vote.
NextVote(p) ==
  LET w == work[p]
      v == Head(w.todo)
      held == Range(w.todo)
  IN /\ w.pc = "next"
     /\ \/ stopped /\ GiveUp(p, held)
        \/ /\ ~stopped /\ w.todo # <<>> /\ w.client # client
           /\ SetWork(p, [w EXCEPT !.todo = Tail(@)])
           /\ waiting' = Released({v}) /\ UNCHANGED <<superseded, order>>
        \/ /\ ~stopped /\ w.todo # <<>> /\ w.client = client /\ SetWork(p, [w EXCEPT !.pc = "decrypt"])
           /\ IF w.pass = 0 THEN Observe(v, client, TRUE) ELSE UNCHANGED <<waiting, superseded, order>>
        \/ /\ ~stopped /\ w.todo = <<>> /\ w.pending # <<>> /\ w.pass < Passes   \* sleep, then the next pass
           /\ SetWork(p, [w EXCEPT !.todo = w.pending, !.pending = <<>>, !.pass = @ + 1])
           /\ UNCHANGED <<waiting, superseded, order>>
        \/ /\ ~stopped /\ w.todo = <<>> /\ (w.pending = <<>> \/ w.pass = Passes) /\ GiveUp(p, {})
     /\ UNCHANGED <<plan, secrets, tally, archive, liveVotes, handler, client, stopped>>

\* Decryption holds no gate; a missing secret waits while a pass is left.
Decrypt(p) ==
  LET w == work[p]
      v == Head(w.todo)
  IN /\ w.pc = "decrypt"
     /\ \/ stopped /\ GiveUp(p, Range(w.todo))
        \/ /\ ~stopped /\ w.client # client
           /\ SetWork(p, [w EXCEPT !.pc = "next", !.todo = Tail(@)])
           /\ waiting' = Released({v}) /\ UNCHANGED <<superseded, order>>
        \/ /\ ~stopped /\ w.client = client /\ v \notin secrets /\ w.pass < Passes
           /\ SetWork(p, [w EXCEPT !.pc = "next", !.todo = Tail(@), !.pending = Append(@, v)])
           /\ UNCHANGED <<waiting, superseded, order>>
        \/ /\ ~stopped /\ w.client = client /\ (v \in secrets \/ w.pass = Passes)
           /\ SetWork(p, [w EXCEPT !.pc = "write", !.decoded = v \in secrets])
           /\ UNCHANGED <<waiting, superseded, order>>
     /\ UNCHANGED <<plan, secrets, tally, archive, liveVotes, handler, client, stopped>>

\* writeHistoryVoteForClient, under the client gate and the order mutex: an
\* overtaken vote becomes a message row and is not counted.
Write(p) ==
  LET w == work[p]
      v == Head(w.todo)
  IN /\ w.pc = "write"
     /\ IF stopped \/ w.client # client THEN UNCHANGED <<tally, archive>>
        ELSE /\ tally' = IF v \in superseded THEN tally ELSE Counted(v, w.decoded)
             /\ archive' = IF w.decoded THEN archive \cup {v} ELSE archive
     /\ waiting' = Released({v})
     /\ SetWork(p, [w EXCEPT !.pc = "next", !.todo = Tail(@), !.decoded = FALSE])
     /\ UNCHANGED <<plan, secrets, superseded, liveVotes, handler, client, stopped, order>>

-----------------------------------------------------------------------------
(* The session store, the handoff and the end of the process *)

SecretArrives ==
  /\ \E v \in plan.secret \ secrets : secrets' = secrets \cup {v}
  /\ UNCHANGED <<plan, tally, archive, waiting, superseded, work, liveVotes, handler, client, stopped, order>>

\* installClient takes the client gate, which the live handler holds as a reader.
Handoff ==
  /\ plan.handoff /\ handler.pc = "idle" /\ client = 1 /\ client' = 2
  /\ UNCHANGED <<plan, secrets, tally, archive, waiting, superseded, work, liveVotes, handler, stopped, order>>

Stop ==
  /\ plan.stops /\ ~stopped /\ stopped' = TRUE
  /\ UNCHANGED <<plan, secrets, tally, archive, waiting, superseded, work, liveVotes, handler, client, order>>

Goroutine(p) == Queue(p) \/ Turn(p) \/ NextVote(p) \/ Decrypt(p) \/ Write(p)
LiveVote == LiveObserve \/ LiveDecrypt \/ LiveWrite

VoteNext == LiveVote \/ SecretArrives \/ Handoff \/ Stop \/ \E p \in Payloads : Goroutine(p)

-----------------------------------------------------------------------------
(* Properties *)

Position(v) == CHOOSE i \in DOMAIN order : order[i] = v
Waited(v) == \E p \in Payloads : work[p].pass > 0 /\ work[p].todo # <<>> /\ Head(work[p].todo) = v

\* "A pending older vote ... cannot replace a later tally": a vote that waited
\* for its secret never replaces the counted vote of a later second, nor one of
\* the same second that was observed after it.
TallyStep ==
  tally'.vote # tally.vote /\ tally.vote # None =>
    /\ At(tally'.vote) >= At(tally.vote)
    /\ Waited(tally'.vote) /\ At(tally'.vote) = At(tally.vote) =>
         Position(tally.vote) < Position(tally'.vote)

\* Once every payload is done, by any of its exits, no vote is left registered
\* as waiting: a leftover would overtake or silence the votes of a later
\* payload (releaseHistoryVotes).
WaitersReleased ==
  (\A p \in Payloads : work[p].pc = "done") => \A c \in Clients : waiting[c] = None
=============================================================================
