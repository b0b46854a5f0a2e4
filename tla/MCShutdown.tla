----------------------------- MODULE MCShutdown -----------------------------
(* The two components Shutdown waits for, under fairness: a behaviour is    *)
(* about the transitions told to the webhooks, or about media transfers     *)
(* with a client handoff, a logout or a shutdown under them.                *)
EXTENDS ConnectionEvents

CONSTANTS m, h, Job, NoStarter

VARIABLES topic,
          scene, size, cached, mpc, on, got, answer, inflight, phase, expired, hungup, parked,
          writer, sender, stage

C(state, reason, immediate, synchronous) ==
  [state |-> state, reason |-> reason, immediate |-> immediate, synchronous |-> synchronous]

\* The transitions of events.go and connection_problem.go.
MCCalls == {C("connected", "authenticated", TRUE, FALSE), C("disconnected", "transport_lost", FALSE, FALSE),
            C("disconnected", "temporarily_banned", TRUE, FALSE), C("logged_out", "unlinked", TRUE, TRUE)}

\* A shutdown with a sent file; a handoff and a logout.  A manual download and the
\* webhook image meet in both.
MCScenes == {[callers |-> {m, h}, events |-> e, sizes |-> {2}] : e \in {{"shutdown", "send"}, {"handoff", "logout"}}}

Media == INSTANCE MediaTransfers WITH pc <- mpc, None <- NoStarter, Manual <- {m}, Hooks <- {h},
                                      Readers <- {}, Workers <- {}, ReadCap <- 1, AutoCap <- 2, Scenes <- MCScenes

mediaVars == <<scene, size, cached, mpc, on, got, answer, inflight, phase, expired, hungup, parked,
               writer, sender, stage>>
allVars == <<topic, vars, mediaVars>>

MCInit == /\ topic \in {"events", "media"} /\ Init /\ Media!Init
          /\ topic = "events" => "shutdown" \in scene.events
          /\ topic = "media" => legacy /\ runtime

MCNext == \/ topic = "events" /\ Next /\ UNCHANGED <<topic, mediaVars>>
          \/ topic = "media" /\ Media!Next /\ UNCHANGED <<topic, vars>>

\* Goroutines run, timers and deadlines pass, and contexts end what they bound.
\* Nothing is assumed of clients, operators, new transitions or the CDN: a remote
\* transfer may hang until its context ends it.
MCSpec ==
  /\ MCInit /\ [][MCNext]_allVars
  /\ \A i \in Ids : WF_vars(topic = "events" /\ Goroutine(i))
  /\ WF_vars(topic = "events" /\ (Stop \/ Drain))
  /\ \A p \in {m, h, Job} : /\ WF_mediaVars(topic = "media" /\ Media!Caller(p))
                            /\ WF_mediaVars(topic = "media" /\ Media!Deadline(p))
                            /\ WF_mediaVars(topic = "media" /\ Media!Transfer(p))
  /\ WF_mediaVars(topic = "media" /\ (Media!Sent \/ Media!Handoff \/ Media!Shutdown))

\* Every wait ends: each delivery gives up its place in the queue and connectionEvents.Wait
\* returns; mediaTransferGroup.wait returns; and a queued handoff gets clientGate, although
\* readers of the gate wait for a transfer that wants the gate itself.  Only the handoff
\* may wait for ever, and only for a webhook image that never arrives: that transfer holds
\* the gate and has no deadline.
Waiting == IF topic = "events" THEN Owed ELSE Media!Awaited
WaitsEnd == []<>~Waiting \/ <>[](topic = "media" /\ Media!Unbounded)
=============================================================================
