----------------------------- MODULE MCPairing -----------------------------
(***************************************************************************)
(* The life of a session on small instances: pairing and logout, the       *)
(* snapshots of its keys, and, under fairness, the recovery from an unlink *)
(* (ConnectionProblem).  A behaviour is about one topic; the other         *)
(* components rest.                                                        *)
(***************************************************************************)
EXTENDS RuntimeSettings, SessionSnapshots, TLC

VARIABLES
  topic,   \* "pairing", "snapshots", "unlink" or "settings"
  scene, row, device, up, nStart, parked, wiped, retired, client, paired, gate, pstate, st, qr, gen, live,
  calls, completing, action, kick, rpc, attempt, first, mygen, known, err, passkey, hpc, hgen, hbad, hexit,
  sdk, lpc, reader, due, nOps, nReads, pFault,
  mem, file, failed, pmu, rcode, dpc, snap, snapParked, expected, pick, conn, devices, nDev,
  build, now, nVer, nRec, nOp, ban, seen,
  uParked, uRpc, uKick, uClient, uPaired, uRetired, uUp, uStart, uFault, uGone

MCScene(linked, attempts, ops, n, items, reads, faults, starts) ==
  [linked |-> linked, attempts |-> attempts, ops |-> ops, n |-> n, items |-> items,
   reads |-> reads, faults |-> faults, starts |-> starts]

\* An attempt with a pairing code; one with passkey steps; a logout that fails and is
\* repeated, then a new link; a logout and a restart with a reader and a crash.
MCScenes ==
  {MCScene(FALSE, 2, {"code", "restart"}, 1, {"code"}, 0, 1, 1),
   MCScene(FALSE, 1, {"passkey", "restart"}, 2, {"code", "passkey", "confirm"}, 0, 1, 1),
   MCScene(TRUE, 1, {"restart", "logout"}, 3, {"code"}, 0, 2, 1),
   MCScene(TRUE, 1, {"restart", "logout"}, 2, {}, 1, 1, 2)}

\* One PairPhone call of an attempt; bound: eight clients.
Pairing == INSTANCE OperatorPairing WITH
  nFault <- pFault, CodeLimit <- 1, MaxClient <- 8, Scenes <- MCScenes

\* One device, two refusals, one failing write or deletion, no crash.
Unlink == INSTANCE ConnectionProblem WITH
  parked <- uParked, rpc <- uRpc, kick <- uKick, client <- uClient, paired <- uPaired,
  retired <- uRetired, up <- uUp, nStart <- uStart, nFault <- uFault, gone <- uGone,
  MaxRec <- 2, MaxNow <- 0, MaxDev <- 1, MaxStart <- 1, MaxFault <- 1, MaxOp <- 0

pairVars == <<row, device, up, nStart, parked, wiped, retired, client, paired, gate, pstate, st, qr, gen,
              live, calls, completing, action, kick, rpc, attempt, first, mygen, known, err, passkey,
              hpc, hgen, hbad, hexit, sdk, lpc, reader, due, nOps, nReads, pFault>>
unlinkVars == <<mem, file, failed, pmu, rcode, dpc, snap, snapParked, expected, pick, conn,
                devices, nDev, build, now, nVer, nRec, nOp, ban, seen,
                uParked, uRpc, uKick, uClient, uPaired, uRetired, uUp, uStart, uFault, uGone>>

\* Two tools with a route each, and a route nobody classified.  Two phones and a group.
MCEndpoint == ("/send" :> {"send"}) @@ ("/react" :> {"react"}) @@ ("/new" :> {})
MCServer   == ("ann" :> "phone") @@ ("bob" :> "phone") @@ ("club" :> "group")

Open == [allow |-> {}, deny |-> {}, chats |-> [exact |-> {}, servers |-> {}], rate |-> 0, interval |-> 0,
         quota |-> 0, types |-> {}, percent |-> 90, status |-> FALSE, minutes |-> -1, scope |-> "ingest",
         given |-> {}]
Strict == [allow |-> {"send"}, deny |-> {}, chats |-> [exact |-> {"ann"}, servers |-> {"group"}], rate |-> 2,
           interval |-> 2, quota |-> 2, types |-> {"image"}, percent |-> 50, status |-> FALSE, minutes |-> 1,
           scope |-> "all", given |-> {"types", "percent", "status"}]

\* A list and a ceiling an operator may set, and their clearing.
ChatList(e, v) == [exact |-> e, servers |-> v]
MCPatches == {("allow" :> {"send"}) @@ ("chats" :> ChatList({"ann"}, {})) @@ ("rate" :> 3) @@ ("interval" :> 1),
              ("allow" :> {"react"}) @@ ("chats" :> ChatList({}, {"phone"})) @@ ("quota" :> 0),
              ("deny" :> {"send"}) @@ ("rate" :> 1) @@ ("minutes" :> 2) @@ ("percent" :> 70) @@ ("status" :> TRUE),
              ("allow" :> Null) @@ ("chats" :> Null) @@ ("types" :> {"image", "video"})}

\* No rows; lists of an earlier build, that names tools this one has not; and lists it
\* wrote in a form this one cannot read.
Old(is, v)  == Cell(is, v, 1)
EmptyTable  == [k \in AllKeys |-> NoRow]
MCTables    == {EmptyTable, [EmptyTable EXCEPT !["allow"] = Old("value", {"old"})],
                [EmptyTable EXCEPT !["allow"] = Old("bad", Null), !["token"] = Old("bad", Null)],
                [EmptyTable EXCEPT !["chats"] = Old("bad", Null), !["rate"] = Old("bad", Null)]}
MCDeployments == {Open, Strict}
MCPaths       == DOMAIN MCEndpoint
MCJIDs        == DOMAIN MCServer

mcVars == <<topic, scene, pairVars, snapVars, unlinkVars, vars>>

\* A resting component keeps one of its initial states.
MCInit ==
  /\ topic \in {"pairing", "snapshots", "unlink", "settings"}
  /\ Pairing!Init /\ SnapInit /\ Unlink!Init /\ Init
  /\ topic # "pairing" => scene = CHOOSE s \in MCScenes : s.linked /\ s.n = 3
  /\ topic # "unlink" => file = Unlink!Nil /\ nDev = 1
  /\ topic # "settings" => env = Open /\ rows = EmptyTable

\* Bound: requests share nothing but the table, so one of them at a time.
OneAtATime == \A r \in Mutators, q \in Passes : pc[r] = "idle" \/ pc[q] = "idle"

\* Bound: only the first set lacks notes or holds the marker of a reset.
FirstVaries ==
  nSets > 1 => /\ \A f \in files : f.set > 1 => f.db # "reset"
               /\ at = 3 \/ spc \notin {"none", "copy", "copying", "undo"} => Len(made) > 1

MCNext ==
  /\ UNCHANGED <<topic, scene>>
  /\ \/ topic = "pairing" /\ Pairing!Step /\ UNCHANGED <<snapVars, unlinkVars, vars>>
     \/ topic = "snapshots" /\ SnapNext /\ FirstVaries' /\ UNCHANGED <<pairVars, unlinkVars, vars>>
     \/ topic = "unlink" /\ Unlink!Next /\ UNCHANGED <<pairVars, snapVars, vars>>
     \/ topic = "settings" /\ Next /\ OneAtATime' /\ UNCHANGED <<pairVars, snapVars, unlinkVars>>

\* The loop's goroutine and the controller's run, callbacks and saves end, requests carry
\* deadlines, and a reader ends.
MCSpec ==
  /\ MCInit /\ [][MCNext]_mcVars
  /\ WF_pairVars(topic = "pairing" /\ Pairing!RunStep) /\ WF_pairVars(topic = "pairing" /\ Pairing!HttpStep)
  /\ WF_pairVars(topic = "pairing" /\ reader /\ Pairing!Read)
  /\ \A c \in Pairing!Clients : WF_pairVars(topic = "pairing" /\ Pairing!SdkStep(c))
  /\ WF_unlinkVars(topic = "unlink" /\ Unlink!ControllerStep)
  /\ \A r \in {"event", "hook"} : WF_unlinkVars(topic = "unlink" /\ Unlink!RecorderStep(r))

\* What a logout said stays true (logout, wipeOperatorSession).  A recorded wipe left no
\* device, no reader and no copy of the keys in a snapshot; and no action but the
\* operator's restart or exit ends the idle state that logout made durable.
LogoutStands == [][Pairing!WipeTrue' /\ KeysGone' /\ (topic = "pairing" => Pairing!IdleStep)]_mcVars

\* LinkStep of OperatorPairing, for every step: the handoff of the attempt loop (run)
\* never replaces a device whose link is being saved or was just saved.
LinkKept == [][topic = "pairing" => Pairing!LinkStep]_mcVars

\* The session comes back by itself: a restart that was accepted gets an attempt, unless a
\* logout or the end of the process comes first (restart, run); and an unlinked client is
\* replaced, although a write of the marker or the deletion of its keys fails once
\* (pairingClientFactory).
Awaited == IF topic = "unlink" THEN uUp /\ uRetired ELSE due
SessionRecovers == Awaited ~> ~Awaited
=============================================================================
