------------------------- MODULE ConnectionProblem -------------------------
(***************************************************************************)
(* The connection problem of the bridge, its durable marker, the dial gate *)
(* and the cleanup of a revoked session (connection_problem.go, pairing.go *)
(* and the parts of events.go and operator_pairing.go that drive them).    *)
(*                                                                         *)
(* WhatsApp's refusals (401 unlinked, 402 temporary ban, 403/406 ban, 405  *)
(* outdated client, 5xx) are recorded in memory under connectionMu and     *)
(* then written to a marker file; connectionPersistMu spans both.  Two     *)
(* dialers, the reconnect loop and the pairing controller, pass the gate   *)
(* before every dial.  After an unlink the controller deletes the revoked  *)
(* device from the session store and installs a fresh client.  The process *)
(* may crash anywhere and reads the marker when it starts again.           *)
(***************************************************************************)
EXTENDS Integers

CONSTANTS
  MaxRec,     \* bound: refusals received from WhatsApp
  MaxNow,     \* bound: clock
  MaxDev,     \* bound: devices ever linked
  MaxStart,   \* bound: process starts
  MaxFault,   \* bound: failing disk or database operations
  MaxOp       \* bound: restarts of the pairing by an operator

ASSUME ProblemAssumption ==
  /\ MaxRec \in Nat /\ MaxNow \in Nat /\ MaxDev \in Nat \ {0}
  /\ MaxStart \in Nat \ {0} /\ MaxFault \in Nat /\ MaxOp \in Nat

Devices   == 1..MaxDev
NoDevice  == 0
Kinds     == {"nil", "other", "unlinked", "temporarily_banned", "banned", "client_outdated"}
\* 403 stands for 406 too, 500 for every 5xx, 0 for a generic diagnostic.
Codes     == {0, 401, 402, 403, 405, 500}
Recorders == {"event", "hook"}          \* the SDK's event callback and its logger hook
Dialers   == {"loop", "ctl"}            \* reconnectLoop and the pairing controller
Free      == "free"

\* A ConnectionProblem.  ver is the identity of the pointer: a file has none.
Problem == [kind : Kinds, ver : Nat, exp : Nat, build : Nat,
            fence : BOOLEAN, dev : 0..MaxDev, removed : BOOLEAN]
Nil == [kind |-> "nil", ver |-> 0, exp |-> 0, build |-> 0,
        fence |-> FALSE, dev |-> NoDevice, removed |-> FALSE]

VARIABLES
  mem, file,       \* b.connectionProblem and connection_problem.json
  failed,          \* problemPersistenceFailed
  pmu,             \* holder of connectionPersistMu, when it spans several steps
  parked,          \* pairingState is not empty
  rpc, rcode,      \* recorders: control and the code being recorded
  dpc, snap,       \* dialers: control, gate snapshot of the problem
  snapParked,      \* dialers: gate snapshot of parked
  expected, pick,  \* controller: snapshot under cleanup, device chosen
  kick,            \* pending kick of the controller
  client, paired,  \* device of the current client; runtimePaired
  retired,         \* the current client is operatorRetiredClient
  conn,            \* "off", "dialing" or "on"
  devices, nDev,   \* the session store; devices linked so far
  up, build, now, nVer, nRec, nStart, nFault, nOp,
  ban, gone,       \* history: restriction last told, devices unlinked, unless a
                   \* crash came before they were on disk
  seen             \* history: ban when a dialer last looked

memVars  == <<mem, failed, parked>>
recVars  == <<pmu, rpc, rcode>>
dialVars == <<dpc, snap, snapParked, seen>>
ctlVars  == <<expected, pick, kick>>
sessVars == <<client, paired, retired, conn, devices, nDev>>
hist     == <<ban, gone>>
envVars  == <<up, build, now, nStart>>
vars == <<memVars, file, recVars, dialVars, ctlVars, sessVars, envVars, nVer, nRec, nFault, nOp, hist>>

Restricts(p)     == p.kind \in {"temporarily_banned", "banned", "client_outdated"}
RestrictsAt(p,t) == Restricts(p) /\ (p.kind = "temporarily_banned" => t < p.exp)
Unlinked(p)      == p.kind = "unlinked" \/ p.fence
Unversioned(p)   == [p EXCEPT !.ver = 0]
Paired           == paired /\ ~retired

\* An unlink marker of an older version: it names no device.
Legacy == [Nil EXCEPT !.kind = "unlinked"]

\* A fresh or a paired installation, before its first start.
Init ==
  /\ mem = Nil /\ file \in {Nil, Legacy} /\ failed = FALSE /\ parked = FALSE
  /\ pmu = Free /\ rpc = [r \in Recorders |-> "idle"] /\ rcode = [r \in Recorders |-> 0]
  /\ dpc = [d \in Dialers |-> "wait"] /\ snap = [d \in Dialers |-> Nil]
  /\ snapParked = [d \in Dialers |-> FALSE] /\ seen = [d \in Dialers |-> Nil]
  /\ expected = Nil /\ pick = NoDevice /\ kick = FALSE
  /\ nDev \in {0, 1} /\ devices = 1..nDev
  /\ client = NoDevice /\ paired = FALSE /\ retired = FALSE /\ conn = "off"
  /\ up = FALSE /\ build = 1 /\ now = 0 /\ nStart = 0
  /\ nVer = 0 /\ nRec = 0 /\ nFault = 0 /\ nOp = 0 /\ ban = Nil /\ gone = {}
-----------------------------------------------------------------------------
(* Recording a refusal *)

\* An operation on the disk or the session database may fail.
MayFail(ok) == IF ok THEN UNCHANGED nFault ELSE nFault < MaxFault /\ nFault' = nFault + 1

\* classifyConnectionProblem; a ban lasts one tick.
Classify(c) ==
  [Nil EXCEPT !.kind  = CASE c = 401 -> "unlinked" [] c = 402 -> "temporarily_banned"
                          [] c = 403 -> "banned" [] c = 405 -> "client_outdated" [] OTHER -> "other",
              !.exp   = IF c = 402 THEN now + 1 ELSE 0,
              !.build = IF c = 405 THEN build ELSE 0,
              !.ver   = nVer + 1]

\* Fault: a server error replaces a ban.
MutSuperseded(c) == Unlinked(mem) /\ c # 401 /\ ~Restricts(Classify(c)) /\ retired

\* A refusal that restricts nothing never replaces a restriction, nor the unlink
\* marker of a client that is already retired.
Superseded(c) ==
  /\ c # 401 /\ ~Restricts(Classify(c))
  /\ Restricts(mem) \/ (Unlinked(mem) /\ retired)

\* An unlink keeps the restriction it meets, any other problem keeps the unlink.
NextProblem(c) ==
  IF c = 401
  THEN [(IF Restricts(mem) THEN mem ELSE Classify(c)) EXCEPT
          !.ver = nVer + 1, !.fence = TRUE, !.dev = client, !.removed = FALSE]
  ELSE [Classify(c) EXCEPT !.fence = Unlinked(mem), !.dev = mem.dev, !.removed = mem.removed]

\* WhatsApp refuses the connection or drops it.  An unlink retires the client
\* before it is recorded (events.LoggedOut).
Refused(r, c) ==
  /\ up /\ conn # "off" /\ rpc[r] = "idle" /\ nRec < MaxRec
  /\ IF r = "event" THEN c # 0 ELSE c \in {0, 500}
  /\ client = NoDevice => c # 401
  /\ nRec' = nRec + 1 /\ conn' = "off"
  /\ rpc' = [rpc EXCEPT ![r] = "record"] /\ rcode' = [rcode EXCEPT ![r] = c]
  /\ retired' = (retired \/ c = 401) /\ paired' = (paired /\ c \notin {401, 403})
  /\ UNCHANGED <<memVars, file, pmu, dialVars, ctlVars, client, devices, nDev,
                 envVars, nVer, nFault, nOp, hist>>

\* recordConnectionProblemStateIf up to the unlock of connectionMu.  The logger
\* hook drops what a retired client says.
Record(r) ==
  LET c == rcode[r]
      skipped == Superseded(c) \/ (r = "hook" /\ retired)
  IN /\ up /\ rpc[r] = "record" /\ pmu = Free
     /\ mem' = IF skipped THEN mem ELSE NextProblem(c)
     /\ nVer' = IF skipped THEN nVer ELSE nVer + 1
     /\ ban' = IF Restricts(Classify(c)) THEN NextProblem(c) ELSE ban
     /\ gone' = IF c = 401 THEN gone \cup {client} ELSE gone
     /\ rpc' = [rpc EXCEPT ![r] = IF skipped \/ c = 0 THEN "idle" ELSE "write"]
     /\ rcode' = [rcode EXCEPT ![r] = IF skipped THEN 0 ELSE c]
     /\ pmu' = IF skipped \/ c = 0 THEN Free ELSE r
     /\ UNCHANGED <<file, failed, parked, dialVars, ctlVars, sessVars, envVars, nRec, nFault, nOp>>

\* The process is gone: nothing but the disk survives.
Down ==
  /\ up' = FALSE
  /\ mem' = Nil /\ failed' = FALSE /\ parked' = FALSE /\ pmu' = Free
  /\ rpc' = [r \in Recorders |-> "idle"] /\ rcode' = [r \in Recorders |-> 0]
  /\ dpc' = [d \in Dialers |-> "wait"] /\ snap' = [d \in Dialers |-> Nil]
  /\ snapParked' = [d \in Dialers |-> FALSE] /\ seen' = [d \in Dialers |-> Nil]
  /\ expected' = Nil /\ pick' = NoDevice /\ kick' = FALSE
  /\ client' = NoDevice /\ paired' = FALSE /\ retired' = FALSE /\ conn' = "off"
  /\ UNCHANGED <<devices, nDev, build, now, nStart, nVer, nRec, nOp>>

\* What outlives the process: all of it, or not the problem that was not written.
Kept(durable) ==
  /\ ban' = IF durable THEN ban ELSE Nil
  /\ gone' = IF durable THEN gone ELSE gone \ {mem.dev}

\* persistConnectionSnapshot of the recorded problem (write, sync, rename).  An
\* outdated client then exits.
Write(r, ok) ==
  /\ up /\ rpc[r] = "write"
  /\ MayFail(ok)
  /\ file' = IF ok THEN Unversioned(mem) ELSE file
  /\ IF rcode[r] = 405
     THEN Down /\ Kept(ok)
     ELSE /\ failed' = ~ok /\ pmu' = Free
          /\ rpc' = [rpc EXCEPT ![r] = IF rcode[r] \in {401, 403} THEN "park" ELSE "idle"]
          /\ rcode' = [rcode EXCEPT ![r] = IF @ \in {401, 403} THEN @ ELSE 0]
          /\ UNCHANGED <<mem, parked, dialVars, ctlVars, sessVars, envVars, nVer, nRec, nOp, hist>>

Attempting == dpc["ctl"] \in {"snap", "retry", "decide", "dial", "dialed"}

\* The end of LoggedOut: cancel the controller's attempt; after an unlink park
\* the dial gate and kick the controller (setPairingState, connectionEvent).
Park(r) ==
  /\ up /\ rpc[r] = "park"
  /\ parked' = (parked \/ rcode[r] = 401) /\ kick' = (kick \/ rcode[r] = 401)
  /\ IF Attempting
     THEN /\ dpc' = [dpc EXCEPT !["ctl"] = "wait"] /\ seen' = [seen EXCEPT !["ctl"] = Nil]
          /\ snap' = [snap EXCEPT !["ctl"] = Nil] /\ snapParked' = [snapParked EXCEPT !["ctl"] = FALSE]
     ELSE UNCHANGED dialVars
  /\ rpc' = [rpc EXCEPT ![r] = "idle"] /\ rcode' = [rcode EXCEPT ![r] = 0]
  /\ UNCHANGED <<mem, failed, file, pmu, expected, pick,
                 sessVars, envVars, nVer, nRec, nFault, nOp, hist>>

\* clearConnectionSnapshot: remove the marker, then forget the problem.
ClearSnapshot(ok) ==
  /\ MayFail(ok)
  /\ IF ok
     THEN file' = Nil /\ mem' = Nil /\ parked' = FALSE /\ failed' = FALSE /\ ban' = Nil
     ELSE failed' = TRUE /\ UNCHANGED <<file, mem, parked, ban>>
  /\ UNCHANGED gone

\* events.Connected: the account works, so the problem is over.
Connected(ok) ==
  /\ up /\ conn = "dialing" /\ client # NoDevice /\ ~retired
  /\ rpc["event"] = "idle" /\ pmu = Free
  /\ conn' = "on" /\ paired' = TRUE
  /\ ClearSnapshot(ok)
  /\ UNCHANGED <<recVars, dialVars, ctlVars, client, retired, devices, nDev, envVars, nVer, nRec, nOp>>

\* The transport fails without a refusal.
Disconnected ==
  /\ up /\ (conn = "on" \/ (conn = "dialing" /\ client # NoDevice))
  /\ conn' = "off"
  /\ UNCHANGED <<memVars, file, recVars, dialVars, ctlVars, client, paired, retired, devices, nDev,
                 envVars, nVer, nRec, nFault, nOp, hist>>
-----------------------------------------------------------------------------
(* The dial gate: waitConnectionAllowedContext *)

\* A reconnect signal may be pending whenever the connection is down.
LoopStart ==
  /\ up /\ dpc["loop"] = "wait" /\ conn = "off"
  /\ dpc' = [dpc EXCEPT !["loop"] = "snap"]
  /\ UNCHANGED <<memVars, file, recVars, snap, snapParked, seen, ctlVars, sessVars, envVars,
                 nVer, nRec, nFault, nOp, hist>>

\* Fault: the gate forgets the expiry of a temporary ban.
MutGateOpen(p, park) ==
  ~(failed /\ Restricts(mem)) /\ ~park /\ p.kind \notin {"banned", "client_outdated"}

\* The gate opens on snapshots p and park of the problem and the pairing state.
GateOpen(p, park) ==
  /\ ~(failed /\ Restricts(mem))
  /\ ~park /\ p.kind \notin {"banned", "client_outdated"} /\ p.exp <= now

\* Look at the problem: pass, or wait for a change, the expiry or one second.
Snapshot(d) ==
  /\ up /\ dpc[d] = "snap"
  /\ seen' = [seen EXCEPT ![d] = ban]
  /\ \/ /\ failed /\ Restricts(mem)
        /\ snap' = [snap EXCEPT ![d] = mem] /\ snapParked' = [snapParked EXCEPT ![d] = parked]
        /\ dpc' = [dpc EXCEPT ![d] = "retry"]
     \/ /\ GateOpen(mem, parked)
        /\ dpc' = [dpc EXCEPT ![d] = "dial"]
        /\ UNCHANGED <<snap, snapParked>>
  /\ UNCHANGED <<memVars, file, recVars, ctlVars, sessVars, envVars, nVer, nRec, nFault, nOp, hist>>

\* persistConnectionProblemIf: a restriction that is not on disk is written
\* again, unless it has been replaced since.
Retry(d, ok) ==
  LET same == mem = snap[d]
  IN /\ up /\ dpc[d] = "retry" /\ pmu = Free
     /\ MayFail(ok) /\ (ok \/ same)
     /\ file' = IF same /\ ok THEN Unversioned(mem) ELSE file
     /\ failed' = IF same THEN ~ok ELSE failed
     /\ dpc' = [dpc EXCEPT ![d] = "decide"]
     /\ UNCHANGED <<mem, parked, recVars, snap, snapParked, seen, ctlVars, sessVars, envVars,
                    nVer, nRec, nOp, hist>>

\* The rest of the look after such a write, on the old snapshots.
Decide(d) ==
  /\ up /\ dpc[d] = "decide"
  /\ dpc' = [dpc EXCEPT ![d] = IF GateOpen(snap[d], snapParked[d]) THEN "dial" ELSE "snap"]
  /\ snap' = [snap EXCEPT ![d] = Nil] /\ snapParked' = [snapParked EXCEPT ![d] = FALSE]
  /\ UNCHANGED <<memVars, file, recVars, seen, ctlVars, sessVars, envVars,
                 nVer, nRec, nFault, nOp, hist>>

\* b.Connect of the reconnect loop refuses a retired or unpaired client; the
\* controller dials its own client.
Refuses(d) == conn # "off" \/ (d = "loop" /\ ~Paired)

Dial(d) ==
  /\ up /\ dpc[d] = "dial"
  /\ conn' = IF Refuses(d) THEN conn ELSE "dialing"
  /\ dpc' = [dpc EXCEPT ![d] = IF d = "ctl" /\ client = NoDevice THEN "dialed" ELSE "wait"]
  /\ seen' = [seen EXCEPT ![d] = Nil]
  /\ UNCHANGED <<memVars, file, recVars, snap, snapParked, ctlVars, client, paired, retired, devices, nDev,
                 envVars, nVer, nRec, nFault, nOp, hist>>
-----------------------------------------------------------------------------
(* The pairing controller and the cleanup of a revoked session *)

\* installClient, then the gate is unparked.  clientGate excludes a running
\* event handler; what the old client still logs is dropped.
Install(device) ==
  /\ rpc["event"] = "idle"
  /\ rpc' = [rpc EXCEPT !["hook"] = IF @ = "record" THEN "idle" ELSE @]
  /\ rcode' = [rcode EXCEPT !["hook"] = IF rpc["hook"] = "record" THEN 0 ELSE @]
  /\ client' = device /\ paired' = (device # NoDevice) /\ retired' = FALSE /\ parked' = FALSE
  /\ dpc' = [dpc EXCEPT !["ctl"] = "snap"]

\* run: an attempt after a kick or a failed one.  A paired client needs none; the
\* factory installs a new device, unless a revoked session is to be removed.
Begin ==
  /\ up /\ (dpc["ctl"] = "begin" \/ (dpc["ctl"] = "wait" /\ kick))
  /\ kick' = (kick /\ dpc["ctl"] = "begin")
  /\ conn' = IF Paired THEN conn ELSE "off"
  /\ IF Paired \/ Unlinked(mem)
     THEN /\ dpc' = [dpc EXCEPT !["ctl"] = IF Paired THEN "wait" ELSE "clean"]
          /\ UNCHANGED <<rpc, rcode, client, paired, retired, parked>>
     ELSE Install(NoDevice)
  /\ UNCHANGED <<mem, failed, file, pmu, snap, snapParked, seen, expected, pick,
                 devices, nDev, envVars, nVer, nRec, nFault, nOp, hist>>

\* Park, then retry while the unlink stands, else give the attempt up.
CleanupFailed ==
  /\ parked' = TRUE
  /\ dpc' = [dpc EXCEPT !["ctl"] = IF Unlinked(mem) THEN "clean" ELSE "wait"]

\* unlinkedDevice: the problem it is going to clean up.
Clean ==
  /\ up /\ dpc["ctl"] = "clean"
  /\ IF Unlinked(mem)
     THEN expected' = mem /\ dpc' = [dpc EXCEPT !["ctl"] = "delete"] /\ UNCHANGED parked
     ELSE CleanupFailed /\ UNCHANGED expected
  /\ UNCHANGED <<mem, failed, file, recVars, snap, snapParked, seen, pick, kick, sessVars,
                 envVars, nVer, nRec, nFault, nOp, hist>>

\* The devices an unlink names: an old marker without identity names them all.
Revoked(p) == IF p.removed THEN {} ELSE IF p.dev = NoDevice THEN devices ELSE {p.dev}

\* prepareSessionDevice: delete, check, then choose the first remaining device.
Delete(ok) ==
  /\ up /\ dpc["ctl"] = "delete"
  /\ MayFail(ok)
  /\ IF ok
     THEN /\ devices' = devices \ Revoked(expected)
          /\ pick' \in IF devices' = {} THEN {NoDevice} ELSE devices'
          /\ dpc' = [dpc EXCEPT !["ctl"] = "publish"] /\ UNCHANGED parked
     ELSE /\ devices' \in {devices \ out : out \in SUBSET Revoked(expected)}
          /\ CleanupFailed /\ UNCHANGED pick
  /\ expected' = IF ok THEN expected ELSE Nil
  /\ UNCHANGED <<mem, failed, file, recVars, snap, snapParked, seen, kick, client, paired, retired,
                 conn, nDev, envVars, nVer, nRec, nOp, hist>>

\* unlinkedDevice publishes the completion of the snapshot it cleaned, durably,
\* before the fresh client is installed.
Publish(ok) ==
  LET next == IF expected.removed THEN expected
              ELSE [expected EXCEPT !.removed = TRUE, !.ver = nVer + 1]
  IN /\ up /\ dpc["ctl"] = "publish" /\ pmu = Free
     /\ MayFail(ok) /\ (ok \/ mem = expected)
     /\ IF ok /\ mem = expected
        THEN /\ mem' = next /\ file' = Unversioned(next) /\ failed' = FALSE
             /\ nVer' = IF expected.removed THEN nVer ELSE nVer + 1
             /\ Install(pick)
        ELSE /\ failed' = (failed \/ mem = expected)
             /\ CleanupFailed
             /\ UNCHANGED <<mem, file, nVer, rpc, rcode, client, paired, retired>>
     /\ expected' = Nil /\ pick' = NoDevice
     /\ UNCHANGED <<pmu, snap, snapParked, seen, kick, conn, devices, nDev,
                    envVars, nRec, nOp, hist>>

\* PairSuccess: the SDK saves the device and restarts the stream.
PairSuccess ==
  /\ up /\ dpc["ctl"] = "dialed" /\ conn = "dialing" /\ client = NoDevice /\ nDev < MaxDev
  /\ nDev' = nDev + 1 /\ devices' = devices \cup {nDev + 1} /\ client' = nDev + 1
  /\ conn' = "off" /\ parked' = FALSE /\ paired' = TRUE
  /\ dpc' = [dpc EXCEPT !["ctl"] = "wait"]
  /\ UNCHANGED <<mem, failed, file, recVars, snap, snapParked, seen, ctlVars, retired,
                 envVars, nVer, nRec, nFault, nOp, hist>>

\* The attempt ends unpaired: the next one follows, or the sequence expired.
AttemptFailed(again) ==
  /\ up /\ dpc["ctl"] = "dialed"
  /\ again => mem.kind \notin {"banned", "client_outdated"}
  /\ conn' = "off"
  /\ dpc' = [dpc EXCEPT !["ctl"] = IF again THEN "begin" ELSE "wait"]
  /\ parked' = (parked \/ ~again)
  /\ UNCHANGED <<mem, failed, file, recVars, snap, snapParked, seen, ctlVars, client, paired, retired, devices, nDev,
                 envVars, nVer, nRec, nFault, nOp, hist>>

\* Fault: an acknowledgement removes the marker with its unlink fence.
MutAcknowledged(p) == Nil

\* unlinkOnly: what is left of an acknowledged or outgrown restriction.
Acknowledged(p) ==
  IF Unlinked(p) THEN [p EXCEPT !.kind = "unlinked", !.exp = 0, !.build = 0] ELSE Nil

\* POST /operator/v1/pairing/restart: an operator acknowledges a permanent
\* restriction, or restarts an expired attempt.
OperatorRestart(ok) ==
  LET next == IF Unlinked(mem) THEN [Acknowledged(mem) EXCEPT !.ver = nVer + 1] ELSE Nil
  IN /\ up /\ nOp < MaxOp /\ pmu = Free
     /\ dpc["ctl"] \notin {"begin", "clean", "delete", "publish"}  \* p.action is free
     /\ ~Paired /\ mem.kind # "client_outdated"
     /\ (mem.kind = "temporarily_banned" => mem.exp <= now)
     /\ (dpc["ctl"] = "wait" \/ RestrictsAt(mem, now))
     /\ MayFail(ok) /\ nOp' = nOp + 1
     /\ IF ok
        THEN /\ mem' = next /\ file' = Unversioned(next) /\ failed' = FALSE /\ nVer' = nVer + 1
             /\ parked' = (parked /\ Unlinked(mem)) /\ ban' = Nil
             /\ kick' = TRUE /\ dpc' = [dpc EXCEPT !["ctl"] = "wait"]
             /\ conn' = "off" /\ seen' = [seen EXCEPT !["ctl"] = Nil]
             /\ snap' = [snap EXCEPT !["ctl"] = Nil] /\ snapParked' = [snapParked EXCEPT !["ctl"] = FALSE]
        ELSE failed' = TRUE /\ UNCHANGED <<mem, file, nVer, parked, ban, kick, dialVars, conn>>
     /\ UNCHANGED <<recVars, expected, pick, client, paired, retired, devices, nDev,
                    envVars, nRec, gone>>
-----------------------------------------------------------------------------
(* Time, crashes and restarts *)

\* The clock is compared with nothing but the end of a temporary ban.
Tick ==
  /\ now < MaxNow /\ now' = now + 1
  /\ \E p \in {mem, file, ban} \cup {snap[d] : d \in Dialers} : p.exp > now
  /\ UNCHANGED <<memVars, file, recVars, dialVars, ctlVars, sessVars, up, build, nStart,
                 nVer, nRec, nFault, nOp, hist>>

\* What memory knows is on disk.
Durable == pmu = Free /\ ~failed

Crash ==
  /\ up /\ nStart < MaxStart
  /\ Down /\ Kept(Durable)
  /\ UNCHANGED <<file, nFault>>

\* readConnectionProblem: another build outgrows a client_outdated problem.
Saved(b) ==
  IF file.kind = "client_outdated" /\ file.build # b THEN Acknowledged(file) ELSE file

\* runBridge: the marker is read before a session is selected; an unfinished
\* cleanup starts parked, retired and kicked.  A build is compared with nothing but
\* the build of an outdated client, so only that one is ever replaced here.
Restart(b) ==
  LET saved   == Saved(b)
      pending == Unlinked(saved) /\ ~saved.removed
  IN /\ ~up /\ nStart < MaxStart /\ (b # build => file.kind = "client_outdated")
     /\ up' = TRUE /\ build' = b /\ nStart' = nStart + 1
     /\ file' = saved /\ nVer' = IF saved = Nil THEN nVer ELSE nVer + 1
     /\ mem' = IF saved = Nil THEN Nil ELSE [saved EXCEPT !.ver = nVer + 1]
     /\ ban' = IF ban.kind = "client_outdated" /\ ban.build # b THEN Nil ELSE ban
     /\ client' \in IF pending \/ devices = {} THEN {NoDevice} ELSE devices
     /\ paired' = (client' # NoDevice) /\ retired' = pending /\ parked' = pending /\ kick' = pending
     /\ dpc' = [dpc EXCEPT !["ctl"] = IF pending THEN "wait" ELSE "snap"]
     /\ UNCHANGED <<failed, recVars, snap, snapParked, seen, expected, pick, conn, devices, nDev, now,
                    nRec, nFault, nOp, gone>>
-----------------------------------------------------------------------------
RecorderStep(r) == Record(r) \/ Park(r) \/ \E ok \in BOOLEAN : Write(r, ok)
GateStep(d) ==
  Snapshot(d) \/ Decide(d) \/ Dial(d) \/ \E ok \in BOOLEAN : Retry(d, ok)
ControllerStep == Begin \/ Clean \/ \E ok \in BOOLEAN : Delete(ok) \/ Publish(ok)

Next ==
  \/ \E r \in Recorders : RecorderStep(r) \/ \E c \in Codes : Refused(r, c)
  \/ \E ok \in BOOLEAN : Connected(ok) \/ OperatorRestart(ok) \/ AttemptFailed(ok)
  \/ Disconnected \/ LoopStart \/ PairSuccess
  \/ \E d \in Dialers : GateStep(d)
  \/ ControllerStep
  \/ Tick \/ Crash
  \/ \E b \in {build, build + 1} : Restart(b)

Spec == Init /\ [][Next]_vars

-----------------------------------------------------------------------------
Restriction(p) == [kind |-> p.kind, exp |-> p.exp, build |-> p.build]
Fence(p) == [on |-> Unlinked(p), dev |-> p.dev, removed |-> p.removed]

\* Whenever no write is under way and the last one succeeded, disk and memory
\* agree on the restriction and on the unlink fence: recordings, diagnostics,
\* retries, acknowledgements and cleanups never drive them apart, so a crash at
\* that point forgets neither ("a restart must never forget a ban").
DiskAgrees ==
  up /\ Durable =>
    /\ (Restricts(mem) \/ Restricts(file) => Restriction(mem) = Restriction(file))
    /\ Fence(mem) = Fence(file)

\* Nobody dials against a restriction in force that had been told, in this process
\* or durably in an earlier one, when the dialer last looked at the problem.
BanHonoured ==
  [][\A d \in Dialers :
       dpc[d] = "dial" /\ dpc'[d] # "dial" /\ conn = "off" /\ conn' = "dialing" /\ RestrictsAt(ban, now)
         => seen[d] # ban]_vars

\* A marker that says the revoked session is removed tells the truth, in memory
\* and on disk, whatever unlinks, failures and crashes came between the deletion
\* and its publication.
RemovalTrue ==
  \A p \in {mem, file} :
    Unlinked(p) /\ p.removed /\ p.dev # NoDevice => p.dev \notin devices

\* A client that holds the keys of an unlinked device is retired.
RevokedRetired == up /\ client \in gone => retired

\* LoggedOut has recorded the unlink and has not yet cancelled the controller's attempt.
Unlinking == rcode["event"] = 401 /\ rpc["event"] \in {"write", "park"}

\* The revocation of a device stands, whatever bans, acknowledgements, upgrades,
\* failing cleanups, crashes and restarts follow.  A client with its keys stays
\* retired.  Nobody starts a connection with them, but for the one attempt the
\* controller may have under way until the LoggedOut handler that records the unlink
\* cancels it (pairingConnect does not ask whether its client is retired; b.Connect
\* of the reconnect loop does).  And what the marker says of their removal is true.
UnlinkHonoured ==
  /\ [](RevokedRetired /\ RemovalTrue)
  /\ [][\A d \in Dialers :
          dpc[d] = "dial" /\ dpc'[d] # "dial" /\ conn = "off" /\ conn' = "dialing" /\ client \in gone
            => d = "ctl" /\ Unlinking]_vars
=============================================================================
