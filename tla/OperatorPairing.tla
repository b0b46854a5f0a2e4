--------------------------- MODULE OperatorPairing ---------------------------
(***************************************************************************)
(* The pairing controller and the operator's actions on it: the attempt    *)
(* loop, the QR, pairing-code and passkey steps, the admission and the     *)
(* completion of a link, the restart and the operator's logout             *)
(* (operator_pairing.go, operator_logout.go, operator_session_read.go,     *)
(* runtime_client.go and the attempt of pairing.go).                       *)
(*                                                                         *)
(* One goroutine runs the attempts.  HTTP actions and the loop's handoffs  *)
(* exclude each other by the mutex action; the SDK saves a new device      *)
(* asynchronously and reports it by a callback, which enters clientGate as *)
(* a reader, while a logout drains that gate.  The logout writes a row     *)
(* (operator_state) before it destroys anything, so that a process that    *)
(* dies anywhere starts parked.  Refusals and unlinks by WhatsApp are      *)
(* those of ConnectionProblem.                                             *)
(***************************************************************************)
EXTENDS Integers

CONSTANTS
  CodeLimit,  \* PairPhone calls of an attempt
  MaxClient,  \* bound: clients ever made
  Scenes      \* bounds of the behaviours: records, see below

\* A scene's fields.  linked: a device is stored at first; attempts: p.state.Attempts; ops:
\* the operator actions used, at most n in all; items: the QR channel's items; reads,
\* faults and starts: session readers opened, failing operations and process starts.

NoClient == 0
Clients  == 1..MaxClient
Free     == "free"

VARIABLES
  scene,
  row,                  \* operator_state: "none", "idle" or "wiped"
  device,               \* the client whose device the session store holds
  up, nStart,
  parked, wiped,        \* operatorLogout, operatorSessionWiped
  retired,              \* operatorRetiredClient
  client, paired,       \* current client, runtimePaired
  gate,                 \* clientGate is held exclusively
  pstate,               \* b.pairingState
  st, qr, gen,          \* p.state: State, QR present, Generation
  live,                 \* the attempt's context is not cancelled
  calls, completing,    \* codeCalls, completing
  action, kick,         \* holder of p.action, the buffered kick
  rpc, attempt, first,  \* the attempt loop
  mygen, known, err, passkey,  \* ... of the running attempt; known: paired at its start
  hpc, hgen, hbad, hexit, \* the HTTP action: control, generation, failed, after
  sdk,                  \* the SDK of each client
  lpc,                  \* the reconnect loop
  reader,               \* an archive that reads the session store
  due,                  \* history: an accepted restart not yet served
  nOps, nReads, nFault

durable  == <<row, device>>
flagVars == <<parked, wiped, retired>>
stVars   == <<st, qr, gen>>
runVars  == <<rpc, attempt, first, mygen, known, err, passkey>>
httpVars == <<hpc, hgen, hbad, hexit>>
sessVars == <<client, paired, gate>>
budgets  == <<nOps, nReads, nFault>>
opVars == <<durable, up, nStart, flagVars, sessVars, pstate, stVars, live, calls, completing,
            action, kick, runVars, httpVars, sdk, lpc, reader, due, budgets>>

LoggedOut == "logged_out_by_operator"

\* isPaired
Paired == paired /\ retired # client

\* A failing operation is counted.
MayFail(ok) == IF ok THEN UNCHANGED nFault ELSE nFault < scene.faults /\ nFault' = nFault + 1

\* setPairingState: operator idle is not reopened.
SetPairingState(s) == pstate' = IF parked THEN pstate ELSE s

\* invalidateLocked
Invalidate(s) == st' = s /\ qr' = FALSE
-----------------------------------------------------------------------------
(* The SDK and its callbacks (external, as runtime_client.go uses it) *)

Sdk(c, s) == sdk' = [sdk EXCEPT ![c] = s]

\* Disconnect ends the socket, not a link whose exchange has already begun.
Disconnected == [sdk EXCEPT ![client] = IF @ \in {"open", "online"} THEN "off" ELSE @]

\* The phone scans the QR or enters the code of an unpaired client.
Scan(c) ==
  /\ up /\ sdk[c] = "open" /\ device # c
  /\ Sdk(c, "scanned")
  /\ UNCHANGED <<durable, up, nStart, flagVars, sessVars, pstate, stVars, live, calls, completing,
                 action, kick, runVars, httpVars, lpc, reader, due, budgets>>

\* beginCompletion: only the live attempt's client may be linked, once, in a step
\* that waits for the phone.
Admits(c) ==
  /\ live /\ client = c /\ ~completing /\ ~Paired
  /\ st \in {"awaiting_qr", "code_issued", "passkey_submitted", "passkey_confirm"}

\* PrePairCallback: admitted, the SDK saves the device; refused, it reports an error.
PrePair(c) ==
  /\ up /\ sdk[c] = "scanned"
  /\ IF Admits(c)
     THEN completing' = TRUE /\ Invalidate("completing") /\ Sdk(c, "saving")
     ELSE Sdk(c, "error") /\ UNCHANGED <<completing, st, qr>>
  /\ UNCHANGED <<durable, up, nStart, flagVars, sessVars, pstate, gen, live, calls, action, kick,
                 runVars, httpVars, lpc, reader, due, budgets>>

Save(c, ok) ==
  /\ up /\ sdk[c] = "saving"
  /\ MayFail(ok)
  /\ device' = IF ok THEN c ELSE device
  /\ Sdk(c, IF ok THEN "success" ELSE "error")
  /\ UNCHANGED <<row, up, nStart, flagVars, sessVars, pstate, stVars, live, calls, completing,
                 action, kick, runVars, httpVars, lpc, reader, due, nOps, nReads>>

\* The login that follows a dial with saved keys.
Authenticate(c) ==
  /\ up /\ sdk[c] = "open" /\ device = c
  /\ Sdk(c, "login")
  /\ UNCHANGED <<durable, up, nStart, flagVars, sessVars, pstate, stVars, live, calls, completing,
                 action, kick, runVars, httpVars, lpc, reader, due, budgets>>

\* Events the SDK has to report, and the same events inside the callback.
Pending == [success |-> "in_success", error |-> "in_error", login |-> "in_login"]
Inside  == {"in_success", "in_error", "in_login"}

\* The client's callbacks are still wanted.
Active(c) == ~parked /\ retired # c /\ client = c

\* handleClientEvent, admission: the reader's side of clientGate, then runtimePaired.
Callback(c) ==
  /\ up /\ sdk[c] \in DOMAIN Pending /\ Active(c) /\ ~gate
  /\ Sdk(c, Pending[sdk[c]])
  /\ paired' = (paired \/ sdk[c] # "error")
  /\ UNCHANGED <<durable, up, nStart, flagVars, client, gate, pstate, stVars, live, calls, completing,
                 action, kick, runVars, httpVars, lpc, reader, due, budgets>>

\* ... of a retired client: only its completion is drained (finishRetiredCompletion).
DropCallback(c) ==
  /\ up /\ sdk[c] \in DOMAIN Pending /\ ~Active(c)
  /\ Sdk(c, "off")
  /\ completing' = (completing /\ (sdk[c] = "login" \/ client # c))
  /\ UNCHANGED <<durable, up, nStart, flagVars, sessVars, pstate, stVars, live, calls,
                 action, kick, runVars, httpVars, lpc, reader, due, budgets>>

\* The rest of the handler: handleEvent clears the connection state after a login,
\* connectionEvent publishes the outcome and ends a completion.
Publish(c) ==
  /\ up /\ sdk[c] \in Inside
  /\ Sdk(c, IF sdk[c] = "in_login" THEN "online" ELSE "off")
  /\ Invalidate(CASE sdk[c] = "in_success" -> "paired" [] sdk[c] = "in_error" -> "expired"
                  [] sdk[c] = "in_login" -> "connected")
  /\ completing' = (completing /\ sdk[c] = "in_login")
  /\ IF sdk[c] = "in_login" /\ retired # client THEN SetPairingState("") ELSE UNCHANGED pstate
  /\ UNCHANGED <<durable, up, nStart, flagVars, sessVars, gen, live, calls, action, kick,
                 runVars, httpVars, lpc, reader, due, budgets>>
-----------------------------------------------------------------------------
(* The attempt loop: run, connectOrPair and pairOnce *)

\* p.action is taken for the handoff ...
RunTake ==
  /\ up /\ rpc = "top" /\ action = Free
  /\ action' = "run" /\ rpc' = "begin"
  /\ UNCHANGED <<durable, up, nStart, flagVars, sessVars, pstate, stVars, live, calls, completing,
                 kick, attempt, first, mygen, known, err, passkey, httpVars, sdk, lpc, reader, due, budgets>>

\* Fault: the handoff does not wait for a link being saved.
MutCompleted == TRUE

\* waitCompletion
Completed == ~completing

\* The loop starts nothing in an idle instance.
Idle == parked

\* ... and waits for a link being saved.  An idle or a paired instance needs no
\* attempt; every attempt but the first gets a client of its own.  The factory fails,
\* and a first attempt finds the gate parked, only over a revoked session, whose removal
\* is ConnectionProblem's (CleanupFailed, Start there).
RunBegin ==
  LET fresh == ~first \/ retired = client
  IN /\ up /\ rpc = "begin" /\ Completed
     /\ action' = Free
     /\ IF Idle \/ (~first /\ Paired)
        THEN /\ rpc' = "after"
             /\ UNCHANGED <<flagVars, client, paired, gate, sdk, pstate, stVars, live, calls, first, mygen, known, due>>
        ELSE /\ IF fresh
                THEN /\ ~gate /\ (\A c \in Clients : sdk[c] \notin Inside)
                     /\ client' = client + 1 /\ paired' = FALSE
                     /\ sdk' = Disconnected /\ SetPairingState("")
                ELSE UNCHANGED <<client, paired, sdk, pstate>>
             /\ first' = FALSE /\ gen' = gen + 1 /\ mygen' = gen + 1 /\ calls' = 0
             /\ Invalidate("starting") /\ live' = TRUE /\ due' = FALSE
             /\ known' = (~fresh /\ Paired)
             /\ rpc' = "dial" /\ UNCHANGED <<flagVars, gate>>
     /\ UNCHANGED <<durable, up, nStart, completing, kick, attempt, err, passkey,
                    httpVars, lpc, reader, budgets>>

\* The attempt ends with e; a failed one disconnects.
Ends(e) ==
  /\ live' = FALSE
  /\ err' = e /\ passkey' = FALSE
  /\ rpc' = IF e = "none" THEN "after" ELSE "failed"

\* waitConnectionAllowedContext
BeforeDial ==
  /\ up /\ rpc = "dial"
  /\ \/ ~live /\ Ends("cancelled")
     \/ live /\ pstate = "" /\ rpc' = "connect" /\ UNCHANGED <<live, err, passkey>>
  /\ UNCHANGED <<durable, up, nStart, flagVars, sessVars, pstate, stVars, calls, completing,
                 action, kick, attempt, first, mygen, known, httpVars, sdk, lpc, reader, due, budgets>>

\* pairingConnect: a dial under way outlives the cancellation of its attempt, but
\* its socket is then given up.
Connect(ok) ==
  /\ up /\ rpc = "connect"
  /\ MayFail(ok)
  /\ sdk' = IF ok /\ sdk[client] = "off" THEN [sdk EXCEPT ![client] = "open"] ELSE sdk
  /\ IF ~ok THEN Ends("transport")
     ELSE IF ~live THEN Ends("cancelled")
     ELSE IF known THEN Ends("none")
     ELSE rpc' = "qr" /\ UNCHANGED <<live, err, passkey>>
  /\ UNCHANGED <<durable, up, nStart, flagVars, sessVars, pstate, stVars, calls, completing,
                 action, kick, attempt, first, mygen, known, httpVars, lpc, reader, due, nOps, nReads>>

Passkeys == {"passkey_required", "passkey_submitted", "passkey_confirm"}

\* observe: what the QR channel says counts for the current generation only.
Observe(item) ==
  IF mygen # gen THEN UNCHANGED <<st, qr>>
  ELSE CASE item = "code" ->
              IF completing \/ st \in Passkeys THEN UNCHANGED <<st, qr>>
              ELSE qr' = TRUE /\ st' = IF st = "code_issued" THEN st ELSE "awaiting_qr"
         [] item = "passkey" -> Invalidate("passkey_required")
         [] item = "confirm" -> st' = "passkey_confirm" /\ UNCHANGED qr
         [] item = "success" -> Invalidate("paired")
         [] item = "timeout" -> Invalidate(IF st \in Passkeys \cup {"passkey_failed"} THEN "passkey_failed" ELSE "expired")
         [] item = "silence" -> UNCHANGED <<st, qr>>

\* An item that leaves the attempt waiting.
Item(item) ==
  /\ up /\ rpc = "qr" /\ sdk[client] \in {"open", "scanned"}
  /\ Observe(item)
  /\ passkey' = (passkey \/ item # "code")
  /\ IF item = "code" THEN UNCHANGED pstate
     ELSE SetPairingState(IF item = "passkey" THEN "passkey_required" ELSE "passkey_confirm")
  /\ UNCHANGED <<durable, up, nStart, flagVars, sessVars, gen, live, calls, completing, action, kick,
                 rpc, attempt, first, mygen, known, err, httpVars, sdk, lpc, reader, due, budgets>>

\* The SDK's success, which its channel reports beside the callback.
Success ==
  /\ up /\ rpc = "qr" /\ device = client
  /\ Observe("success") /\ SetPairingState("") /\ Ends("none")
  /\ UNCHANGED <<durable, up, nStart, flagVars, sessVars, gen, calls, completing, action, kick,
                 attempt, first, mygen, known, httpVars, sdk, lpc, reader, due, budgets>>

\* A timeout or an error on the channel, or silently: the deadline, a closed channel
\* or the cancelled context.
Failure(item) ==
  /\ up /\ rpc = "qr"
  /\ Observe(item)
  /\ IF item = "silence" /\ ~live THEN Ends("cancelled") /\ UNCHANGED pstate
     ELSE IF passkey THEN Ends("operator") /\ SetPairingState("passkey_failed")
     ELSE Ends("timeout") /\ UNCHANGED pstate
  /\ sdk' = Disconnected
  /\ UNCHANGED <<durable, up, nStart, flagVars, sessVars, gen, calls, completing, action, kick,
                 attempt, first, mygen, known, httpVars, lpc, reader, due, budgets>>

\* The failed client is disconnected under p.action, where a late save is awaited.
FailTake ==
  /\ up /\ rpc = "failed" /\ action = Free
  /\ action' = "run" /\ rpc' = "drain" /\ sdk' = Disconnected
  /\ UNCHANGED <<durable, up, nStart, flagVars, sessVars, pstate, stVars, live, calls, completing,
                 kick, attempt, first, mygen, known, err, passkey, httpVars, lpc, reader, due, budgets>>

FailDrain ==
  /\ up /\ rpc = "drain" /\ Completed
  /\ action' = Free /\ rpc' = "decide"
  /\ UNCHANGED <<durable, up, nStart, flagVars, sessVars, pstate, stVars, live, calls, completing,
                 kick, attempt, first, mygen, known, err, passkey, httpVars, sdk, lpc, reader, due, budgets>>

\* A cancelled attempt says nothing; one whose device was saved late is paired.
Decide ==
  /\ up /\ rpc = "decide"
  /\ IF mygen # gen
     THEN err' = "cancelled" /\ UNCHANGED <<st, qr>>
     ELSE IF Paired
     THEN err' = "recovered" /\ Invalidate("paired")
     ELSE UNCHANGED err /\ Invalidate(IF err = "operator" THEN "passkey_failed" ELSE "expired")
  /\ rpc' = "settle"
  /\ UNCHANGED <<durable, up, nStart, flagVars, sessVars, pstate, gen, live, calls, completing, action, kick,
                 attempt, first, mygen, known, passkey, httpVars, sdk, lpc, reader, due, budgets>>

\* What follows: the reconnect loop for a paired client, a retry for a lost
\* transport, a pause before the next attempt, or the end of the sequence.
Settle ==
  /\ up /\ rpc = "settle"
  /\ rpc' = CASE err = "transport" -> "retry"
              [] err = "timeout" /\ attempt < scene.attempts -> "pause"
              [] OTHER -> "after"
  /\ IF err = "transport" THEN Invalidate("starting") ELSE UNCHANGED <<st, qr>>
  /\ IF err \in {"transport", "recovered"} THEN SetPairingState("") ELSE UNCHANGED pstate
  /\ lpc' = IF err = "recovered" /\ lpc = "idle" THEN "signal" ELSE lpc
  /\ err' = "none"
  /\ UNCHANGED <<durable, up, nStart, flagVars, sessVars, gen, live, calls, completing, action, kick,
                 attempt, first, mygen, known, passkey, httpVars, sdk, reader, due, budgets>>

\* The timer, or a kick that starts the sequence over.
Pause(kicked) ==
  /\ up /\ rpc \in {"retry", "pause"}
  /\ kicked => kick
  /\ kick' = (kick /\ ~kicked)
  /\ attempt' = IF kicked THEN 1 ELSE IF rpc = "pause" THEN attempt + 1 ELSE attempt
  /\ rpc' = "top"
  /\ UNCHANGED <<durable, up, nStart, flagVars, sessVars, pstate, stVars, live, calls, completing, action,
                 first, mygen, known, err, passkey, httpVars, sdk, lpc, reader, due, budgets>>

\* The sequence is over: an expired one is going to park the dial gate ...
After ==
  /\ up /\ rpc = "after"
  /\ rpc' = IF ~Paired /\ ~parked /\ st = "expired" THEN "park" ELSE "idle"
  /\ UNCHANGED <<durable, up, nStart, flagVars, sessVars, pstate, stVars, live, calls, completing, action, kick,
                 attempt, first, mygen, known, err, passkey, httpVars, sdk, lpc, reader, due, budgets>>

Park ==
  /\ up /\ rpc = "park"
  /\ SetPairingState("pairing_required") /\ rpc' = "idle"
  /\ UNCHANGED <<durable, up, nStart, flagVars, sessVars, stVars, live, calls, completing, action, kick,
                 attempt, first, mygen, known, err, passkey, httpVars, sdk, lpc, reader, due, budgets>>

\* ... and only a kick starts another.
Kicked ==
  /\ up /\ rpc = "idle" /\ kick
  /\ kick' = FALSE /\ attempt' = 1 /\ rpc' = "top"
  /\ UNCHANGED <<durable, up, nStart, flagVars, sessVars, pstate, stVars, live, calls, completing, action,
                 first, mygen, known, err, passkey, httpVars, sdk, lpc, reader, due, budgets>>

\* reconnectLoop: a paired client is dialled again through the gate ...
LoopGate ==
  /\ up /\ lpc = "signal" /\ pstate = ""
  /\ lpc' = "dial"
  /\ UNCHANGED <<durable, up, nStart, flagVars, sessVars, pstate, stVars, live, calls, completing, action, kick,
                 runVars, httpVars, sdk, reader, due, budgets>>

\* ... and b.Connect refuses an idle, retired or unpaired client.
LoopDial ==
  /\ up /\ lpc = "dial" /\ ~gate
  /\ lpc' = "idle"
  /\ sdk' = IF ~parked /\ Paired /\ sdk[client] = "off"
            THEN [sdk EXCEPT ![client] = "open"] ELSE sdk
  /\ UNCHANGED <<durable, up, nStart, flagVars, sessVars, pstate, stVars, live, calls, completing, action, kick,
                 runVars, httpVars, reader, due, budgets>>
-----------------------------------------------------------------------------
(* The operator's actions.  Each holds p.action; a second one is refused. *)

\* An action begins in step pc or is answered at once.
HttpTake(pc) ==
  /\ up /\ action = Free /\ nOps < scene.n
  /\ nOps' = nOps + 1
  /\ action' = "http" /\ hpc' = pc

HttpDone ==
  /\ action' = Free /\ hpc' = "none" /\ hgen' = 0 /\ hbad' = FALSE /\ hexit' = FALSE

\* code: a pairing code for the current QR, a few per attempt ...
Code ==
  /\ HttpTake("code")
  /\ live /\ ~Paired /\ st \in {"awaiting_qr", "code_issued"} /\ qr /\ calls < CodeLimit
  /\ calls' = calls + 1 /\ hgen' = gen
  /\ UNCHANGED <<durable, up, nStart, flagVars, sessVars, pstate, stVars, live, completing, kick,
                 runVars, hbad, hexit, sdk, lpc, reader, due, nReads, nFault>>

\* ... which is shown only if the attempt still waits for it in time.
CodeDone(ok) ==
  LET valid == ok /\ live /\ hgen = gen /\ ~Paired /\ ~completing /\ st \in {"awaiting_qr", "code_issued"}
  IN /\ up /\ hpc = "code"
     /\ st' = IF valid THEN "code_issued" ELSE st
     /\ HttpDone
     /\ UNCHANGED <<durable, up, nStart, flagVars, sessVars, pstate, qr, gen, live, calls, completing, kick,
                    runVars, sdk, lpc, reader, due, budgets>>

\* passkeyResponse: published as submitted before it is sent ...
PasskeyResponse ==
  /\ HttpTake("passkey")
  /\ live /\ ~Paired /\ st = "passkey_required"
  /\ st' = "passkey_submitted" /\ hgen' = gen
  /\ UNCHANGED <<durable, up, nStart, flagVars, sessVars, pstate, qr, gen, live, calls, completing, kick,
                 runVars, hbad, hexit, sdk, lpc, reader, due, nReads, nFault>>

\* ... and required again when WhatsApp refuses it, unless the SDK moved on.
PasskeyDone(ok) ==
  /\ up /\ hpc = "passkey"
  /\ MayFail(ok)
  /\ st' = IF ~ok /\ live /\ hgen = gen /\ st = "passkey_submitted" /\ ~completing /\ ~Paired
           THEN "passkey_required" ELSE st
  /\ HttpDone
  /\ UNCHANGED <<durable, up, nStart, flagVars, sessVars, pstate, qr, gen, live, calls, completing, kick,
                 runVars, sdk, lpc, reader, due, nOps, nReads>>

\* passkeyConfirm
PasskeyConfirm ==
  /\ HttpTake("confirm")
  /\ live /\ ~Paired /\ st = "passkey_confirm"
  /\ hgen' = gen
  /\ UNCHANGED <<durable, up, nStart, flagVars, sessVars, pstate, stVars, live, calls, completing, kick,
                 runVars, hbad, hexit, sdk, lpc, reader, due, nReads, nFault>>

ConfirmDone(ok) ==
  /\ up /\ hpc = "confirm"
  /\ MayFail(ok)
  /\ st' = IF ok /\ hgen = gen /\ st = "passkey_confirm" THEN "passkey_submitted" ELSE st
  /\ HttpDone
  /\ UNCHANGED <<durable, up, nStart, flagVars, sessVars, pstate, qr, gen, live, calls, completing, kick,
                 runVars, sdk, lpc, reader, due, nOps, nReads>>

\* What restart accepts: an instance that is over and holds no session.  A state left by
\* WhatsApp's refusal, logged_out or a restriction, is ConnectionProblem's.
Restartable ==
  /\ ~(parked /\ ~wiped) /\ ~Paired /\ ~completing
  /\ st \in {"expired", "passkey_failed", "pairing_required", LoggedOut}

\* restart: the connection state is cleared, with the marker's file, then the idle row.  A
\* file that cannot be removed leaves both, a row that cannot be deleted the idle state.
Restart(ok) ==
  /\ Restartable
  /\ MayFail(ok)
  /\ IF ok THEN pstate' = "" ELSE (UNCHANGED pstate \/ (parked /\ pstate' = ""))
  /\ IF ok
     THEN HttpTake("restart") /\ row' = "none" /\ UNCHANGED <<hgen, hbad, hexit>>
     ELSE /\ up /\ action = Free /\ nOps < scene.n /\ nOps' = nOps + 1
          /\ UNCHANGED <<row, action, httpVars>>
  /\ UNCHANGED <<device, up, nStart, flagVars, sessVars, stVars, live, calls, completing, kick,
                 runVars, sdk, lpc, reader, due, nReads>>

\* Fault: the kick is not remembered for a loop that is not waiting yet.
MutRestartCommit ==
  /\ up /\ hpc = "restart"
  /\ parked' = FALSE /\ gen' = gen + 1 /\ Invalidate("starting") /\ live' = FALSE
  /\ kick' = (rpc = "idle") /\ due' = TRUE
  /\ HttpDone
  /\ UNCHANGED <<durable, up, nStart, wiped, retired, sessVars, pstate, calls, completing,
                 runVars, sdk, lpc, reader, budgets>>

\* The running attempt is cancelled and the loop kicked.
RestartCommit ==
  /\ up /\ hpc = "restart"
  /\ parked' = FALSE /\ gen' = gen + 1 /\ Invalidate("starting") /\ live' = FALSE
  /\ kick' = TRUE /\ due' = TRUE
  /\ HttpDone
  /\ UNCHANGED <<durable, up, nStart, wiped, retired, sessVars, pstate, calls, completing,
                 runVars, sdk, lpc, reader, budgets>>
-----------------------------------------------------------------------------
(* The operator's logout *)

\* logout: refused without a session to end; the idle row is written first.
Logout(exit) ==
  /\ HttpTake("flags")
  /\ IF parked THEN ~wiped ELSE Paired
  /\ row' = "idle" /\ hexit' = exit
  /\ UNCHANGED <<device, up, nStart, flagVars, sessVars, pstate, stVars, live, calls, completing, kick,
                 runVars, hgen, hbad, sdk, lpc, reader, due, nReads, nFault>>

\* Dial paths are parked and the client retired; readers of the session are cancelled.
LogoutFlags ==
  /\ up /\ hpc = "flags"
  /\ wiped' = FALSE /\ parked' = TRUE /\ retired' = client /\ due' = FALSE
  /\ hpc' = "archive"
  /\ UNCHANGED <<durable, up, nStart, sessVars, pstate, stVars, live, calls, completing, action, kick,
                 runVars, hgen, hbad, hexit, sdk, lpc, reader, budgets>>

ReadersClosed == ~reader

\* cancelArchiveSessionReads: they end, or the request gives up while parked.
LogoutArchive ==
  /\ up /\ hpc = "archive"
  /\ \/ /\ ReadersClosed
        /\ hpc' = "park" /\ UNCHANGED <<action, hgen, hbad, hexit>>
     \/ reader /\ HttpDone
  /\ UNCHANGED <<durable, up, nStart, flagVars, sessVars, pstate, stVars, live, calls, completing, kick,
                 runVars, sdk, lpc, reader, due, budgets>>

\* The attempt is cancelled.
LogoutPark ==
  /\ up /\ hpc = "park"
  /\ gen' = gen + 1 /\ Invalidate(LoggedOut) /\ live' = FALSE /\ pstate' = LoggedOut
  /\ hpc' = "drain"
  /\ UNCHANGED <<durable, up, nStart, flagVars, sessVars, calls, completing, action, kick,
                 runVars, hgen, hbad, hexit, sdk, lpc, reader, due, budgets>>

\* drainOperatorClients: admitted callbacks leave the gate, or the request gives up.
\* A callback that left may have changed the state: idle is asserted again.
LogoutDrain ==
  /\ up /\ hpc = "drain"
  /\ \/ /\ \A c \in Clients : sdk[c] \notin Inside
        /\ gate' = TRUE /\ Invalidate(LoggedOut) /\ pstate' = LoggedOut
        /\ hpc' = "remote" /\ UNCHANGED <<action, hgen, hbad, hexit>>
     \/ /\ \E c \in Clients : sdk[c] \in Inside
        /\ HttpDone /\ UNCHANGED <<gate, st, qr, pstate>>
  /\ UNCHANGED <<durable, up, nStart, flagVars, client, paired, gen, live, calls, completing, kick,
                 runVars, sdk, lpc, reader, due, budgets>>

\* performLogout: WhatsApp unlinks and the SDK deletes the device, or not.
LogoutRemote(ok) ==
  /\ up /\ hpc = "remote"
  /\ MayFail(ok)
  /\ device' = IF ok /\ device = client THEN NoClient ELSE device
  /\ sdk' = Disconnected /\ hpc' = "wipe"
  /\ UNCHANGED <<row, up, nStart, flagVars, sessVars, pstate, stVars, live, calls, completing, action, kick,
                 runVars, hgen, hbad, hexit, lpc, reader, due, nOps, nReads>>

\* wipeOperatorSession and removeSessionSnapshots: the local session is destroyed
\* whatever WhatsApp said; the first failure is remembered.
LogoutWipe(ok) ==
  /\ up /\ hpc = "wipe"
  /\ MayFail(ok)
  /\ device' \in IF ok THEN {IF device = client THEN NoClient ELSE device} ELSE {device, NoClient}
  /\ hbad' = ~ok /\ hpc' = "mark"
  /\ UNCHANGED <<row, up, nStart, flagVars, sessVars, pstate, stVars, live, calls, completing, action, kick,
                 runVars, hgen, hexit, sdk, lpc, reader, due, nOps, nReads>>

\* local_session_wiped is recorded and the gate released; a failure leaves the
\* instance parked, to be logged out again.
LogoutMark(ok) ==
  /\ up /\ hpc = "mark"
  /\ MayFail(ok) /\ (hbad => ok)
  /\ gate' = FALSE
  /\ IF ok /\ ~hbad
     THEN /\ row' = "wiped" /\ wiped' = TRUE /\ paired' = FALSE
          /\ IF hexit THEN hpc' = "exit" /\ UNCHANGED <<action, hgen, hbad, hexit>> ELSE HttpDone
     ELSE HttpDone /\ UNCHANGED <<row, wiped, paired>>
  /\ UNCHANGED <<device, up, nStart, parked, retired, client, pstate, stVars, live, calls, completing, kick,
                 runVars, sdk, lpc, reader, due, nOps, nReads>>

\* beginArchiveSessionRead, and the end of the read.
Read ==
  /\ up /\ IF reader THEN UNCHANGED nReads ELSE ~parked /\ nReads < scene.reads /\ nReads' = nReads + 1
  /\ reader' = ~reader
  /\ UNCHANGED <<durable, up, nStart, flagVars, sessVars, pstate, stVars, live, calls, completing, action, kick,
                 runVars, httpVars, sdk, lpc, due, nOps, nFault>>
-----------------------------------------------------------------------------
(* The process *)

\* Nothing but the row and the session store survives.
Down ==
  /\ up' = FALSE
  /\ parked' = FALSE /\ wiped' = FALSE /\ retired' = NoClient /\ paired' = FALSE /\ gate' = FALSE
  /\ pstate' = "" /\ st' = "starting" /\ qr' = FALSE /\ gen' = 0 /\ live' = FALSE
  /\ calls' = 0 /\ completing' = FALSE /\ action' = Free /\ kick' = FALSE
  /\ rpc' = "idle" /\ attempt' = 1 /\ first' = TRUE /\ mygen' = 0 /\ known' = FALSE
  /\ err' = "none" /\ passkey' = FALSE
  /\ hpc' = "none" /\ hgen' = 0 /\ hbad' = FALSE /\ hexit' = FALSE
  /\ sdk' = [c \in Clients |-> "off"] /\ lpc' = "idle" /\ reader' = FALSE /\ due' = FALSE
  /\ UNCHANGED <<device, nStart, client, nOps, nReads>>

Crash == up /\ nStart < scene.starts /\ Down /\ UNCHANGED <<row, nFault>>

\* after=exit: the row is deleted, or stays, and the process exits.
LogoutExit(ok) ==
  /\ up /\ hpc = "exit"
  /\ MayFail(ok)
  /\ row' = IF ok THEN "none" ELSE row
  /\ Down

\* Fault: the row is forgotten once a device is gone.
MutIdleRow == row = "idle" /\ device # NoClient

\* restoreOperatorIdle reads the row before any consumer starts.
IdleRow == row # "none"

Start ==
  /\ ~up /\ nStart < scene.starts
  /\ up' = TRUE /\ nStart' = nStart + 1
  /\ client' = client + 1
  /\ device' = IF device = NoClient THEN NoClient ELSE client'
  /\ paired' = (device # NoClient)
  /\ parked' = IdleRow /\ wiped' = (row = "wiped" /\ device = NoClient)
  /\ pstate' = IF IdleRow THEN LoggedOut ELSE ""
  /\ st' = IF IdleRow THEN LoggedOut ELSE "starting"
  /\ rpc' = "top"
  /\ UNCHANGED <<row, retired, gate, qr, gen, live, calls, completing, action, kick,
                 attempt, first, mygen, known, err, passkey, httpVars, sdk, lpc, reader, due, budgets>>

\* An installation, linked or not, before its first start.
Init ==
  /\ scene \in Scenes
  /\ row = "none" /\ device = IF scene.linked THEN 1 ELSE NoClient
  /\ up = FALSE /\ nStart = 0
  /\ parked = FALSE /\ wiped = FALSE /\ retired = NoClient /\ client = 1 /\ paired = FALSE /\ gate = FALSE
  /\ pstate = "" /\ st = "starting" /\ qr = FALSE /\ gen = 0 /\ live = FALSE
  /\ calls = 0 /\ completing = FALSE /\ action = Free /\ kick = FALSE
  /\ rpc = "idle" /\ attempt = 1 /\ first = TRUE /\ mygen = 0 /\ known = FALSE /\ err = "none" /\ passkey = FALSE
  /\ hpc = "none" /\ hgen = 0 /\ hbad = FALSE /\ hexit = FALSE
  /\ sdk = [c \in Clients |-> "off"] /\ lpc = "idle" /\ reader = FALSE /\ due = FALSE
  /\ nOps = 0 /\ nReads = 0 /\ nFault = 0
-----------------------------------------------------------------------------
SdkStep(c)  == PrePair(c) \/ Callback(c) \/ DropCallback(c) \/ Publish(c) \/ \E ok \in BOOLEAN : Save(c, ok)
HttpStep ==
  \/ RestartCommit \/ LogoutFlags \/ LogoutArchive \/ LogoutPark \/ LogoutDrain
  \/ \E ok \in BOOLEAN :
       \/ CodeDone(ok) \/ PasskeyDone(ok) \/ ConfirmDone(ok)
       \/ LogoutRemote(ok) \/ LogoutWipe(ok) \/ LogoutMark(ok) \/ LogoutExit(ok)
HttpBegin ==
  \/ "code" \in scene.ops /\ Code
  \/ "passkey" \in scene.ops /\ (PasskeyResponse \/ PasskeyConfirm)
  \/ "restart" \in scene.ops /\ \E ok \in BOOLEAN : Restart(ok)
  \/ "logout" \in scene.ops /\ \E exit \in BOOLEAN : Logout(exit)
\* What ends an attempt; the deadline is always among it.
AttemptEnds == Success \/ \E item \in {"timeout", "silence"} : Failure(item)
RunStep ==
  \/ RunTake \/ RunBegin \/ BeforeDial \/ FailTake \/ FailDrain \/ Decide \/ Settle
  \/ After \/ Park \/ Kicked
  \/ \E b \in BOOLEAN : Connect(b) \/ Pause(b)
  \/ AttemptEnds

Step ==
  \/ \E c \in Clients : SdkStep(c) \/ Scan(c) \/ Authenticate(c)
  \/ RunStep \/ \E item \in scene.items : Item(item)
  \/ LoopGate \/ LoopDial
  \/ HttpBegin \/ HttpStep \/ Read
  \/ Crash \/ Start

Next == Step /\ UNCHANGED scene

\* The loop's goroutine runs, a save and its callback end, requests carry deadlines,
\* and a reader ends.
Fairness ==
  /\ WF_opVars(RunStep) /\ WF_opVars(HttpStep) /\ WF_opVars(reader /\ Read)
  /\ \A c \in Clients : WF_opVars(SdkStep(c))

Spec == Init /\ [][Next]_<<scene, opVars>> /\ Fairness
-----------------------------------------------------------------------------
\* After a logout has begun, nothing but an accepted restart or the deletion of its row
\* by the exit brings the instance back: no client is made and no link admitted,
\* whatever attempts, callbacks, kicks, failures and crashes follow.
IdleStep ==
  row # "none" /\ row' # "none" /\ (parked \/ ~up) =>
    /\ ~(completing' /\ ~completing)
    /\ client' # client => ~up
    /\ up' => parked'

\* A recorded wipe is true: the session store holds no device and nobody reads it.
WipeTrue ==
  row = "wiped" \/ (parked /\ wiped) => device = NoClient /\ ~reader

\* A device that is being saved, or has just been saved, is never replaced by a new
\* one: a handoff waits for the end of the link, however late.
LinkStep ==
  up /\ client' # client =>
    /\ device = NoClient
    /\ \A c \in Clients : sdk[c] \notin {"saving", "success", "in_success"}

=============================================================================
