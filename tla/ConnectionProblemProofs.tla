---------------------- MODULE ConnectionProblemProofs ----------------------
(***************************************************************************)
(* Theorems about ConnectionProblem, for any number of refusals, faults,   *)
(* starts and devices: disk and memory agree whenever no write is under    *)
(* way, a revocation stands, and nobody dials against a ban it has seen.   *)
(***************************************************************************)
EXTENDS ConnectionProblemMarkers

\* Revoked keys that are still in the session store.
Left == gone \cap devices

\* They are of the one device the marker asks to remove: the marker in memory, or
\* on disk while the process is down.  Until then the client is retired, so no
\* other device is linked or unlinked in between.
Revoking ==
  /\ Left \subseteq Pending(IF up THEN mem ELSE file)
  /\ up /\ Left # {} => retired /\ client \in {NoDevice, mem.dev}

\* The restriction last told is the one in memory, or on disk while the process is
\* down.
BanKnown == Restricts(ban) => Restriction(IF up THEN mem ELSE file) = Restriction(ban)

\* A dialer past the gate has seen no restriction in force; one that is about to
\* decide holds what it has seen.
GateHeld ==
  \A d \in Dialers :
    /\ dpc[d] = "dial" => ~RestrictsAt(seen[d], now)
    /\ dpc[d] \in {"retry", "decide"} /\ Restricts(seen[d])
         => Restriction(snap[d]) = Restriction(seen[d])

\* An attempt of the controller with revoked keys is one that the handler of the unlink
\* is about to cancel.
Fenced == up /\ client \in gone /\ Attempting => Unlinking

IInv ==
  /\ TypeOK /\ DiskAgrees /\ Linked /\ RemovalTrue /\ Cleaned
  /\ Told /\ Linking /\ Revoking /\ RevokedRetired /\ BanKnown /\ GateHeld /\ Fenced
-----------------------------------------------------------------------------
(* Revoked keys *)

LEMMA PendingFence == ASSUME NEW p, NEW q, Fence(p) = Fence(q) PROVE Pending(p) = Pending(q)
  BY DEF Fence, Pending

LEMMA PendingFacts ==
  ASSUME TypeOK, NEW b
  PROVE  /\ Pending(Unversioned(mem)) = Pending(mem)
         /\ Pending(Restarted) = Pending(mem)
         /\ Pending(Saved(b)) = Pending(file) /\ Pending(Loaded(b)) = Pending(file)
<1>1. mem \in Problem /\ file \in Problem BY DEF TypeOK
<1>2. Pending(Unversioned(mem)) = Pending(mem) BY <1>1, UnversionedFacts, PendingFence DEF Alike
<1>3. Pending(Restarted) = Pending(mem) BY <1>1, RestartedFacts DEF Pending
<1>4. Pending(Saved(b)) = Pending(file) BY <1>1, SavedFacts DEF Pending
<1>5. Pending(Loaded(b)) = Pending(Saved(b)) BY LoadedFacts, PendingFence DEF Alike
<1> QED BY <1>2, <1>3, <1>4, <1>5

\* The process goes on, and what is left to remove is still asked for.
LEMMA StillRevoking ==
  ASSUME Revoking, RevokedRetired, up, up', UNCHANGED <<gone, client>>, devices' \subseteq devices,
         retired => retired', Pending(mem') = Pending(mem)
  PROVE  Revoking' /\ RevokedRetired'
<1>1. Left' \subseteq Left BY DEF Left
<1>2. Left' # {} => mem'.dev = mem.dev BY <1>1 DEF Revoking, Pending
<1> QED BY <1>1, <1>2 DEF Revoking, RevokedRetired

\* Nothing is left to remove, and the client's keys are not revoked.
LEMMA NothingLeft ==
  ASSUME Left' = {}, up' /\ client' \in gone' => retired'
  PROVE  Revoking' /\ RevokedRetired'
  BY DEF Revoking, RevokedRetired

\* The process stops: what it wrote asks for the removal, and what it did not is forgotten.
LEMMA StoppedRevoking ==
  ASSUME Revoking, up, Down, NEW durable \in BOOLEAN, Kept(durable),
         durable => Pending(file') = Pending(mem)
  PROVE  Revoking' /\ RevokedRetired'
<1>1. up' = FALSE /\ devices' = devices /\ Left \subseteq Pending(mem) BY DEF Down, Revoking
<1>2. CASE durable
  <2>1. gone' = gone BY <1>2 DEF Kept
  <2> QED BY <1>1, <1>2, <2>1 DEF Revoking, RevokedRetired, Left
<1>3. CASE ~durable
  <2>1. gone' = gone \ {mem.dev} BY <1>3 DEF Kept
  <2>2. Left' = {} BY <1>1, <2>1 DEF Left, Pending
  <2> QED BY <1>1, <2>2 DEF Revoking, RevokedRetired
<1> QED BY <1>2, <1>3

\* An unlink is recorded: the client it names is the only one left to remove.
LEMMA UnlinkRecorded ==
  ASSUME TypeOK, Linked, Told, Revoking, RevokedRetired, NEW r \in Recorders, Record(r)
  PROVE  Revoking' /\ RevokedRetired'
<1>0. rcode[r] \in Codes /\ client \in 0..MaxDev BY ProblemAssumption DEF TypeOK, Linked
<1>1. up /\ up' /\ rpc[r] = "record" /\ UNCHANGED <<client, retired, devices>>
  BY DEF Record, sessVars, envVars
<1>2. CASE rcode[r] # 401
  <2>1. gone' = gone BY <1>2 DEF Record
  <2>2. mem' = mem \/ Fence(mem') = Fence(mem) BY <1>0, <1>2, NextFence DEF Record
  <2>3. Pending(mem') = Pending(mem) BY <2>2, PendingFence
  <2> QED BY <1>1, <2>1, <2>3, StillRevoking
<1>3. CASE rcode[r] = 401
  <2>1. r = "event" BY <1>3 DEF Told, Recorders
  <2>2. retired /\ client # NoDevice BY <1>1, <1>3, <2>1 DEF Told
  <2>3. mem' = NextProblem(rcode[r]) /\ gone' = gone \cup {client}
    BY <1>3, <2>1 DEF Record, Superseded
  <2>4. Pending(mem') = {client} /\ mem'.dev = client BY <1>0, <1>3, <2>3, NextUnlink
  <2>5. Left \subseteq {client} BY <1>1, <2>2 DEF Revoking, Pending
  <2>6. Left' \subseteq {client} BY <1>1, <2>3, <2>5 DEF Left
  <2> QED BY <1>1, <2>2, <2>4, <2>6 DEF Revoking, RevokedRetired
<1> QED BY <1>2, <1>3

\* A fresh client is installed once nothing is left to remove.
LEMMA CleanupPublished ==
  ASSUME TypeOK, Linked, Cleaned, Revoking, RevokedRetired, NEW ok \in BOOLEAN, Publish(ok)
  PROVE  Revoking' /\ RevokedRetired'
<1>1. up /\ up' /\ dpc["ctl"] = "publish" /\ UNCHANGED <<devices, gone>>
  BY DEF Publish, envVars, hist
<1>2. CASE mem = expected /\ Install(pick)
  <2>1. Left = {} BY <1>1, <1>2 DEF Revoking, Pending, Cleaned, Left, Linked, NoDevice
  <2>2. client' = pick /\ pick \notin gone
    BY <1>1, <1>2, <2>1 DEF Install, Cleaned, Left, Linked, NoDevice
  <2> QED BY <1>1, <2>1, <2>2, NothingLeft DEF Left
<1>3. CASE UNCHANGED <<mem, client, retired>>
  BY <1>1, <1>3, StillRevoking
<1> QED BY <1>2, <1>3, PublishCases, Zenon

\* A start finds the marker of an unfinished removal and uses no device.
LEMMA RestartRevoking ==
  ASSUME TypeOK, Linked, Revoking, NEW b, Restart(b)
  PROVE  Revoking' /\ RevokedRetired'
<1>1. ~up /\ up' /\ mem' = Loaded(b) /\ UNCHANGED <<devices, gone>> BY DEF Restart, Loaded
<1>2. Left' = Left /\ Left \subseteq Pending(file) /\ Pending(mem') = Pending(file)
  BY <1>1, PendingFacts DEF Left, Revoking
<1>3. NoDevice \notin gone BY DEF Linked, NoDevice
<1>4. CASE Unlinked(Saved(b)) /\ ~Saved(b).removed
  <2>1. client' = NoDevice /\ retired' = TRUE BY <1>4, Zenon DEF Restart
  <2> QED BY <1>1, <1>2, <2>1 DEF Revoking, RevokedRetired
<1>5. CASE ~(Unlinked(Saved(b)) /\ ~Saved(b).removed)
  <2>1. Left = {} BY <1>2, <1>5, PendingFacts DEF Pending
  <2>2. client' \in devices \cup {NoDevice} BY DEF Restart
  <2>3. client' \notin gone BY <1>3, <2>1, <2>2 DEF Left
  <2> QED BY <1>1, <1>2, <2>1, <2>3, NothingLeft
<1> QED BY <1>4, <1>5

LEMMA RevokingKept ==
  ASSUME TypeOK, DiskAgrees, Linked, Cleaned, Told, Linking, Revoking, RevokedRetired,
         NEW r \in Recorders, NEW c \in Codes, NEW ok \in BOOLEAN, NEW d \in Dialers,
         NEW b \in {build, build + 1},
         MarkerStep(r, ok, d, b) \/ OtherStep(r, c, ok, d)
  PROVE  Revoking' /\ RevokedRetired'
<1>1. CASE Record(r) BY <1>1, UnlinkRecorded
<1>2. CASE Write(r, ok)
  <2>1. up /\ (ok => file' = Unversioned(mem)) BY <1>2 DEF Write
  <2>2. CASE rcode[r] = 405 BY <1>2, <2>1, <2>2, StoppedRevoking, PendingFacts DEF Write
  <2>3. CASE rcode[r] # 405
    <3>1. UNCHANGED <<mem, gone, client, devices, retired, up>>
      BY <1>2, <2>3 DEF Write, sessVars, envVars, hist
    <3> QED BY <2>1, <3>1, StillRevoking
  <2> QED BY <2>2, <2>3
<1>3. CASE Connected(ok)
  <2>1. UNCHANGED <<gone, client, devices, retired, up>> /\ up /\ ~retired
    BY <1>3 DEF Connected, ClearSnapshot, envVars
  <2>2. Left = {} /\ client \notin gone BY <2>1 DEF Revoking, RevokedRetired
  <2> QED BY <2>1, <2>2, NothingLeft DEF Left
<1>4. CASE OperatorRestart(ok)
  <2>1. UNCHANGED <<gone, client, devices, retired, up>> /\ up BY <1>4 DEF OperatorRestart, envVars
  <2>2. mem' \in {mem, Restarted} BY <1>4, OperatorCases, Zenon
  <2> QED BY <2>1, <2>2, StillRevoking, PendingFacts
<1>5. CASE Retry(d, ok)
  <2>1. UNCHANGED <<mem, gone, client, devices, retired, up>> /\ up
    BY <1>5 DEF Retry, sessVars, envVars, hist
  <2> QED BY <2>1, StillRevoking
<1>6. CASE Publish(ok) BY <1>6, CleanupPublished
<1>7. CASE Crash
  <2>1. up /\ Down /\ Kept(Durable) /\ file' = file BY <1>7 DEF Crash
  <2>2. Durable \in BOOLEAN BY DEF Durable
  <2>3. Durable => Pending(file') = Pending(mem) BY <2>1, PendingFence DEF DiskAgrees
  <2> QED BY <2>1, <2>2, <2>3, StoppedRevoking
<1>8. CASE Restart(b) BY <1>8, RestartRevoking
<1>9. CASE OtherStep(r, c, ok, d)
  <2>0. UNCHANGED <<mem, file, up, gone>> BY <1>9, OtherFrame
  <2>1. CASE PairSuccess
    <3>1. /\ up /\ dpc["ctl"] = "dialed" /\ devices' = devices \cup {nDev + 1} /\ client' = nDev + 1
          /\ retired' = retired
      BY <2>1 DEF PairSuccess
    <3>2. Left = {} BY <3>1 DEF Revoking, Linking
    <3>3. nDev + 1 \notin gone BY DEF Linked
    <3>4. Left' = {} BY <2>0, <3>1, <3>2, <3>3 DEF Left
    <3> QED BY <2>0, <3>1, <3>3, <3>4, NothingLeft
  <2>2. CASE Begin
    <3>0. up /\ devices' = devices BY <2>2 DEF Begin
    <3>1. CASE UNCHANGED <<client, retired>> BY <2>0, <3>0, <3>1, StillRevoking
    <3>2. CASE Install(NoDevice) /\ ~Unlinked(mem)
      <4>1. Left' = {} BY <2>0, <3>0, <3>2 DEF Left, Revoking, Pending
      <4>2. client' \notin gone BY <3>2 DEF Install, Linked, NoDevice
      <4> QED BY <2>0, <4>1, <4>2, NothingLeft
    <3> QED BY <2>2, <3>1, <3>2 DEF Begin
  <2>3. CASE Clean
    <3>1. up /\ UNCHANGED <<client, retired, devices>> BY <2>3 DEF Clean, sessVars
    <3> QED BY <2>0, <3>1, StillRevoking
  <2>4. CASE Delete(ok) BY <2>0, <2>4, DeleteCases, StillRevoking
  <2>5. CASE ~PairSuccess /\ ~Begin /\ ~Clean /\ ~Delete(ok)
    <3>1. UNCHANGED <<client, devices>> /\ (retired => retired') BY <1>9, <2>5, StoreFrame
    <3>2. CASE up BY <2>0, <3>1, <3>2, StillRevoking
    <3>3. CASE ~up BY <2>0, <3>1, <3>3, Zenon DEF Revoking, RevokedRetired, Left
    <3> QED BY <3>2, <3>3
  <2> QED BY <2>1, <2>2, <2>3, <2>4, <2>5
<1> QED BY <1>1, <1>2, <1>3, <1>4, <1>5, <1>6, <1>7, <1>8, <1>9 DEF MarkerStep

\* What cannot start an attempt with revoked keys keeps the fence.
LEMMA FencedFrame ==
  ASSUME Fenced, UNCHANGED <<client, gone>>, up' => up, Attempting' => Attempting,
         rpc'["event"] = rpc["event"], rcode'["event"] = rcode["event"]
  PROVE  Fenced'
  BY Zenon DEF Fenced, Unlinking

LEMMA FencedKept ==
  ASSUME TypeOK, Told, RevokedRetired, RevokedRetired', Fenced,
         NEW r \in Recorders, NEW c \in Codes, NEW ok \in BOOLEAN, NEW d \in Dialers,
         NEW b \in {build, build + 1},
         MarkerStep(r, ok, d, b) \/ OtherStep(r, c, ok, d)
  PROVE  Fenced'
<1>0. /\ "ctl" \in Dialers /\ "loop" \in Dialers /\ dpc \in [Dialers -> Stages]
      /\ "event" \in Recorders /\ "hook" \in Recorders /\ "event" # "hook" /\ r \in {"event", "hook"}
      /\ rpc \in [Recorders -> {"idle", "record", "write", "park"}] /\ rcode \in [Recorders -> Codes]
  BY DEF Dialers, Recorders, TypeOK
<1>1. CASE dpc'["ctl"] \in {"wait", "begin", "clean", "delete", "publish"}
  BY <1>1 DEF Fenced, Attempting
<1>2. CASE ~retired' BY <1>2, Zenon DEF Fenced, RevokedRetired
<1>3. CASE UNCHANGED <<client, gone, up, rpc, rcode>> /\ dpc'["ctl"] = dpc["ctl"]
  BY <1>3, Zenon DEF Fenced, Unlinking, Attempting
<1>4. CASE Record(r)
  <2>1. UNCHANGED <<client, up, dpc>> BY <1>4, Zenon DEF Record, sessVars, envVars, dialVars
  <2>2. CASE rcode[r] = 401
    <3>1. r = "event" BY <1>0, <2>2 DEF Told
    <3>2. ~Superseded(401) BY DEF Superseded
    <3>3. rpc'["event"] = "write" /\ rcode'["event"] = 401
      BY <1>0, <1>4, <2>2, <3>1, <3>2 DEF Record
    <3> QED BY <3>3, Zenon DEF Fenced, Unlinking
  <2>3. CASE rcode[r] # 401
    <3>1. gone' = gone BY <1>4, <2>3, Zenon DEF Record
    <3>2. CASE r = "event"
      <4>1. ~Unlinking BY <1>4, <2>3, <3>2, Zenon DEF Unlinking
      <4> QED BY <2>1, <3>1, <4>1, Zenon DEF Fenced, Attempting
    <3>3. CASE r = "hook"
      <4>1. rpc'["event"] = rpc["event"] /\ rcode'["event"] = rcode["event"]
        BY <1>0, <1>4, <3>3, Zenon DEF Record
      <4> QED BY <2>1, <3>1, <4>1, FencedFrame, Zenon DEF Attempting
    <3> QED BY <1>0, <3>2, <3>3
  <2> QED BY <2>2, <2>3
<1>5. CASE Write(r, ok)
  <2>1. CASE rcode[r] = 405 BY <1>0, <1>1, <1>5, <2>1 DEF Write, Down
  <2>2. CASE rcode[r] # 405
    <3>1. UNCHANGED <<client, gone, up, dpc>>
      BY <1>5, <2>2, Zenon DEF Write, sessVars, envVars, dialVars, hist
    <3>2. CASE r = "event"
      <4>1. Unlinking => Unlinking' BY <1>0, <1>5, <2>2, <3>2 DEF Write, Unlinking
      <4> QED BY <3>1, <4>1, Zenon DEF Fenced, Attempting
    <3>3. CASE r = "hook"
      <4>1. rpc'["event"] = rpc["event"] /\ rcode'["event"] = rcode["event"]
        BY <1>0, <1>5, <2>2, <3>3 DEF Write
      <4> QED BY <3>1, <4>1, FencedFrame, Zenon DEF Attempting
    <3> QED BY <1>0, <3>2, <3>3
  <2> QED BY <2>1, <2>2
<1>6. CASE Refused(r, c)
  <2>1. UNCHANGED <<client, gone, up, dpc>> BY <1>6, Zenon DEF Refused, dialVars, envVars, hist
  <2>2. CASE r = "event"
    <3>1. ~Unlinking BY <1>6, <2>2 DEF Refused, Unlinking
    <3> QED BY <2>1, <3>1, Zenon DEF Fenced, Attempting
  <2>3. CASE r = "hook"
    <3>1. rpc'["event"] = rpc["event"] /\ rcode'["event"] = rcode["event"]
      BY <1>0, <1>6, <2>3 DEF Refused
    <3> QED BY <2>1, <3>1, FencedFrame, Zenon DEF Attempting
  <2> QED BY <1>0, <2>2, <2>3
<1>7. CASE Park(r)
  <2>1. CASE Attempting BY <1>0, <1>1, <1>7, <2>1 DEF Park
  <2>2. CASE ~Attempting
    <3>1. dpc' = dpc BY <1>7, <2>2, Zenon DEF Park, dialVars
    <3> QED BY <2>2, <3>1, Zenon DEF Fenced, Attempting
  <2> QED BY <2>1, <2>2
<1>8. CASE Connected(ok)
  <2>1. ~retired' BY <1>8, Zenon DEF Connected
  <2> QED BY <1>2, <2>1
<1>9. CASE Disconnected \/ LoopStart \/ Tick
  <2>1. UNCHANGED <<client, gone, up, rpc, rcode>> /\ dpc'["ctl"] = dpc["ctl"]
    BY <1>0, <1>9, Zenon DEF Disconnected, LoopStart, Tick, recVars, dialVars, sessVars, envVars, hist
  <2> QED BY <1>3, <2>1
<1>10. CASE Snapshot(d) \/ Retry(d, ok) \/ Decide(d) \/ Dial(d)
  <2>1. UNCHANGED <<client, gone, up, rpc, rcode>>
    BY <1>10, Zenon DEF Snapshot, Retry, Decide, Dial, recVars, sessVars, envVars, hist
  <2>2. dpc'["ctl"] = dpc["ctl"] \/ dpc["ctl"] \in {"snap", "retry", "decide", "dial"}
    BY <1>0, <1>10, Zenon DEF Snapshot, Retry, Decide, Dial
  <2>3. Attempting' => Attempting BY <2>2 DEF Attempting
  <2> QED BY <2>1, <2>3, FencedFrame, Zenon
<1>11. CASE AttemptFailed(ok) \/ PairSuccess \/ Clean
  <2>1. dpc'["ctl"] \in {"wait", "begin", "clean", "delete"}
    BY <1>0, <1>11 DEF AttemptFailed, PairSuccess, Clean, CleanupFailed
  <2> QED BY <1>1, <2>1, Zenon
<1>12. CASE \E device : Install(device)
  <2>1. ~retired' BY <1>12 DEF Install
  <2> QED BY <1>2, <2>1
<1>13. CASE Begin
  <2>1. CASE Paired \/ Unlinked(mem)
    <3>1. dpc'["ctl"] \in {"wait", "clean"} BY <1>0, <1>13, <2>1, Zenon DEF Begin
    <3> QED BY <1>1, <3>1, Zenon
  <2>2. CASE ~(Paired \/ Unlinked(mem)) BY <1>12, <1>13, <2>2 DEF Begin
  <2> QED BY <2>1, <2>2
<1>14. CASE CleanupFailed
  <2>1. dpc'["ctl"] \in {"wait", "clean"} BY <1>0, <1>14, Zenon DEF CleanupFailed
  <2> QED BY <1>1, <2>1
<1>15. CASE Delete(ok) BY <1>0, <1>1, <1>14, <1>15, DeleteCases
<1>16. CASE Publish(ok) BY <1>12, <1>14, <1>16, PublishCases, Zenon
<1>17. CASE OperatorRestart(ok)
  <2>1. dpc'["ctl"] = "wait" \/ dpc' = dpc BY <1>0, <1>17, OperatorCases, Zenon
  <2>2. UNCHANGED <<client, gone, up, rpc, rcode>> BY <1>17, OperatorCases, Zenon DEF recVars, envVars
  <2> QED BY <1>1, <1>3, <2>1, <2>2, Zenon
<1>18. CASE Crash BY <1>0, <1>1, <1>18 DEF Crash, Down
<1>19. CASE Restart(b)
  <2>1. dpc'["ctl"] = "wait" \/ ~retired' BY <1>0, <1>19, Zenon DEF Restart
  <2> QED BY <1>1, <1>2, <2>1
<1> QED
  BY <1>4, <1>5, <1>6, <1>7, <1>8, <1>9, <1>10, <1>11, <1>13, <1>15, <1>16, <1>17, <1>18, <1>19
  DEF MarkerStep, OtherStep
-----------------------------------------------------------------------------
(* The dial gate *)

LEMMA SameRestriction ==
  ASSUME NEW p, NEW q, Restriction(p) = Restriction(q)
  PROVE  /\ p.kind = q.kind /\ p.exp = q.exp /\ p.build = q.build
         /\ Restricts(p) <=> Restricts(q)
  BY DEF Restriction, Restricts

LEMMA BanStopped ==
  ASSUME TypeOK, BanKnown, up, Down, NEW durable \in BOOLEAN, Kept(durable),
         durable /\ Restricts(mem) => Restriction(file') = Restriction(mem)
  PROVE  BanKnown'
<1>1. up' = FALSE BY DEF Down
<1>2. CASE durable
  <2>1. ban' = ban BY <1>2 DEF Kept
  <2>2. Restricts(ban) => Restriction(mem) = Restriction(ban) /\ Restricts(mem)
    BY SameRestriction DEF BanKnown
  <2> QED BY <1>1, <1>2, <2>1, <2>2 DEF BanKnown
<1>3. CASE ~durable
  <2>1. ban' = Nil BY <1>3 DEF Kept
  <2> QED BY <2>1, NilFacts DEF BanKnown
<1> QED BY <1>2, <1>3

LEMMA BanRecorded ==
  ASSUME TypeOK, client \in 0..MaxDev, Told, BanKnown, NEW r \in Recorders, Record(r)
  PROVE  BanKnown'
<1>0. up /\ up' /\ rcode[r] \in Codes BY DEF Record, envVars, TypeOK
<1>1. PICK k \in Codes : k = rcode[r] BY <1>0
<1>2. CASE Restricts(Classify(k))
  <2>0. k \in {402, 403, 405} BY <1>2, ClassifyFacts DEF TypeOK, Restricts
  <2>1. r = "event" BY <1>1, <2>0 DEF Told, Recorders
  <2>2. ban' = NextProblem(k) /\ mem' = NextProblem(k) BY <1>1, <1>2, <2>1 DEF Record, Superseded
  <2> QED BY <1>0, <2>2 DEF BanKnown
<1>3. CASE ~Restricts(Classify(k))
  <2>1. ban' = ban BY <1>1, <1>3 DEF Record
  <2>2. CASE mem' = mem BY <1>0, <2>1, <2>2 DEF BanKnown
  <2>3. CASE mem' # mem
    <3>1. mem' = NextProblem(k) /\ ~Superseded(k) BY <1>1, <2>3 DEF Record
    <3>2. CASE k = 401
      <4>1. Restricts(mem) => Restriction(mem') = Restriction(mem) BY <3>1, <3>2, NextRestriction
      <4>2. Restricts(ban) => Restriction(mem) = Restriction(ban) /\ Restricts(mem)
        BY <1>0, SameRestriction DEF BanKnown
      <4> QED BY <1>0, <2>1, <4>1, <4>2 DEF BanKnown
    <3>3. CASE k # 401
      <4>1. ~Restricts(mem) BY <1>3, <3>1, <3>3 DEF Superseded
      <4>2. ~Restricts(ban) BY <1>0, <4>1, SameRestriction DEF BanKnown
      <4> QED BY <2>1, <4>2 DEF BanKnown
    <3> QED BY <3>2, <3>3
  <2> QED BY <2>2, <2>3
<1> QED BY <1>2, <1>3

LEMMA BanKept ==
  ASSUME TypeOK, DiskAgrees, client \in 0..MaxDev, Told, BanKnown,
         NEW r \in Recorders, NEW c \in Codes, NEW ok \in BOOLEAN, NEW d \in Dialers,
         NEW b \in {build, build + 1},
         MarkerStep(r, ok, d, b) \/ OtherStep(r, c, ok, d)
  PROVE  BanKnown'
<1>0. mem \in Problem /\ file \in Problem BY DEF TypeOK
<1>1. CASE ban' = Nil BY <1>1, NilFacts DEF BanKnown
<1>2. CASE up /\ up' /\ ban' = ban /\ Restriction(mem') = Restriction(mem) BY <1>2 DEF BanKnown
<1>3. CASE Record(r) BY <1>3, BanRecorded
<1>4. CASE Write(r, ok)
  <2>1. up /\ (ok => file' = Unversioned(mem)) BY <1>4 DEF Write
  <2>2. CASE rcode[r] = 405
    <3>1. Restriction(Unversioned(mem)) = Restriction(mem) BY <1>0, UnversionedFacts DEF Alike
    <3> QED BY <1>4, <2>1, <2>2, <3>1, BanStopped DEF Write
  <2>3. CASE rcode[r] # 405 BY <1>2, <1>4, <2>1, <2>3 DEF Write, envVars, hist
  <2> QED BY <2>2, <2>3
<1>5. CASE Connected(ok)
  <2>1. ban' = Nil \/ (up /\ up' /\ UNCHANGED <<mem, ban>>) BY <1>5 DEF Connected, ClearSnapshot, envVars
  <2> QED BY <1>1, <1>2, <2>1
<1>6. CASE OperatorRestart(ok)
  <2>1. up /\ up' BY <1>6 DEF OperatorRestart, envVars
  <2>2. ban' = Nil \/ UNCHANGED <<mem, ban>> BY <1>6, OperatorCases, Zenon
  <2> QED BY <1>1, <1>2, <2>1, <2>2
<1>7. CASE Retry(d, ok) BY <1>2, <1>7 DEF Retry, envVars, hist
<1>8. CASE Publish(ok)
  <2>1. up /\ up' /\ ban' = ban BY <1>8 DEF Publish, envVars, hist
  <2>2. mem' = mem \/ (mem = expected /\ mem' = Removed) BY <1>8, PublishCases, Zenon
  <2>3. Restriction(Removed) = Restriction(expected) BY RemovedFacts
  <2> QED BY <1>2, <2>1, <2>2, <2>3
<1>9. CASE Crash
  <2>1. up /\ Down /\ Kept(Durable) /\ file' = file BY <1>9 DEF Crash
  <2>2. Durable \in BOOLEAN BY DEF Durable
  <2>3. Durable /\ Restricts(mem) => Restriction(file') = Restriction(mem) BY <2>1 DEF DiskAgrees
  <2> QED BY <2>1, <2>2, <2>3, BanStopped
<1>10. CASE Restart(b)
  <2>1. ~up /\ up' /\ mem' = Loaded(b) BY <1>10 DEF Restart, Loaded
  <2>2. Restriction(Loaded(b)) = Restriction(Saved(b)) BY LoadedFacts DEF Alike
  <2>3. CASE ban.kind = "client_outdated" /\ ban.build # b BY <1>1, <1>10, <2>3 DEF Restart
  <2>4. CASE ~(ban.kind = "client_outdated" /\ ban.build # b)
    <3>1. ban' = ban BY <1>10, <2>4 DEF Restart
    <3>2. CASE Restricts(ban)
      <4>1. Restriction(file) = Restriction(ban) BY <2>1, <3>2 DEF BanKnown
      <4>2. Saved(b) = file BY <1>0, <2>4, <4>1, SavedFacts, SameRestriction
      <4> QED BY <2>1, <2>2, <3>1, <4>1, <4>2 DEF BanKnown
    <3>3. CASE ~Restricts(ban) BY <3>1, <3>3 DEF BanKnown
    <3> QED BY <3>2, <3>3
  <2> QED BY <2>3, <2>4
<1>11. CASE OtherStep(r, c, ok, d)
  <2>1. UNCHANGED <<mem, file, up, ban>> BY <1>11, OtherFrame
  <2> QED BY <2>1 DEF BanKnown
<1> QED BY <1>3, <1>4, <1>5, <1>6, <1>7, <1>8, <1>9, <1>10, <1>11 DEF MarkerStep

\* A ban that has ended does not begin again.
LEMMA Ended ==
  ASSUME NEW p \in Problem, NEW t \in Nat, NEW u \in Nat, t <= u, ~RestrictsAt(p, t)
  PROVE  ~RestrictsAt(p, u)
  BY DEF RestrictsAt, Restricts, Problem

\* An open gate on a problem with the restriction of another.
LEMMA GateFacts ==
  ASSUME NEW p \in Problem, NEW q \in Problem, NEW park, now \in Nat,
         Restricts(q) => Restriction(p) = Restriction(q), GateOpen(p, park)
  PROVE  ~RestrictsAt(q, now)
<1>1. SUFFICES ASSUME Restricts(q) PROVE ~RestrictsAt(q, now) BY DEF RestrictsAt
<1>2. p.kind = q.kind /\ p.exp = q.exp BY <1>1, SameRestriction
<1> QED BY <1>1, <1>2 DEF GateOpen, RestrictsAt, Restricts, Problem

LEMMA GateKept ==
  ASSUME TypeOK, BanKnown, GateHeld,
         NEW r \in Recorders, NEW c \in Codes, NEW ok \in BOOLEAN, NEW d \in Dialers,
         NEW b \in {build, build + 1},
         MarkerStep(r, ok, d, b) \/ OtherStep(r, c, ok, d)
  PROVE  GateHeld'
<1>0. /\ "ctl" \in Dialers /\ "loop" \in Dialers /\ dpc \in [Dialers -> Stages]
      /\ snap \in [Dialers -> Problem] /\ seen \in [Dialers -> Problem]
      /\ mem \in Problem /\ ban \in Problem /\ now \in Nat
  BY Zenon DEF Dialers, TypeOK
<1> SUFFICES ASSUME NEW e \in Dialers
             PROVE  /\ dpc'[e] = "dial" => ~RestrictsAt(seen'[e], now')
                    /\ dpc'[e] \in {"retry", "decide"} /\ Restricts(seen'[e])
                         => Restriction(snap'[e]) = Restriction(seen'[e])
  BY DEF GateHeld
<1>1. CASE dpc'[e] \notin {"dial", "retry", "decide"} BY <1>1, Zenon
<1>2. CASE dpc'[e] = dpc[e] /\ snap'[e] = snap[e] /\ seen'[e] = seen[e] /\ now' = now BY <1>2, Zenon DEF GateHeld
<1>3. CASE Snapshot(d)
  <2>1. up /\ now' = now BY <1>3, Zenon DEF Snapshot, envVars
  <2>2. CASE e # d BY <1>0, <1>2, <1>3, <2>1, <2>2 DEF Snapshot
  <2>3. CASE e = d
    <3>1. seen'[e] = ban /\ (Restricts(ban) => Restriction(mem) = Restriction(ban))
      BY <1>0, <1>3, <2>1, <2>3 DEF Snapshot, BanKnown
    <3>2. CASE dpc' = [dpc EXCEPT ![d] = "retry"] /\ snap' = [snap EXCEPT ![d] = mem]
      BY <1>0, <2>3, <3>1, <3>2, Zenon
    <3>3. CASE dpc' = [dpc EXCEPT ![d] = "dial"] /\ GateOpen(mem, parked)
      <4>1. ~RestrictsAt(ban, now) BY <1>0, <3>1, <3>3, GateFacts
      <4> QED BY <1>0, <2>1, <2>3, <3>1, <3>3, <4>1
    <3> QED BY <1>3, <3>2, <3>3 DEF Snapshot
  <2> QED BY <2>2, <2>3
<1>4. CASE Decide(d)
  <2>1. now' = now /\ seen' = seen BY <1>4 DEF Decide, envVars
  <2>2. CASE e # d BY <1>0, <1>2, <1>4, <2>1, <2>2 DEF Decide
  <2>3. CASE e = d
    <3>1. CASE GateOpen(snap[d], snapParked[d])
      <4>1. Restricts(seen[d]) => Restriction(snap[d]) = Restriction(seen[d])
        BY <1>4, Zenon DEF Decide, GateHeld
      <4>2. ~RestrictsAt(seen[d], now) BY <1>0, <3>1, <4>1, GateFacts
      <4>3. dpc'[e] = "dial" BY <1>0, <1>4, <2>3, <3>1 DEF Decide
      <4> QED BY <2>1, <2>3, <4>2, <4>3, Zenon
    <3>2. CASE ~GateOpen(snap[d], snapParked[d]) BY <1>0, <1>1, <1>4, <2>3, <3>2 DEF Decide
    <3> QED BY <3>1, <3>2, Zenon
  <2> QED BY <2>2, <2>3
<1>5. CASE Retry(d, ok)
  <2>1. now' = now /\ seen' = seen /\ snap' = snap /\ dpc[d] = "retry" /\ dpc' = [dpc EXCEPT ![d] = "decide"]
    BY <1>5 DEF Retry, envVars
  <2>2. CASE e # d BY <1>0, <1>2, <2>1, <2>2
  <2>3. CASE e = d BY <1>0, <2>1, <2>3 DEF GateHeld
  <2> QED BY <2>2, <2>3, Zenon
<1>6. CASE Dial(d)
  <2>1. CASE e # d BY <1>0, <1>2, <1>6, <2>1, Zenon DEF Dial, envVars
  <2>2. CASE e = d BY <1>0, <1>1, <1>6, <2>2 DEF Dial
  <2> QED BY <2>1, <2>2
<1>7. CASE Tick
  <2>1. now' = now + 1 /\ UNCHANGED <<dpc, snap, seen>> BY <1>7, Zenon DEF Tick, dialVars
  <2>2. dpc[e] = "dial" => ~RestrictsAt(seen[e], now + 1)
    <3>1. seen[e] \in Problem /\ now + 1 \in Nat /\ now <= now + 1 BY <1>0
    <3> QED BY <1>0, <3>1, Ended DEF GateHeld
  <2> QED BY <2>1, <2>2, Zenon DEF GateHeld
<1>8. CASE Down BY <1>1, <1>8 DEF Down
<1>9. CASE Park(r)
  <2>1. now' = now BY <1>9, Zenon DEF Park, envVars
  <2>2. CASE e = "ctl" /\ Attempting BY <1>0, <1>1, <1>9, <2>2, Zenon DEF Park
  <2>3. CASE e # "ctl" \/ ~Attempting BY <1>0, <1>2, <1>9, <2>1, <2>3 DEF Park, dialVars
  <2> QED BY <2>2, <2>3, Zenon
<1>10. CASE OperatorRestart(ok)
  <2>1. now' = now BY <1>10 DEF OperatorRestart, envVars
  <2>2. CASE UNCHANGED <<dpc, snap, seen>> BY <1>2, <2>1, <2>2, Zenon
  <2>3. CASE /\ dpc' = [dpc EXCEPT !["ctl"] = "wait"] /\ seen' = [seen EXCEPT !["ctl"] = Nil]
             /\ snap' = [snap EXCEPT !["ctl"] = Nil]
    <3>1. CASE e = "ctl" BY <1>0, <1>1, <2>3, <3>1
    <3>2. CASE e # "ctl" BY <1>0, <1>2, <2>1, <2>3, <3>2, Zenon
    <3> QED BY <3>1, <3>2, Zenon
  <2> QED BY <1>10, <2>2, <2>3, OperatorCases, Zenon
<1>11. CASE UNCHANGED <<snap, seen, now>> /\ \E k \in Dialers, w \in Stages \ {"dial", "retry", "decide"} :
              dpc' = [dpc EXCEPT ![k] = w]
  <2>1. PICK k \in Dialers, w \in Stages \ {"dial", "retry", "decide"} : dpc' = [dpc EXCEPT ![k] = w]
    BY <1>11, Zenon
  <2>2. CASE e = k BY <1>0, <1>1, <2>1, <2>2
  <2>3. CASE e # k BY <1>0, <1>2, <1>11, <2>1, <2>3
  <2> QED BY <2>2, <2>3
<1>12. CASE Record(r) \/ Connected(ok) BY <1>2, <1>12, Zenon DEF Record, Connected, dialVars, envVars
<1>13. CASE Refused(r, c) \/ Disconnected BY <1>2, <1>13, Zenon DEF Refused, Disconnected, dialVars, envVars
<1>14. CASE Write(r, ok)
  <2>1. CASE rcode[r] = 405 BY <1>8, <1>14, <2>1, Zenon DEF Write
  <2>2. CASE rcode[r] # 405 BY <1>2, <1>14, <2>2 DEF Write, dialVars, envVars
  <2> QED BY <2>1, <2>2, Zenon
<1>15. CASE Crash BY <1>8, <1>15, Zenon DEF Crash
<1>16. CASE AttemptFailed(ok) \/ LoopStart \/ PairSuccess
  <2>1. UNCHANGED <<snap, seen, now>> BY <1>16 DEF AttemptFailed, LoopStart, PairSuccess, envVars
  <2> QED BY <1>0, <1>11, <1>16, <2>1, Zenon DEF AttemptFailed, LoopStart, PairSuccess, Stages
<1>17. CASE Begin \/ Clean
  <2>1. UNCHANGED <<snap, seen, now>> BY <1>17, Zenon DEF Begin, Clean, envVars
  <2>2. dpc'[e] = dpc[e] \/ dpc'[e] \notin {"dial", "retry", "decide"}
    BY <1>0, <1>17 DEF Begin, Clean, Install, CleanupFailed
  <2> QED BY <1>1, <1>2, <2>1, <2>2, Zenon
<1>18. CASE Delete(ok) \/ Publish(ok)
  <2>1. UNCHANGED <<snap, seen, now>> BY <1>18 DEF Delete, Publish, envVars
  <2>2. dpc'[e] = dpc[e] \/ dpc'[e] \notin {"dial", "retry", "decide"}
    BY <1>0, <1>18, DeleteCases, PublishCases, Zenon DEF Install, CleanupFailed
  <2> QED BY <1>1, <1>2, <2>1, <2>2, Zenon
<1>19. CASE Restart(b)
  <2>1. UNCHANGED <<snap, seen, now>> BY <1>19 DEF Restart
  <2>2. dpc'[e] = dpc[e] \/ dpc'[e] \notin {"dial", "retry", "decide"} BY <1>0, <1>19 DEF Restart
  <2> QED BY <1>1, <1>2, <2>1, <2>2, Zenon
<1> QED
  BY <1>3, <1>4, <1>5, <1>6, <1>7, <1>9, <1>10, <1>12, <1>13, <1>14, <1>15, <1>16, <1>17, <1>18, <1>19, Zenon
  DEF MarkerStep, OtherStep
-----------------------------------------------------------------------------
(* The theorems *)

LEMMA InitInv == ASSUME Init PROVE IInv
<1>0. mem = Nil /\ file \in {Nil, Legacy} /\ ban = Nil /\ gone = {} /\ expected = Nil /\ up = FALSE BY DEF Init
<1>1. TypeOK
  <2>1. mem \in Problem /\ file \in Problem /\ ban \in Problem /\ expected \in Problem
    BY <1>0, NilFacts, LegacyFacts
  <2>2. snap \in [Dialers -> Problem] /\ seen \in [Dialers -> Problem] BY NilFacts DEF Init
  <2>3. dpc \in [Dialers -> Stages] BY DEF Init, Stages
  <2>4. rpc \in [Recorders -> {"idle", "record", "write", "park"}] /\ rcode \in [Recorders -> Codes]
    BY DEF Init, Codes
  <2> QED BY <2>1, <2>2, <2>3, <2>4, Zenon DEF Init, TypeOK
<1>2. DiskAgrees BY <1>0 DEF DiskAgrees
<1>3. Linked
  <2>1. nDev \in {0, 1} /\ devices = 1..nDev /\ client = NoDevice /\ pick = NoDevice BY DEF Init
  <2>2. nDev \in 0..MaxDev BY <2>1, ProblemAssumption
  <2>3. mem.dev = NoDevice /\ file.dev = NoDevice /\ expected.dev = NoDevice BY <1>0, NilFacts, LegacyFacts
  <2> QED BY <1>0, <2>1, <2>2, <2>3 DEF Linked, NoDevice
<1>4. RemovalTrue BY <1>0, NilFacts, LegacyFacts DEF RemovalTrue
<1>5. Cleaned BY DEF Init, Cleaned, Dialers
<1>6. Told BY DEF Init, Told, Recorders
<1>7. Linking BY DEF Init, Linking, Dialers
<1>8. Revoking BY <1>0 DEF Revoking, Left
<1>9. RevokedRetired BY <1>0 DEF RevokedRetired
<1>10. BanKnown BY <1>0, NilFacts DEF BanKnown
<1>11. GateHeld BY DEF Init, GateHeld
<1>12. Fenced BY <1>0 DEF Fenced
<1> QED BY <1>1, <1>2, <1>3, <1>4, <1>5, <1>6, <1>7, <1>8, <1>9, <1>10, <1>11, <1>12 DEF IInv

LEMMA StepInv == ASSUME IInv, [Next]_vars PROVE IInv'
<1>1. CASE Next
  <2>1. PICK r \in Recorders, c \in Codes, ok \in BOOLEAN, d \in Dialers, b \in {build, build + 1} :
          MarkerStep(r, ok, d, b) \/ OtherStep(r, c, ok, d)
    BY <1>1, Steps
  <2>2. /\ TypeOK /\ DiskAgrees /\ Linked /\ RemovalTrue /\ Cleaned
        /\ Told /\ Linking /\ Revoking /\ RevokedRetired /\ BanKnown /\ GateHeld /\ Fenced
    BY DEF IInv
  <2>3. client \in 0..MaxDev BY <2>2, ProblemAssumption DEF Linked
  <2>4. TypeOK' BY <2>1, <2>2, <2>3, MarkerTypes, OtherTypes
  <2>5. DiskAgrees' BY <2>1, <2>2, <2>3, DiskKept
  <2>6. Linked' BY <2>1, <2>2, MarkerLinked, OtherLinked
  <2>7. RemovalTrue' BY <2>1, <2>2, RemovalKept
  <2>8. Cleaned' BY <2>1, <2>2, CleanedKept
  <2>9. Told' BY <2>1, <2>2, ToldKept
  <2>10. Linking' BY <2>1, <2>2, LinkingKept
  <2>11. Revoking' /\ RevokedRetired' BY <2>1, <2>2, RevokingKept
  <2>12. BanKnown' BY <2>1, <2>2, <2>3, BanKept
  <2>13. GateHeld' BY <2>1, <2>2, GateKept, Zenon
  <2>14. Fenced' BY <2>1, <2>2, <2>11, FencedKept, Zenon
  <2> QED BY <2>4, <2>5, <2>6, <2>7, <2>8, <2>9, <2>10, <2>11, <2>12, <2>13, <2>14 DEF IInv
<1>2. CASE UNCHANGED vars
  <2> USE <1>2 DEF vars, memVars, recVars, dialVars, ctlVars, sessVars, envVars, hist
  <2>1. TypeOK' /\ DiskAgrees' BY Zenon DEF IInv, TypeOK, DiskAgrees, Durable
  <2>2. Linked' /\ RemovalTrue' /\ Cleaned' BY Zenon DEF IInv, Linked, RemovalTrue, Cleaned
  <2>3. Told' /\ Linking' BY Zenon DEF IInv, Told, Linking, Attempting
  <2>4. Revoking' /\ RevokedRetired' BY DEF IInv, Revoking, Left, RevokedRetired
  <2>5. BanKnown' /\ GateHeld' BY Zenon DEF IInv, BanKnown, GateHeld
  <2>6. Fenced' BY Zenon DEF IInv, Fenced, Unlinking, Attempting
  <2> QED BY <2>1, <2>2, <2>3, <2>4, <2>5, <2>6, Zenon DEF IInv
<1> QED BY <1>1, <1>2

\* Only a dial turns the connection from down to dialling.
LEMMA DialStep ==
  ASSUME TypeOK, Next, conn = "off", conn' = "dialing"
  PROVE  \E e \in Dialers : Dial(e)
<1>1. PICK r \in Recorders, c \in Codes, ok \in BOOLEAN, d \in Dialers, b \in {build, build + 1} :
        MarkerStep(r, ok, d, b) \/ OtherStep(r, c, ok, d)
  BY Steps, Zenon
<1>2. ~(Record(r) \/ Refused(r, c) \/ Park(r)) BY Zenon DEF Record, Refused, Park, sessVars
<1>3. ~Write(r, ok)
  <2>1. CASE rcode[r] = 405 BY <2>1, Zenon DEF Write, Down
  <2>2. CASE rcode[r] # 405 BY <2>2, Zenon DEF Write, sessVars
  <2> QED BY <2>1, <2>2
<1>4. ~(Connected(ok) \/ AttemptFailed(ok) \/ Disconnected \/ LoopStart \/ PairSuccess)
  BY Zenon DEF Connected, AttemptFailed, Disconnected, LoopStart, PairSuccess, sessVars
<1>5. ~(Snapshot(d) \/ Retry(d, ok) \/ Decide(d)) BY Zenon DEF Snapshot, Retry, Decide, sessVars
<1>6. ~(Begin \/ Clean \/ Delete(ok) \/ Tick) BY Zenon DEF Begin, Clean, Delete, Tick, sessVars
<1>7. ~Publish(ok) BY PublishCases, Zenon
<1>8. ~OperatorRestart(ok) BY Zenon DEF OperatorRestart
<1>9. ~(Crash \/ Restart(b)) BY Zenon DEF Crash, Restart, Down
<1> QED BY <1>1, <1>2, <1>3, <1>4, <1>5, <1>6, <1>7, <1>8, <1>9, Zenon DEF MarkerStep, OtherStep

LEMMA Invariant == Spec => []IInv
<1>1. Init => IInv BY InitInv
<1>2. IInv /\ [Next]_vars => IInv' BY StepInv
<1> QED BY <1>1, <1>2, PTL DEF Spec

\* A restart never forgets a ban or an unlink that had been recorded without an
\* error: for any number of refusals, failing writes, crashes and devices, disk
\* and memory agree whenever no write is under way and the last one succeeded
\* (recordConnectionProblemStateIf, persistConnectionSnapshot, clearConnectionSnapshot).
THEOREM BanSurvives == Spec => []DiskAgrees
<1>1. IInv => DiskAgrees BY DEF IInv
<1> QED BY <1>1, Invariant, PTL

\* The revocation of a device stands: a client with its keys is retired, the only
\* connection started with them is that of an attempt the LoggedOut handler is about to
\* cancel, and a marker that says they are removed tells the truth (handleEvent,
\* unlinkedDevice, prepareSessionDevice, runBridge).
THEOREM UnlinkStands == Spec => UnlinkHonoured
<1>1. IInv => RevokedRetired /\ RemovalTrue BY DEF IInv
<1>2. IInv /\ [Next]_vars =>
        [\A d \in Dialers :
           dpc[d] = "dial" /\ dpc'[d] # "dial" /\ conn = "off" /\ conn' = "dialing" /\ client \in gone
             => d = "ctl" /\ Unlinking]_vars
  <2> SUFFICES ASSUME IInv, Next, NEW d \in Dialers, dpc[d] = "dial", dpc'[d] # "dial",
                      conn = "off", conn' = "dialing", client \in gone
               PROVE  d = "ctl" /\ Unlinking
    BY Zenon
  <2>1. PICK e \in Dialers : Dial(e) BY DialStep, Zenon DEF IInv
  <2>2. up /\ retired BY <2>1, Zenon DEF Dial, IInv, RevokedRetired
  <2>3. e = "ctl"
    <3>1. ~Refuses(e) BY <2>1 DEF Dial
    <3> QED BY <2>1, <2>2, <3>1, Zenon DEF Refuses, Paired, Dialers
  <2>4. dpc["ctl"] = "dial" BY <2>1, <2>3, Zenon DEF Dial
  <2>5. Unlinking BY <2>2, <2>4, Zenon DEF IInv, Fenced, Attempting
  <2>6. d = e
    <3>1. dpc \in [Dialers -> Stages] BY DEF IInv, TypeOK
    <3> QED BY <2>1, <3>1, Zenon DEF Dial
  <2> QED BY <2>3, <2>5, <2>6
<1> QED BY <1>1, <1>2, Invariant, PTL DEF Spec, UnlinkHonoured

\* No dialer connects against a restriction in force that had been told when it
\* looked (waitConnectionAllowedContext, in both of its users).
THEOREM NoDialAgainstBan == Spec => BanHonoured
<1>1. IInv /\ [Next]_vars =>
        [\A d \in Dialers :
           dpc[d] = "dial" /\ dpc'[d] # "dial" /\ conn = "off" /\ conn' = "dialing" /\ RestrictsAt(ban, now)
             => seen[d] # ban]_vars
  BY Zenon DEF IInv, GateHeld
<1> QED BY <1>1, Invariant, PTL DEF Spec, BanHonoured
=============================================================================
