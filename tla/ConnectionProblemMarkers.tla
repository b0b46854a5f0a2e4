---------------------- MODULE ConnectionProblemMarkers ----------------------
(***************************************************************************)
(* Types of ConnectionProblem (what its operators make of a problem, what  *)
(* its steps leave alone, that every step keeps the types), and what ties  *)
(* its marker to the session store: disk and memory agree whenever no      *)
(* write is under way, and what a marker says of the removal of a revoked  *)
(* session is true.                                                        *)
(***************************************************************************)
EXTENDS ConnectionProblem, TLAPS

Stages == {"wait", "begin", "clean", "delete", "publish", "snap", "retry", "decide", "dial", "dialed"}

\* The types the argument uses.
TypeOK ==
  /\ mem \in Problem /\ file \in Problem /\ ban \in Problem /\ expected \in Problem
  /\ snap \in [Dialers -> Problem] /\ seen \in [Dialers -> Problem]
  /\ dpc \in [Dialers -> Stages]
  /\ rpc \in [Recorders -> {"idle", "record", "write", "park"}] /\ rcode \in [Recorders -> Codes]
  /\ up \in BOOLEAN /\ failed \in BOOLEAN /\ retired \in BOOLEAN
  /\ now \in Nat /\ build \in Nat /\ nVer \in Nat

\* The device whose removal a marker still asks for.
Pending(p) == {d \in {p.dev} : Unlinked(p) /\ ~p.removed}
-----------------------------------------------------------------------------
(* Problems *)

\* Two problems that differ in identity alone.
Alike(p, q) == Restriction(p) = Restriction(q) /\ Fence(p) = Fence(q)

\* One field changes, the others do not.
LEMMA KindSet ==
  ASSUME NEW p \in Problem, NEW x \in Kinds, NEW q, q = [p EXCEPT !.kind = x]
  PROVE  /\ q \in Problem /\ q.kind = x /\ q.ver = p.ver /\ q.exp = p.exp /\ q.build = p.build
         /\ q.fence = p.fence /\ q.dev = p.dev /\ q.removed = p.removed
  BY DEF Problem

LEMMA VerSet ==
  ASSUME NEW p \in Problem, NEW x \in Nat, NEW q, q = [p EXCEPT !.ver = x]
  PROVE  /\ q \in Problem /\ q.kind = p.kind /\ q.exp = p.exp /\ q.build = p.build
         /\ q.fence = p.fence /\ q.dev = p.dev /\ q.removed = p.removed
  BY DEF Problem

LEMMA ExpSet ==
  ASSUME NEW p \in Problem, NEW x \in Nat, NEW q, q = [p EXCEPT !.exp = x]
  PROVE  /\ q \in Problem /\ q.kind = p.kind /\ q.exp = x /\ q.build = p.build
         /\ q.fence = p.fence /\ q.dev = p.dev /\ q.removed = p.removed
  BY DEF Problem

LEMMA BuildSet ==
  ASSUME NEW p \in Problem, NEW x \in Nat, NEW q, q = [p EXCEPT !.build = x]
  PROVE  /\ q \in Problem /\ q.kind = p.kind /\ q.exp = p.exp /\ q.build = x
         /\ q.fence = p.fence /\ q.dev = p.dev /\ q.removed = p.removed
  BY DEF Problem

LEMMA FenceSet ==
  ASSUME NEW p \in Problem, NEW x \in BOOLEAN, NEW q, q = [p EXCEPT !.fence = x]
  PROVE  /\ q \in Problem /\ q.kind = p.kind /\ q.exp = p.exp /\ q.build = p.build
         /\ q.fence = x /\ q.dev = p.dev /\ q.removed = p.removed
  BY DEF Problem

LEMMA DevSet ==
  ASSUME NEW p \in Problem, NEW x \in 0..MaxDev, NEW q, q = [p EXCEPT !.dev = x]
  PROVE  /\ q \in Problem /\ q.kind = p.kind /\ q.exp = p.exp /\ q.build = p.build
         /\ q.fence = p.fence /\ q.dev = x /\ q.removed = p.removed
  BY DEF Problem

LEMMA RemovedSet ==
  ASSUME NEW p \in Problem, NEW x \in BOOLEAN, NEW q, q = [p EXCEPT !.removed = x]
  PROVE  /\ q \in Problem /\ q.kind = p.kind /\ q.exp = p.exp /\ q.build = p.build
         /\ q.fence = p.fence /\ q.dev = p.dev /\ q.removed = x
  BY DEF Problem

LEMMA NilFacts ==
  /\ Nil \in Problem /\ Nil.kind = "nil" /\ Nil.exp = 0 /\ Nil.build = 0
  /\ Nil.dev = NoDevice /\ Nil.fence = FALSE /\ Nil.removed = FALSE
  /\ ~Restricts(Nil) /\ ~Unlinked(Nil)
  BY ProblemAssumption DEF Nil, Problem, NoDevice, Kinds, Restricts, Unlinked

LEMMA LegacyFacts ==
  /\ Legacy \in Problem /\ Legacy.dev = NoDevice /\ Legacy.removed = FALSE /\ ~Restricts(Legacy)
<1>1. Legacy = [Nil EXCEPT !.kind = "unlinked"] BY DEF Legacy
<1>2. "unlinked" \in Kinds BY DEF Kinds
<1> QED BY <1>1, <1>2, NilFacts, KindSet DEF Restricts

LEMMA AlikeFacts ==
  ASSUME NEW p, NEW q, Alike(p, q)
  PROVE  /\ Restricts(p) <=> Restricts(q)
         /\ Unlinked(p) <=> Unlinked(q)
         /\ p.dev = q.dev /\ p.removed = q.removed
         /\ p.kind = q.kind /\ p.exp = q.exp /\ p.build = q.build
  BY DEF Alike, Restriction, Fence, Restricts, Unlinked

\* A new identity changes nothing else.
LEMMA VersionFacts ==
  ASSUME NEW p \in Problem, NEW v \in Nat
  PROVE  [p EXCEPT !.ver = v] \in Problem /\ Alike([p EXCEPT !.ver = v], p)
  BY DEF Problem, Alike, Restriction, Fence, Unlinked

LEMMA UnversionedFacts ==
  ASSUME NEW p \in Problem
  PROVE  Unversioned(p) \in Problem /\ Alike(Unversioned(p), p)
  BY VersionFacts DEF Unversioned

LEMMA ClassifyFacts ==
  ASSUME NEW c \in Codes, now \in Nat, build \in Nat, nVer \in Nat
  PROVE  /\ Classify(c) \in Problem
         /\ Classify(c).kind = "unlinked" <=> c = 401
         /\ Classify(c).kind \in {"temporarily_banned", "banned", "client_outdated"}
              <=> c \in {402, 403, 405}
<1> DEFINE k == CASE c = 401 -> "unlinked" [] c = 402 -> "temporarily_banned"
                  [] c = 403 -> "banned" [] c = 405 -> "client_outdated" [] OTHER -> "other"
           e == IF c = 402 THEN now + 1 ELSE 0
           u == IF c = 405 THEN build ELSE 0
           p1 == [Nil EXCEPT !.kind = k]
           p2 == [p1 EXCEPT !.exp = e]
           p3 == [p2 EXCEPT !.build = u]
           p4 == [p3 EXCEPT !.ver = nVer + 1]
<1>1. /\ k \in Kinds /\ e \in Nat /\ u \in Nat /\ nVer + 1 \in Nat
      /\ k = "unlinked" <=> c = 401
      /\ k \in {"temporarily_banned", "banned", "client_outdated"} <=> c \in {402, 403, 405}
  BY DEF Kinds, Codes
<1>2. Classify(c) = p4 BY DEF Classify
<1> HIDE DEF k, e, u
<1>3. p1 \in Problem /\ p1.kind = k BY <1>1, NilFacts, KindSet
<1> HIDE DEF p1
<1>4. p2 \in Problem /\ p2.kind = k BY <1>1, <1>3, ExpSet
<1> HIDE DEF p2
<1>5. p3 \in Problem /\ p3.kind = k BY <1>1, <1>4, BuildSet
<1> HIDE DEF p3
<1>6. p4 \in Problem /\ p4.kind = k BY <1>1, <1>5, VerSet
<1> HIDE DEF p4
<1> QED BY <1>1, <1>2, <1>6

\* An unlink is recorded over the restriction it meets, or else over what it says itself.
Raised(p, v, d) == [p EXCEPT !.ver = v, !.fence = TRUE, !.dev = d, !.removed = FALSE]

LEMMA RaisedFacts ==
  ASSUME NEW p \in Problem, NEW v \in Nat, NEW d \in 0..MaxDev, NEW q, q = Raised(p, v, d)
  PROVE  /\ q \in Problem /\ q.kind = p.kind /\ q.exp = p.exp /\ q.build = p.build
         /\ q.fence /\ q.dev = d /\ ~q.removed
<1> DEFINE p1 == [p EXCEPT !.ver = v]
           p2 == [p1 EXCEPT !.fence = TRUE]
           p3 == [p2 EXCEPT !.dev = d]
           p4 == [p3 EXCEPT !.removed = FALSE]
<1>1. q = p4 BY DEF Raised
<1>2. p1 \in Problem /\ p1.kind = p.kind /\ p1.exp = p.exp /\ p1.build = p.build BY VerSet
<1> HIDE DEF p1
<1>3. p2 \in Problem /\ p2.kind = p.kind /\ p2.exp = p.exp /\ p2.build = p.build /\ p2.fence
  BY <1>2, Zenon DEF Problem
<1> HIDE DEF p2
<1>4. /\ p3 \in Problem /\ p3.kind = p.kind /\ p3.exp = p.exp /\ p3.build = p.build
      /\ p3.fence /\ p3.dev = d
  BY <1>3, DevSet
<1> HIDE DEF p3
<1>5. /\ p4 \in Problem /\ p4.kind = p.kind /\ p4.exp = p.exp /\ p4.build = p.build
      /\ p4.fence /\ p4.dev = d /\ ~p4.removed
  BY <1>4, Zenon DEF Problem
<1> HIDE DEF p4
<1> QED BY <1>1, <1>5

\* An unlink names the client.
LEMMA NextUnlink ==
  ASSUME TypeOK, client \in 0..MaxDev, NEW c \in Codes, c = 401
  PROVE  /\ NextProblem(c) \in Problem
         /\ Pending(NextProblem(c)) = {client} /\ NextProblem(c).dev = client
         /\ ~NextProblem(c).removed
<1> DEFINE p == IF Restricts(mem) THEN mem ELSE Classify(c)
<1>1. mem \in Problem /\ now \in Nat /\ build \in Nat /\ nVer \in Nat /\ nVer + 1 \in Nat BY DEF TypeOK
<1>2. NextProblem(c) = Raised(p, nVer + 1, client) BY DEF NextProblem, Raised
<1>3. p \in Problem
  <2>1. Classify(c) \in Problem BY <1>1, ClassifyFacts
  <2> QED BY <1>1, <2>1
<1> HIDE DEF p
<1>4. /\ NextProblem(c) \in Problem /\ NextProblem(c).fence
      /\ NextProblem(c).dev = client /\ ~NextProblem(c).removed
  BY <1>1, <1>2, <1>3, RaisedFacts
<1>5. Pending(NextProblem(c)) = {client} BY <1>4 DEF Pending, Unlinked
<1> QED BY <1>4, <1>5

\* It keeps the restriction it meets.
LEMMA NextRestriction ==
  ASSUME TypeOK, client \in 0..MaxDev, NEW c \in Codes, c = 401, Restricts(mem)
  PROVE  Restriction(NextProblem(c)) = Restriction(mem)
<1>1. mem \in Problem /\ nVer + 1 \in Nat BY DEF TypeOK
<1>2. NextProblem(c) = Raised(mem, nVer + 1, client) BY DEF NextProblem, Raised
<1> QED BY <1>1, <1>2, RaisedFacts DEF Restriction

\* Any other problem keeps the fence.
LEMMA NextFence ==
  ASSUME TypeOK, NEW c \in Codes, c # 401
  PROVE  /\ NextProblem(c) \in Problem /\ NextProblem(c).kind = Classify(c).kind
         /\ Fence(NextProblem(c)) = Fence(mem)
<1> DEFINE q  == Classify(c)
           q1 == [q EXCEPT !.fence = Unlinked(mem)]
           q2 == [q1 EXCEPT !.dev = mem.dev]
           q3 == [q2 EXCEPT !.removed = mem.removed]
<1>1. mem \in Problem /\ now \in Nat /\ build \in Nat /\ nVer \in Nat BY DEF TypeOK
<1>2. NextProblem(c) = q3 BY DEF NextProblem
<1>3. q \in Problem /\ q.kind # "unlinked" BY <1>1, ClassifyFacts
<1>4. Unlinked(mem) \in BOOLEAN /\ mem.dev \in 0..MaxDev /\ mem.removed \in BOOLEAN
  BY <1>1 DEF Unlinked, Problem
<1> HIDE DEF q
<1>5. q1 \in Problem /\ q1.kind = q.kind /\ q1.fence = Unlinked(mem) BY <1>3, <1>4, FenceSet
<1> HIDE DEF q1
<1>6. q2 \in Problem /\ q2.kind = q.kind /\ q2.fence = Unlinked(mem) /\ q2.dev = mem.dev
  BY <1>4, <1>5, DevSet
<1> HIDE DEF q2
<1>7. /\ q3 \in Problem /\ q3.kind = q.kind /\ q3.fence = Unlinked(mem)
      /\ q3.dev = mem.dev /\ q3.removed = mem.removed
  BY <1>4, <1>6, RemovedSet
<1> HIDE DEF q3
<1>8. Unlinked(q3) <=> Unlinked(mem) BY <1>3, <1>4, <1>7, Zenon DEF Unlinked
<1>9. Unlinked(q3) \in BOOLEAN BY <1>7 DEF Unlinked, Problem
<1>10. Fence(q3) = Fence(mem) BY <1>4, <1>7, <1>8, <1>9 DEF Fence
<1> QED BY <1>2, <1>7, <1>10 DEF q

LEMMA NextTyped ==
  ASSUME TypeOK, client \in 0..MaxDev, NEW c \in Codes
  PROVE  NextProblem(c) \in Problem
<1>1. CASE c = 401 BY <1>1, NextUnlink
<1>2. CASE c # 401 BY <1>2, NextFence
<1> QED BY <1>1, <1>2

\* An acknowledgement ends the restriction and keeps the fence.
LEMMA AcknowledgedFacts ==
  ASSUME NEW p \in Problem
  PROVE  /\ Acknowledged(p) \in Problem /\ ~Restricts(Acknowledged(p))
         /\ Unlinked(p) <=> Unlinked(Acknowledged(p))
         /\ Unlinked(p) => Acknowledged(p).dev = p.dev /\ Acknowledged(p).removed = p.removed
         /\ ~Unlinked(p) => Acknowledged(p) = Nil
<1>1. CASE Unlinked(p)
  <2> DEFINE p1 == [p EXCEPT !.kind = "unlinked"]
             p2 == [p1 EXCEPT !.exp = 0]
             p3 == [p2 EXCEPT !.build = 0]
  <2>1. Acknowledged(p) = p3 BY <1>1 DEF Acknowledged
  <2>2. "unlinked" \in Kinds /\ 0 \in Nat BY DEF Kinds
  <2>3. p1 \in Problem /\ p1.kind = "unlinked" /\ p1.dev = p.dev /\ p1.removed = p.removed
    BY <2>2, KindSet
  <2> HIDE DEF p1
  <2>4. p2 \in Problem /\ p2.kind = "unlinked" /\ p2.dev = p.dev /\ p2.removed = p.removed
    BY <2>2, <2>3, ExpSet
  <2> HIDE DEF p2
  <2>5. p3 \in Problem /\ p3.kind = "unlinked" /\ p3.dev = p.dev /\ p3.removed = p.removed
    BY <2>2, <2>4, BuildSet
  <2> HIDE DEF p3
  <2> QED BY <1>1, <2>1, <2>5 DEF Restricts, Unlinked
<1>2. CASE ~Unlinked(p) BY <1>2, NilFacts DEF Acknowledged
<1> QED BY <1>1, <1>2

\* What a start reads from the marker: the fence, and the restriction unless another
\* build outgrew it.
LEMMA SavedFacts ==
  ASSUME NEW b, file \in Problem
  PROVE  /\ Saved(b) \in Problem
         /\ Unlinked(file) <=> Unlinked(Saved(b))
         /\ Unlinked(file) => Saved(b).dev = file.dev /\ Saved(b).removed = file.removed
         /\ Saved(b).dev \in {NoDevice, file.dev}
         /\ ~(file.kind = "client_outdated" /\ file.build # b) => Saved(b) = file
  BY AcknowledgedFacts, NilFacts DEF Saved
-----------------------------------------------------------------------------
(* Steps *)

\* The steps that change the problem, in memory or on disk, and the others.
MarkerStep(r, ok, d, b) ==
  \/ Record(r) \/ Write(r, ok) \/ Connected(ok) \/ OperatorRestart(ok)
  \/ Retry(d, ok) \/ Publish(ok) \/ Crash \/ Restart(b)

OtherStep(r, c, ok, d) ==
  \/ Refused(r, c) \/ Park(r) \/ AttemptFailed(ok) \/ Disconnected \/ LoopStart \/ PairSuccess
  \/ Snapshot(d) \/ Decide(d) \/ Dial(d) \/ Begin \/ Clean \/ Delete(ok) \/ Tick

LEMMA Steps ==
  ASSUME Next
  PROVE  \E r \in Recorders, c \in Codes, ok \in BOOLEAN, d \in Dialers, b \in {build, build + 1} :
           MarkerStep(r, ok, d, b) \/ OtherStep(r, c, ok, d)
<1> "event" \in Recorders /\ 0 \in Codes /\ TRUE \in BOOLEAN /\ "ctl" \in Dialers
    /\ build \in {build, build + 1}
  BY DEF Recorders, Codes, Dialers
<1>1. CASE \E r \in Recorders : RecorderStep(r) \/ \E c \in Codes : Refused(r, c)
  BY <1>1, Zenon DEF RecorderStep, MarkerStep, OtherStep
<1>2. CASE \E ok \in BOOLEAN : Connected(ok) \/ OperatorRestart(ok) \/ AttemptFailed(ok)
  BY <1>2 DEF MarkerStep, OtherStep
<1>3. CASE Disconnected \/ LoopStart \/ PairSuccess \/ Tick \/ Crash
  BY <1>3, Zenon DEF MarkerStep, OtherStep
<1>4. CASE \E d \in Dialers : GateStep(d)
  BY <1>4, Zenon DEF GateStep, MarkerStep, OtherStep
<1>5. CASE ControllerStep
  BY <1>5, Zenon DEF ControllerStep, MarkerStep, OtherStep
<1>6. CASE \E b \in {build, build + 1} : Restart(b)
  BY <1>6, Zenon DEF MarkerStep, OtherStep
<1> QED BY <1>1, <1>2, <1>3, <1>4, <1>5, <1>6 DEF Next

LEMMA OtherFrame ==
  ASSUME NEW r, NEW c, NEW ok, NEW d, OtherStep(r, c, ok, d)
  PROVE  UNCHANGED <<mem, file, failed, pmu, up, build, nVer, ban, gone>>
<1>1. CASE Refused(r, c) \/ Park(r)
  BY <1>1 DEF Refused, Park, memVars, envVars, hist
<1>2. CASE AttemptFailed(ok) \/ Disconnected \/ LoopStart \/ PairSuccess
  BY <1>2, Zenon DEF AttemptFailed, Disconnected, LoopStart, PairSuccess, memVars, recVars, envVars, hist
<1>3. CASE Snapshot(d) \/ Decide(d) \/ Dial(d)
  BY <1>3 DEF Snapshot, Decide, Dial, memVars, recVars, envVars, hist
<1>4. CASE Begin \/ Clean \/ Delete(ok)
  BY <1>4 DEF Begin, Clean, Delete, recVars, envVars, hist
<1>5. CASE Tick
  BY <1>5 DEF Tick, memVars, recVars, hist
<1> QED BY <1>1, <1>2, <1>3, <1>4, <1>5 DEF OtherStep
-----------------------------------------------------------------------------
(* Types *)

LEMMA DownTypes ==
  ASSUME TypeOK, Down, file' \in Problem, ban' \in Problem
  PROVE  TypeOK'
<1>1. snap' \in [Dialers -> Problem] /\ seen' \in [Dialers -> Problem] BY NilFacts DEF Down
<1>2. dpc' \in [Dialers -> Stages] BY DEF Down, Stages
<1>3. rpc' \in [Recorders -> {"idle", "record", "write", "park"}] /\ rcode' \in [Recorders -> Codes]
  BY DEF Down, Codes
<1> QED BY <1>1, <1>2, <1>3, NilFacts, Zenon DEF Down, TypeOK

LEMMA InstallTypes ==
  ASSUME TypeOK, NEW device, Install(device)
  PROVE  /\ rpc' \in [Recorders -> {"idle", "record", "write", "park"}] /\ rcode' \in [Recorders -> Codes]
         /\ dpc' \in [Dialers -> Stages] /\ retired' = FALSE
<1>1. dpc' \in [Dialers -> Stages] BY DEF Install, TypeOK, Stages, Dialers
<1>2. rpc' \in [Recorders -> {"idle", "record", "write", "park"}] BY DEF Install, TypeOK, Recorders
<1>3. rcode' \in [Recorders -> Codes] BY DEF Install, TypeOK, Recorders, Codes
<1> QED BY <1>1, <1>2, <1>3 DEF Install

\* What Publish makes of the snapshot it cleaned up.
Removed == IF expected.removed THEN expected
           ELSE [expected EXCEPT !.removed = TRUE, !.ver = nVer + 1]

LEMMA RemovedFacts ==
  ASSUME TypeOK
  PROVE  /\ Removed \in Problem /\ Removed.removed = TRUE /\ Removed.dev = expected.dev
         /\ Restriction(Removed) = Restriction(expected)
         /\ Unlinked(Removed) <=> Unlinked(expected)
<1>1. expected \in Problem /\ nVer \in Nat BY DEF TypeOK
<1>2. CASE expected.removed
  <2>1. expected.removed = TRUE BY <1>1, <1>2 DEF Problem
  <2> QED BY <1>1, <1>2, <2>1 DEF Removed
<1>3. CASE ~expected.removed
  <2> DEFINE q1 == [expected EXCEPT !.removed = TRUE]
             q2 == [q1 EXCEPT !.ver = nVer + 1]
  <2>1. Removed = q2 BY <1>3 DEF Removed
  <2>2. /\ q1 \in Problem /\ q1.kind = expected.kind /\ q1.exp = expected.exp /\ q1.build = expected.build
        /\ q1.fence = expected.fence /\ q1.dev = expected.dev /\ q1.removed = TRUE
    BY <1>1, RemovedSet, Zenon
  <2> HIDE DEF q1
  <2>3. /\ q2 \in Problem /\ q2.kind = expected.kind /\ q2.exp = expected.exp /\ q2.build = expected.build
        /\ q2.fence = expected.fence /\ q2.dev = expected.dev /\ q2.removed = TRUE
    BY <1>1, <2>2, VerSet
  <2> HIDE DEF q2
  <2> QED BY <2>1, <2>3 DEF Restriction, Unlinked
<1> QED BY <1>2, <1>3, Zenon

\* What OperatorRestart leaves of the problem.
Restarted == IF Unlinked(mem) THEN [Acknowledged(mem) EXCEPT !.ver = nVer + 1] ELSE Nil

LEMMA RestartedFacts ==
  ASSUME TypeOK
  PROVE  /\ Restarted \in Problem /\ ~Restricts(Restarted)
         /\ Unlinked(Restarted) <=> Unlinked(mem)
         /\ Unlinked(mem) => Restarted.dev = mem.dev /\ Restarted.removed = mem.removed
         /\ ~Unlinked(mem) => Restarted = Nil
<1>1. mem \in Problem /\ nVer + 1 \in Nat BY DEF TypeOK
<1>2. CASE Unlinked(mem)
  <2>1. Restarted \in Problem /\ Alike(Restarted, Acknowledged(mem))
    BY <1>1, <1>2, AcknowledgedFacts, VersionFacts DEF Restarted
  <2> QED BY <1>1, <1>2, <2>1, AcknowledgedFacts, AlikeFacts
<1>3. CASE ~Unlinked(mem) BY <1>3, NilFacts DEF Restarted
<1> QED BY <1>2, <1>3

\* What a start makes of the marker.
Loaded(b) == IF Saved(b) = Nil THEN Nil ELSE [Saved(b) EXCEPT !.ver = nVer + 1]

LEMMA LoadedFacts ==
  ASSUME TypeOK, NEW b
  PROVE  Loaded(b) \in Problem /\ Alike(Loaded(b), Saved(b))
<1>1. Saved(b) \in Problem /\ nVer + 1 \in Nat BY SavedFacts DEF TypeOK
<1>2. CASE Saved(b) = Nil BY <1>1, <1>2 DEF Loaded, Alike
<1>3. CASE Saved(b) # Nil BY <1>1, <1>3, VersionFacts DEF Loaded
<1> QED BY <1>2, <1>3

LEMMA RecordTypes == ASSUME TypeOK, client \in 0..MaxDev, NEW r \in Recorders, Record(r) PROVE TypeOK'
<1>1. rcode[r] \in Codes BY DEF TypeOK
<1>2. NextProblem(rcode[r]) \in Problem BY <1>1, NextTyped
<1>3. mem' \in Problem /\ ban' \in Problem BY <1>2 DEF Record, TypeOK
<1>4. rpc' \in [Recorders -> {"idle", "record", "write", "park"}] BY DEF Record, TypeOK
<1>5. rcode' \in [Recorders -> Codes] BY <1>1 DEF Record, TypeOK, Codes
<1>6. nVer' \in Nat BY DEF Record, TypeOK
<1> QED BY <1>3, <1>4, <1>5, <1>6 DEF Record, TypeOK, dialVars, ctlVars, sessVars, envVars

LEMMA WriteTypes == ASSUME TypeOK, NEW r \in Recorders, NEW ok \in BOOLEAN, Write(r, ok) PROVE TypeOK'
<1>1. file' \in Problem
  <2>1. Unversioned(mem) \in Problem /\ file \in Problem BY UnversionedFacts DEF TypeOK
  <2> QED BY <2>1 DEF Write
<1>2. CASE rcode[r] = 405
  <2>1. Down /\ Kept(ok) BY <1>2 DEF Write
  <2>2. ban' \in Problem BY <2>1, NilFacts DEF Kept, TypeOK
  <2> QED BY <1>1, <2>1, <2>2, DownTypes
<1>3. CASE rcode[r] # 405
  <2>1. rpc' \in [Recorders -> {"idle", "record", "write", "park"}] BY <1>3 DEF Write, TypeOK
  <2>2. rcode' \in [Recorders -> Codes] BY <1>3 DEF Write, TypeOK, Codes
  <2> QED BY <1>1, <1>3, <2>1, <2>2 DEF Write, TypeOK, dialVars, ctlVars, sessVars, envVars, hist
<1> QED BY <1>2, <1>3

LEMMA ConnectedTypes == ASSUME TypeOK, NEW ok \in BOOLEAN, Connected(ok) PROVE TypeOK'
<1>1. mem' \in Problem /\ file' \in Problem /\ ban' \in Problem /\ failed' \in BOOLEAN
  BY NilFacts, Zenon DEF Connected, ClearSnapshot, TypeOK
<1> QED BY <1>1 DEF Connected, TypeOK, recVars, dialVars, ctlVars, envVars

LEMMA RetryTypes == ASSUME TypeOK, NEW d \in Dialers, NEW ok \in BOOLEAN, Retry(d, ok) PROVE TypeOK'
<1>1. file' \in Problem
  <2>1. Unversioned(mem) \in Problem /\ file \in Problem BY UnversionedFacts DEF TypeOK
  <2> QED BY <2>1 DEF Retry
<1>2. failed' \in BOOLEAN BY Zenon DEF Retry, TypeOK
<1>3. dpc' \in [Dialers -> Stages] BY DEF Retry, TypeOK, Stages
<1> QED BY <1>1, <1>2, <1>3 DEF Retry, TypeOK, recVars, ctlVars, sessVars, envVars, hist

\* The outcomes of Publish and of OperatorRestart.
LEMMA PublishCases ==
  ASSUME NEW ok \in BOOLEAN, Publish(ok)
  PROVE  /\ \/ /\ mem = expected /\ mem' = Removed /\ file' = Unversioned(Removed) /\ failed' = FALSE
               /\ nVer' \in {nVer, nVer + 1} /\ Install(pick)
            \/ /\ failed' = (failed \/ mem = expected) /\ CleanupFailed
               /\ UNCHANGED <<mem, file, nVer, rpc, rcode, client, paired, retired>>
         /\ up /\ dpc["ctl"] = "publish" /\ pmu = Free /\ expected' = Nil /\ pick' = NoDevice
         /\ UNCHANGED <<pmu, snap, snapParked, seen, kick, conn, devices, nDev, envVars, nRec, nOp, hist>>
  BY DEF Publish, Removed

LEMMA OperatorCases ==
  ASSUME NEW ok \in BOOLEAN, OperatorRestart(ok)
  PROVE  /\ \/ /\ mem' = Restarted /\ file' = Unversioned(Restarted) /\ failed' = FALSE /\ nVer' = nVer + 1
               /\ ban' = Nil /\ dpc' = [dpc EXCEPT !["ctl"] = "wait"]
               /\ seen' = [seen EXCEPT !["ctl"] = Nil] /\ snap' = [snap EXCEPT !["ctl"] = Nil]
            \/ failed' = TRUE /\ UNCHANGED <<mem, file, nVer, ban, dpc, snap, seen>>
         /\ up /\ pmu = Free /\ dpc["ctl"] # "publish"
         /\ UNCHANGED <<recVars, expected, pick, client, retired, devices, nDev, envVars, gone>>
  BY DEF OperatorRestart, Restarted, dialVars

LEMMA PublishTypes == ASSUME TypeOK, NEW ok \in BOOLEAN, Publish(ok) PROVE TypeOK'
<1>1. mem' \in Problem /\ file' \in Problem
  <2>1. Removed \in Problem /\ Unversioned(Removed) \in Problem BY RemovedFacts, UnversionedFacts
  <2> QED BY <2>1, PublishCases, Zenon DEF TypeOK
<1>2. CASE Install(pick) /\ failed' = FALSE /\ nVer' \in {nVer, nVer + 1}
  <2>1. nVer' \in Nat BY <1>2 DEF TypeOK
  <2> QED BY <1>1, <1>2, <2>1, PublishCases, InstallTypes, NilFacts, Zenon DEF TypeOK, envVars, hist
<1>3. CASE CleanupFailed /\ failed' = (failed \/ mem = expected) /\ UNCHANGED <<nVer, rpc, rcode, retired>>
  <2>1. dpc' \in [Dialers -> Stages] BY <1>3, Zenon DEF CleanupFailed, TypeOK, Stages
  <2>2. failed' \in BOOLEAN BY <1>3
  <2> QED BY <1>1, <1>3, <2>1, <2>2, PublishCases, NilFacts, Zenon DEF TypeOK, envVars, hist
<1> QED BY <1>2, <1>3, PublishCases, Zenon

LEMMA OperatorTypes == ASSUME TypeOK, NEW ok \in BOOLEAN, OperatorRestart(ok) PROVE TypeOK'
<1>1. /\ UNCHANGED <<recVars, expected, retired, envVars>>
      /\ \/ /\ mem' = Restarted /\ file' = Unversioned(Restarted) /\ failed' = FALSE /\ nVer' = nVer + 1
            /\ ban' = Nil /\ dpc' = [dpc EXCEPT !["ctl"] = "wait"]
            /\ seen' = [seen EXCEPT !["ctl"] = Nil] /\ snap' = [snap EXCEPT !["ctl"] = Nil]
         \/ failed' = TRUE /\ UNCHANGED <<mem, file, nVer, ban, dpc, snap, seen>>
  BY OperatorCases, Zenon
<1>2. mem' \in Problem /\ file' \in Problem /\ ban' \in Problem
  <2>1. Restarted \in Problem /\ Unversioned(Restarted) \in Problem BY RestartedFacts, UnversionedFacts
  <2> QED BY <1>1, <2>1, NilFacts DEF TypeOK
<1>3. snap' \in [Dialers -> Problem] /\ seen' \in [Dialers -> Problem] BY <1>1, NilFacts DEF TypeOK
<1>4. dpc' \in [Dialers -> Stages] BY <1>1 DEF TypeOK, Stages
<1>5. nVer' \in Nat
  <2>1. nVer' = nVer + 1 \/ nVer' = nVer BY <1>1
  <2> QED BY <2>1 DEF TypeOK
<1>6. failed' \in BOOLEAN BY <1>1, Zenon
<1> QED BY <1>1, <1>2, <1>3, <1>4, <1>5, <1>6 DEF TypeOK, recVars, envVars

LEMMA RestartTypes == ASSUME TypeOK, NEW b \in {build, build + 1}, Restart(b) PROVE TypeOK'
<1>1. mem' = Loaded(b) /\ file' = Saved(b) BY DEF Restart, Loaded
<1>2. mem' \in Problem /\ file' \in Problem BY <1>1, SavedFacts, LoadedFacts DEF TypeOK
<1>3. ban' \in Problem BY NilFacts DEF Restart, TypeOK
<1>4. dpc' \in [Dialers -> Stages] BY Zenon DEF Restart, TypeOK, Stages
<1>5. nVer' \in Nat /\ build' \in Nat BY DEF Restart, TypeOK
<1>6. retired' \in BOOLEAN
  <2>1. Saved(b) \in Problem BY SavedFacts, Zenon DEF TypeOK
  <2> QED BY <2>1 DEF Restart, Unlinked, Problem
<1> QED BY <1>2, <1>3, <1>4, <1>5, <1>6 DEF Restart, TypeOK, recVars

LEMMA ControlTypes ==
  ASSUME TypeOK, NEW r \in Recorders, NEW c \in Codes, NEW ok \in BOOLEAN, NEW d \in Dialers,
         OtherStep(r, c, ok, d)
  PROVE  /\ rpc' \in [Recorders -> {"idle", "record", "write", "park"}] /\ rcode' \in [Recorders -> Codes]
         /\ dpc' \in [Dialers -> Stages]
         /\ snap' \in [Dialers -> Problem] /\ seen' \in [Dialers -> Problem]
         /\ expected' \in Problem /\ retired' \in BOOLEAN /\ now' \in Nat
<1> USE DEF TypeOK
<1>1. CASE Refused(r, c)
  BY <1>1 DEF Refused, dialVars, ctlVars, envVars
<1>2. CASE Park(r)
  <2>1. rcode' \in [Recorders -> Codes] /\ rpc' \in [Recorders -> {"idle", "record", "write", "park"}]
    BY <1>2 DEF Park, Codes
  <2>2. dpc' \in [Dialers -> Stages] BY <1>2 DEF Park, Stages, dialVars
  <2>3. snap' \in [Dialers -> Problem] /\ seen' \in [Dialers -> Problem] BY <1>2, NilFacts, Zenon DEF Park, dialVars
  <2> QED BY <1>2, <2>1, <2>2, <2>3 DEF Park, sessVars, envVars
<1>3. CASE AttemptFailed(ok) \/ PairSuccess
  <2>1. dpc' \in [Dialers -> Stages] BY <1>3 DEF AttemptFailed, PairSuccess, Stages
  <2> QED BY <1>3, <2>1 DEF AttemptFailed, PairSuccess, recVars, ctlVars, envVars
<1>4. CASE Disconnected
  BY <1>4, Zenon DEF Disconnected, recVars, dialVars, ctlVars, envVars
<1>5. CASE LoopStart
  <2>1. dpc' \in [Dialers -> Stages] BY <1>5, Zenon DEF LoopStart, Stages
  <2> QED BY <1>5, <2>1 DEF LoopStart, recVars, ctlVars, sessVars, envVars
<1>6. CASE Snapshot(d)
  <2>1. dpc' \in [Dialers -> Stages] BY <1>6 DEF Snapshot, Stages
  <2>2. snap' \in [Dialers -> Problem] /\ seen' \in [Dialers -> Problem] BY <1>6, Zenon DEF Snapshot
  <2> QED BY <1>6, <2>1, <2>2 DEF Snapshot, recVars, ctlVars, sessVars, envVars
<1>7. CASE Decide(d)
  <2>1. dpc' \in [Dialers -> Stages] BY <1>7 DEF Decide, Stages
  <2>2. snap' \in [Dialers -> Problem] BY <1>7, NilFacts, Zenon DEF Decide
  <2> QED BY <1>7, <2>1, <2>2 DEF Decide, recVars, ctlVars, sessVars, envVars
<1>8. CASE Dial(d)
  <2>1. dpc' \in [Dialers -> Stages] BY <1>8 DEF Dial, Stages
  <2>2. seen' \in [Dialers -> Problem] BY <1>8, NilFacts DEF Dial
  <2> QED BY <1>8, <2>1, <2>2 DEF Dial, recVars, ctlVars, envVars
<1>9. CASE Begin
  <2>1. CASE Install(NoDevice)
    BY <1>9, <2>1, InstallTypes, Zenon DEF Begin, envVars
  <2>2. CASE ~Install(NoDevice)
    <3>1. dpc' \in [Dialers -> Stages] BY <1>9, <2>2 DEF Begin, Stages
    <3> QED BY <1>9, <2>2, <3>1 DEF Begin, envVars
  <2> QED BY <2>1, <2>2
<1>10. CASE Clean
  <2>1. dpc' \in [Dialers -> Stages] BY <1>10 DEF Clean, CleanupFailed, Stages
  <2> QED BY <1>10, <2>1 DEF Clean, recVars, sessVars, envVars
<1>11. CASE Delete(ok)
  <2>1. dpc' \in [Dialers -> Stages] BY <1>11 DEF Delete, CleanupFailed, Stages
  <2>2. expected' \in Problem BY <1>11, NilFacts DEF Delete
  <2> QED BY <1>11, <2>1, <2>2 DEF Delete, recVars, envVars
<1>12. CASE Tick
  BY <1>12 DEF Tick, recVars, dialVars, ctlVars, sessVars
<1> QED BY <1>1, <1>2, <1>3, <1>4, <1>5, <1>6, <1>7, <1>8, <1>9, <1>10, <1>11, <1>12 DEF OtherStep

LEMMA OtherTypes ==
  ASSUME TypeOK, NEW r \in Recorders, NEW c \in Codes, NEW ok \in BOOLEAN, NEW d \in Dialers,
         OtherStep(r, c, ok, d)
  PROVE  TypeOK'
<1>1. UNCHANGED <<mem, file, failed, pmu, up, build, nVer, ban, gone>> BY OtherFrame
<1> QED BY <1>1, ControlTypes DEF TypeOK

LEMMA MarkerTypes ==
  ASSUME TypeOK, client \in 0..MaxDev,
         NEW r \in Recorders, NEW ok \in BOOLEAN, NEW d \in Dialers, NEW b \in {build, build + 1},
         MarkerStep(r, ok, d, b)
  PROVE  TypeOK'
<1>1. CASE Crash
  <2>1. Down /\ Kept(Durable) /\ file' = file BY <1>1 DEF Crash
  <2>2. ban' \in Problem BY <2>1, NilFacts DEF Kept, TypeOK
  <2> QED BY <2>1, <2>2, DownTypes DEF TypeOK
<1> QED
  BY <1>1, RecordTypes, WriteTypes, ConnectedTypes, OperatorTypes, RetryTypes, PublishTypes, RestartTypes
  DEF MarkerStep
-----------------------------------------------------------------------------
(* The marker and the session store *)

\* Every device anybody speaks of has been linked.
Linked ==
  /\ nDev \in 0..MaxDev
  /\ devices \subseteq 1..nDev /\ gone \subseteq 1..nDev
  /\ client \in 0..nDev /\ pick \in 0..nDev
  /\ mem.dev \in 0..nDev /\ file.dev \in 0..nDev /\ expected.dev \in 0..nDev

\* What the controller is about to publish is true: the device it cleaned up is
\* gone from the session store and the one it chose is in it.
Cleaned ==
  dpc["ctl"] = "publish" =>
    /\ pick = NoDevice \/ pick \in devices
    /\ ~expected.removed /\ expected.dev # NoDevice => expected.dev \notin devices

\* An unlink retires its client before it is recorded; the logger hook tells none.
Told ==
  /\ rpc["event"] = "record" /\ rcode["event"] = 401 => retired /\ client # NoDevice
  /\ rcode["hook"] \in {0, 500}
  /\ ~up => rpc["event"] = "idle"

\* A device is linked through a client that is not retired.
Linking ==
  /\ up /\ client = NoDevice /\ retired => ~Attempting
  /\ dpc["ctl"] = "dialed" => client = NoDevice /\ ~retired
-----------------------------------------------------------------------------
(* Disk and memory *)

\* A step that writes what it leaves in memory, or says that it failed.
LEMMA WrittenAgrees ==
  ASSUME NEW p \in Problem, mem' = p, file' = Unversioned(p)
  PROVE  DiskAgrees'
<1>1. Alike(Unversioned(p), p) BY UnversionedFacts
<1> QED BY <1>1 DEF DiskAgrees, Alike

LEMMA DiskKept ==
  ASSUME TypeOK, DiskAgrees, client \in 0..MaxDev,
         NEW r \in Recorders, NEW c \in Codes, NEW ok \in BOOLEAN, NEW d \in Dialers,
         NEW b \in {build, build + 1},
         MarkerStep(r, ok, d, b) \/ OtherStep(r, c, ok, d)
  PROVE  DiskAgrees'
<1>0. mem \in Problem /\ file \in Problem /\ failed \in BOOLEAN /\ up \in BOOLEAN BY DEF TypeOK
<1>1. CASE UNCHANGED <<mem, file>> /\ (up' /\ Durable' => up /\ Durable)
  BY <1>1 DEF DiskAgrees
<1>2. CASE ~(up' /\ Durable') BY <1>2 DEF DiskAgrees
<1>3. CASE Record(r)
  <2>1. rcode[r] \in Codes BY DEF TypeOK
  <2>2. r # Free BY DEF Recorders, Free
  <2>3. CASE mem' = mem
    BY <1>1, <1>3, <2>2, <2>3, Zenon DEF Record, Durable, envVars
  <2>4. CASE mem' # mem /\ rcode[r] # 0
    BY <1>2, <1>3, <2>2, <2>4 DEF Record, Durable
  <2>5. CASE mem' # mem /\ rcode[r] = 0
    <3>1. PICK k \in Codes : k = rcode[r] BY <2>1
    <3>2. mem' = NextProblem(k) /\ ~Superseded(k) /\ UNCHANGED <<file, failed, up>> /\ up /\ pmu = Free
      BY <1>3, <2>5, <3>1 DEF Record, envVars
    <3>3. k # 401 /\ k \notin {402, 403, 405} BY <2>5, <3>1
    <3>4. ~Restricts(Classify(k)) BY <3>3, ClassifyFacts DEF TypeOK, Restricts
    <3>5. Fence(mem') = Fence(mem) /\ ~Restricts(mem')
      BY <3>2, <3>3, <3>4, NextFence DEF Restricts
    <3>6. ~Restricts(mem) BY <3>2, <3>3, <3>4 DEF Superseded
    <3>7. failed \/ (Fence(mem) = Fence(file) /\ ~Restricts(file))
      BY <3>2, <3>6 DEF DiskAgrees, Durable, Restriction, Restricts
    <3> QED BY <3>2, <3>5, <3>7 DEF DiskAgrees, Durable
  <2> QED BY <2>3, <2>4, <2>5
<1>4. CASE Write(r, ok)
  <2>1. CASE rcode[r] = 405 BY <1>2, <1>4, <2>1 DEF Write, Down
  <2>2. CASE rcode[r] # 405 /\ ok BY <1>0, <1>4, <2>2, WrittenAgrees DEF Write
  <2>3. CASE rcode[r] # 405 /\ ~ok BY <1>2, <1>4, <2>3, Zenon DEF Write, Durable
  <2> QED BY <2>1, <2>2, <2>3
<1>5. CASE Connected(ok)
  <2>1. CASE ok
    <3>1. mem' = Nil /\ file' = Nil BY <1>5, <2>1 DEF Connected, ClearSnapshot
    <3> QED BY <3>1 DEF DiskAgrees
  <2>2. CASE ~ok BY <1>2, <1>5, <2>2 DEF Connected, ClearSnapshot, Durable
  <2> QED BY <2>1, <2>2
<1>6. CASE OperatorRestart(ok)
  <2>1. CASE mem' = Restarted /\ file' = Unversioned(Restarted)
    BY <2>1, WrittenAgrees, RestartedFacts
  <2>2. CASE failed' = TRUE BY <1>2, <2>2 DEF Durable
  <2> QED BY <1>6, <2>1, <2>2, OperatorCases, Zenon
<1>7. CASE Retry(d, ok)
  <2>1. CASE mem = snap[d] /\ ok BY <1>0, <1>7, <2>1, WrittenAgrees DEF Retry
  <2>2. CASE mem = snap[d] /\ ~ok BY <1>2, <1>7, <2>2, Zenon DEF Retry, Durable
  <2>3. CASE mem # snap[d] BY <1>1, <1>7, <2>3 DEF Retry, Durable, recVars, envVars
  <2> QED BY <2>1, <2>2, <2>3
<1>8. CASE Publish(ok)
  <2>1. CASE mem' = Removed /\ file' = Unversioned(Removed)
    BY <2>1, WrittenAgrees, RemovedFacts
  <2>2. CASE UNCHANGED <<mem, file>> /\ failed' = (failed \/ mem = expected)
    BY <1>1, <1>8, <2>2, PublishCases, Zenon DEF Durable, envVars
  <2> QED BY <1>8, <2>1, <2>2, PublishCases, Zenon
<1>9. CASE Crash BY <1>2, <1>9 DEF Crash, Down
<1>10. CASE Restart(b)
  <2>1. mem' = Loaded(b) /\ file' = Saved(b) BY <1>10 DEF Restart, Loaded
  <2> QED BY <2>1, LoadedFacts DEF DiskAgrees, Alike
<1>11. CASE OtherStep(r, c, ok, d)
  <2>1. UNCHANGED <<mem, file, failed, pmu, up>> BY <1>11, OtherFrame
  <2> QED BY <1>1, <2>1 DEF Durable
<1> QED BY <1>3, <1>4, <1>5, <1>6, <1>7, <1>8, <1>9, <1>10, <1>11 DEF MarkerStep
-----------------------------------------------------------------------------
(* The session store *)

\* No step that changes the marker links a device or touches the session store.
LEMMA MarkerFrame ==
  ASSUME NEW r, NEW ok \in BOOLEAN, NEW d, NEW b, MarkerStep(r, ok, d, b)
  PROVE  UNCHANGED <<devices, nDev>>
<1>1. CASE Record(r) BY <1>1 DEF Record, sessVars
<1>2. CASE Write(r, ok) BY <1>2 DEF Write, Down, sessVars
<1>3. CASE Connected(ok) \/ OperatorRestart(ok) BY <1>3 DEF Connected, OperatorRestart
<1>4. CASE Retry(d, ok) BY <1>4 DEF Retry, sessVars
<1>5. CASE Publish(ok) \/ Crash \/ Restart(b) BY <1>5 DEF Publish, Crash, Down, Restart
<1> QED BY <1>1, <1>2, <1>3, <1>4, <1>5 DEF MarkerStep

\* A marker names the device of the client, or one that a marker named before.
LEMMA MarkerNames ==
  ASSUME TypeOK, client \in 0..MaxDev, Linked,
         NEW r \in Recorders, NEW ok \in BOOLEAN, NEW d \in Dialers, NEW b \in {build, build + 1},
         MarkerStep(r, ok, d, b)
  PROVE  mem'.dev \in 0..nDev /\ file'.dev \in 0..nDev
<1>0. /\ mem \in Problem /\ mem.dev \in 0..nDev /\ file.dev \in 0..nDev /\ client \in 0..nDev
      /\ expected.dev \in 0..nDev /\ nDev \in Nat
  BY DEF TypeOK, Linked
<1>1. NoDevice \in 0..nDev /\ Nil.dev = NoDevice BY <1>0, NilFacts DEF NoDevice
<1>2. ASSUME NEW p \in Problem PROVE Unversioned(p).dev = p.dev BY UnversionedFacts, AlikeFacts, Zenon
<1>3. CASE Record(r)
  <2>1. rcode[r] \in Codes BY DEF TypeOK
  <2>2. NextProblem(rcode[r]).dev \in {client, mem.dev}
    BY <2>1, NextUnlink, NextFence, Zenon DEF Fence
  <2> QED BY <1>0, <1>3, <2>2 DEF Record
<1>4. CASE Write(r, ok) BY <1>0, <1>1, <1>2, <1>4, Zenon DEF Write, Down
<1>5. CASE Connected(ok) BY <1>0, <1>1, <1>5 DEF Connected, ClearSnapshot
<1>6. CASE OperatorRestart(ok)
  <2>1. Restarted \in Problem /\ Restarted.dev \in {NoDevice, mem.dev} BY <1>1, RestartedFacts
  <2> QED BY <1>0, <1>1, <1>2, <1>6, <2>1, OperatorCases, Zenon
<1>7. CASE Retry(d, ok) BY <1>0, <1>2, <1>7, Zenon DEF Retry
<1>8. CASE Publish(ok)
  <2>1. Removed \in Problem /\ Removed.dev = expected.dev BY RemovedFacts, Zenon
  <2> QED BY <1>0, <1>2, <1>8, <2>1, PublishCases, Zenon
<1>9. CASE Crash BY <1>0, <1>1, <1>9 DEF Crash, Down
<1>10. CASE Restart(b)
  <2>1. mem' = Loaded(b) /\ file' = Saved(b) BY <1>10 DEF Restart, Loaded
  <2>2. Saved(b).dev \in {NoDevice, file.dev} BY SavedFacts DEF TypeOK
  <2>3. Loaded(b).dev = Saved(b).dev BY LoadedFacts, AlikeFacts
  <2> QED BY <1>0, <1>1, <2>1, <2>2, <2>3
<1> QED BY <1>3, <1>4, <1>5, <1>6, <1>7, <1>8, <1>9, <1>10 DEF MarkerStep

\* The controller's choice, its snapshot and the client stay among the linked devices.
LEMMA MarkerLinked ==
  ASSUME TypeOK, Linked, Told,
         NEW r \in Recorders, NEW ok \in BOOLEAN, NEW d \in Dialers, NEW b \in {build, build + 1},
         MarkerStep(r, ok, d, b)
  PROVE  Linked'
<1>1. UNCHANGED <<devices, nDev>> BY MarkerFrame
<1>2. client \in 0..MaxDev /\ nDev \in Nat /\ client \in 0..nDev /\ NoDevice \in 0..nDev /\ pick \in 0..nDev
  BY ProblemAssumption DEF Linked, NoDevice
<1>3. mem'.dev \in 0..nDev /\ file'.dev \in 0..nDev BY <1>2, MarkerNames
<1>4. Nil.dev = NoDevice BY NilFacts, Zenon
<1>5. CASE Record(r)
  <2>1. gone' \subseteq 1..nDev
    <3>1. CASE rcode[r] = 401
      <4>1. r = "event" /\ rpc[r] = "record" BY <1>5, <3>1 DEF Told, Recorders, Record
      <4>2. client # NoDevice BY <3>1, <4>1 DEF Told
      <4>3. client \in 1..nDev BY <1>2, <4>2 DEF NoDevice
      <4> QED BY <1>5, <3>1, <4>3 DEF Record, Linked
    <3>2. CASE rcode[r] # 401 BY <1>5, <3>2, Zenon DEF Record, Linked
    <3> QED BY <3>1, <3>2, Zenon
  <2> QED BY <1>1, <1>3, <1>5, <2>1 DEF Record, Linked, ctlVars, sessVars
<1>6. CASE Down /\ gone' \subseteq gone
  BY <1>1, <1>2, <1>3, <1>4, <1>6 DEF Down, Linked
<1>7. CASE Write(r, ok)
  <2>1. CASE rcode[r] = 405
    <3>1. Down /\ gone' \subseteq gone BY <1>7, <2>1, Zenon DEF Write, Kept
    <3> QED BY <1>6, <3>1
  <2>2. CASE rcode[r] # 405
    BY <1>1, <1>3, <1>7, <2>2 DEF Write, Linked, ctlVars, sessVars, hist
  <2> QED BY <2>1, <2>2
<1>8. CASE Connected(ok) BY <1>1, <1>3, <1>8 DEF Connected, ClearSnapshot, Linked, ctlVars
<1>9. CASE OperatorRestart(ok) BY <1>1, <1>3, <1>9 DEF OperatorRestart, Linked
<1>10. CASE Retry(d, ok) BY <1>1, <1>3, <1>10, Zenon DEF Retry, Linked, ctlVars, sessVars, hist
<1>11. CASE Publish(ok)
  <2>1. client' \in {client, pick} /\ pick' = NoDevice /\ expected' = Nil /\ gone' = gone
    BY <1>11, PublishCases, Zenon DEF Install, hist
  <2> QED BY <1>1, <1>2, <1>3, <1>4, <2>1 DEF Linked
<1>12. CASE Crash
  <2>1. Down /\ gone' \subseteq gone BY <1>12 DEF Crash, Kept
  <2> QED BY <1>6, <2>1
<1>13. CASE Restart(b)
  <2>1. client' \in devices \cup {NoDevice} /\ UNCHANGED <<pick, expected, gone>> BY <1>13 DEF Restart
  <2>2. client' \in 0..nDev BY <1>2, <2>1 DEF Linked
  <2> QED BY <1>1, <1>3, <2>1, <2>2 DEF Linked
<1> QED BY <1>5, <1>7, <1>8, <1>9, <1>10, <1>11, <1>12, <1>13 DEF MarkerStep

\* The steps that neither change the client nor the session store, nor revive a
\* retired client.
LEMMA StoreFrame ==
  ASSUME NEW r, NEW c, NEW ok, NEW d, OtherStep(r, c, ok, d),
         ~PairSuccess, ~Begin, ~Clean, ~Delete(ok)
  PROVE  UNCHANGED <<client, pick, expected, devices, nDev>> /\ (retired => retired')
<1>1. CASE Refused(r, c)
  <2>1. retired => retired' BY <1>1, Zenon DEF Refused
  <2> QED BY <1>1, <2>1 DEF Refused, ctlVars
<1>2. CASE Park(r) BY <1>2 DEF Park, sessVars
<1>3. CASE AttemptFailed(ok) \/ Disconnected BY <1>3 DEF AttemptFailed, Disconnected, ctlVars
<1>4. CASE LoopStart \/ Tick BY <1>4 DEF LoopStart, Tick, ctlVars, sessVars
<1>5. CASE Snapshot(d) BY <1>5 DEF Snapshot, ctlVars, sessVars
<1>6. CASE Decide(d) BY <1>6 DEF Decide, ctlVars, sessVars
<1>7. CASE Dial(d) BY <1>7 DEF Dial, ctlVars
<1> QED BY <1>1, <1>2, <1>3, <1>4, <1>5, <1>6, <1>7 DEF OtherStep

\* The outcomes of Delete.
LEMMA DeleteCases ==
  ASSUME NEW ok \in BOOLEAN, Delete(ok)
  PROVE  /\ devices' \subseteq devices /\ UNCHANGED <<client, nDev, retired, rpc, rcode>>
         /\ dpc["ctl"] = "delete" /\ up
         /\ \/ /\ devices' = devices \ Revoked(expected) /\ pick' \in devices' \cup {NoDevice}
               /\ dpc' = [dpc EXCEPT !["ctl"] = "publish"] /\ expected' = expected
            \/ CleanupFailed /\ pick' = pick /\ expected' = Nil
<1>1. CASE ok BY <1>1 DEF Delete, recVars
<1>2. CASE ~ok BY <1>2 DEF Delete, recVars
<1> QED BY <1>1, <1>2

LEMMA OtherLinked ==
  ASSUME TypeOK, Linked,
         NEW r \in Recorders, NEW c \in Codes, NEW ok \in BOOLEAN, NEW d \in Dialers,
         OtherStep(r, c, ok, d)
  PROVE  Linked'
<1>1. UNCHANGED <<mem, file, gone>> BY OtherFrame
<1>2. nDev \in Nat /\ NoDevice \in 0..nDev /\ Nil.dev = NoDevice /\ MaxDev \in Nat
  BY ProblemAssumption, NilFacts DEF Linked, NoDevice
<1>3. CASE PairSuccess
  <2>1. nDev' = nDev + 1 /\ nDev < MaxDev /\ devices' = devices \cup {nDev + 1} /\ client' = nDev + 1
        /\ UNCHANGED <<pick, expected>>
    BY <1>3 DEF PairSuccess, ctlVars
  <2>2. nDev' \in 0..MaxDev /\ client' \in 0..nDev' BY <1>2, <2>1
  <2>3. devices' \subseteq 1..nDev' BY <1>2, <2>1 DEF Linked
  <2>4. gone' \subseteq 1..nDev' BY <1>1, <1>2, <2>1 DEF Linked
  <2>5. pick' \in 0..nDev' /\ mem'.dev \in 0..nDev' /\ file'.dev \in 0..nDev' /\ expected'.dev \in 0..nDev'
    BY <1>1, <1>2, <2>1 DEF Linked
  <2> QED BY <2>2, <2>3, <2>4, <2>5 DEF Linked
<1>4. CASE Begin
  <2>1. client' \in {client, NoDevice} /\ UNCHANGED <<pick, expected, devices, nDev>>
    BY <1>4 DEF Begin, Install
  <2> QED BY <1>1, <1>2, <2>1, Zenon DEF Linked
<1>5. CASE Clean
  <2>1. expected' \in {expected, mem} /\ UNCHANGED <<pick, client, devices, nDev>>
    BY <1>5 DEF Clean, sessVars
  <2> QED BY <1>1, <2>1 DEF Linked
<1>6. CASE Delete(ok)
  <2>1. devices' \subseteq devices /\ UNCHANGED <<client, nDev>>
        /\ pick' \in {pick, NoDevice} \cup devices /\ expected' \in {expected, Nil}
    BY <1>6, DeleteCases
  <2>2. pick' \in 0..nDev BY <1>2, <2>1 DEF Linked
  <2> QED BY <1>1, <1>2, <2>1, <2>2 DEF Linked
<1>7. CASE ~PairSuccess /\ ~Begin /\ ~Clean /\ ~Delete(ok)
  <2>1. UNCHANGED <<client, pick, expected, devices, nDev>> BY <1>7, StoreFrame
  <2> QED BY <1>1, <2>1 DEF Linked
<1> QED BY <1>3, <1>4, <1>5, <1>6, <1>7
-----------------------------------------------------------------------------
(* The removal of a revoked session *)

\* What a marker says of the removal is true.
Honest(p) == Unlinked(p) /\ p.removed /\ p.dev # NoDevice => p.dev \notin devices

LEMMA HonestMarkers == RemovalTrue <=> (Honest(mem) /\ Honest(file))
  BY DEF RemovalTrue, Honest

LEMMA HonestFence == ASSUME NEW p, NEW q, Fence(p) = Fence(q), Honest(q) PROVE Honest(p)
  BY DEF Fence, Honest

\* Only what is recorded, published or acknowledged changes what a marker says.
LEMMA MarkerHonest ==
  ASSUME TypeOK, client \in 0..MaxDev, RemovalTrue, Cleaned,
         NEW r \in Recorders, NEW ok \in BOOLEAN, NEW d \in Dialers, NEW b \in {build, build + 1},
         MarkerStep(r, ok, d, b)
  PROVE  Honest(mem') /\ Honest(file')
<1>0. mem \in Problem /\ file \in Problem /\ Honest(mem) /\ Honest(file) BY HonestMarkers DEF TypeOK
<1>1. Honest(Nil) BY NilFacts DEF Honest
<1>2. ASSUME NEW p \in Problem, Honest(p) PROVE Honest(Unversioned(p))
  BY <1>2, UnversionedFacts, HonestFence, Zenon DEF Alike
<1>3. CASE Record(r)
  <2>1. rcode[r] \in Codes BY DEF TypeOK
  <2>2. Honest(NextProblem(rcode[r]))
    <3>1. CASE rcode[r] = 401 BY <2>1, <3>1, NextUnlink DEF Honest
    <3>2. CASE rcode[r] # 401 BY <1>0, <2>1, <3>2, NextFence, HonestFence, Zenon
    <3> QED BY <3>1, <3>2
  <2> QED BY <1>0, <1>3, <2>2 DEF Record
<1>4. CASE Write(r, ok) BY <1>0, <1>1, <1>2, <1>4 DEF Write, Down
<1>5. CASE Connected(ok) BY <1>0, <1>1, <1>5 DEF Connected, ClearSnapshot
<1>6. CASE OperatorRestart(ok)
  <2>1. Restarted \in Problem /\ Honest(Restarted) BY <1>0, RestartedFacts DEF Honest
  <2> QED BY <1>0, <1>2, <1>6, <2>1, OperatorCases, Zenon
<1>7. CASE Retry(d, ok) BY <1>0, <1>2, <1>7 DEF Retry
<1>8. CASE Publish(ok)
  <2>1. CASE mem = expected /\ mem' = Removed /\ file' = Unversioned(Removed)
    <3>1. Honest(Removed)
      <4>1. dpc["ctl"] = "publish" BY <1>8, PublishCases, Zenon
      <4>2. CASE expected.removed BY <1>0, <2>1, <4>2, Zenon DEF Removed
      <4>3. CASE ~expected.removed BY <4>1, <4>3, RemovedFacts DEF Cleaned, Honest
      <4> QED BY <4>2, <4>3
    <3> QED BY <1>2, <2>1, <3>1, RemovedFacts
  <2>2. CASE UNCHANGED <<mem, file>> BY <1>0, <2>2, Zenon
  <2> QED BY <1>8, <2>1, <2>2, PublishCases, Zenon
<1>9. CASE Crash BY <1>0, <1>1, <1>9 DEF Crash, Down
<1>10. CASE Restart(b)
  <2>1. mem' = Loaded(b) /\ file' = Saved(b) BY <1>10, Zenon DEF Restart, Loaded
  <2>2. Honest(Saved(b)) BY <1>0, SavedFacts DEF Honest
  <2>3. Honest(Loaded(b)) BY <2>2, LoadedFacts, HonestFence DEF Alike
  <2> QED BY <2>1, <2>2, <2>3
<1> QED BY <1>3, <1>4, <1>5, <1>6, <1>7, <1>8, <1>9, <1>10 DEF MarkerStep

LEMMA RemovalKept ==
  ASSUME TypeOK, Linked, RemovalTrue, Cleaned,
         NEW r \in Recorders, NEW c \in Codes, NEW ok \in BOOLEAN, NEW d \in Dialers,
         NEW b \in {build, build + 1},
         MarkerStep(r, ok, d, b) \/ OtherStep(r, c, ok, d)
  PROVE  RemovalTrue'
<1>1. CASE MarkerStep(r, ok, d, b)
  <2>1. client \in 0..MaxDev BY ProblemAssumption DEF Linked
  <2>2. devices' = devices BY <1>1, MarkerFrame
  <2>3. Honest(mem') /\ Honest(file') BY <1>1, <2>1, MarkerHonest
  <2> QED BY <2>2, <2>3 DEF Honest, RemovalTrue
<1>2. CASE OtherStep(r, c, ok, d)
  <2>1. UNCHANGED <<mem, file>> BY <1>2, OtherFrame
  <2>2. \A x \in 0..nDev : x \in devices' => x \in devices \/ x = NoDevice
    <3>1. CASE PairSuccess BY <3>1 DEF PairSuccess, Linked
    <3>2. CASE Begin \/ Clean BY <3>2 DEF Begin, Clean, sessVars
    <3>3. CASE Delete(ok) BY <3>3, DeleteCases
    <3>4. CASE ~PairSuccess /\ ~Begin /\ ~Clean /\ ~Delete(ok) BY <1>2, <3>4, StoreFrame, Zenon
    <3> QED BY <3>1, <3>2, <3>3, <3>4, Zenon
  <2> QED BY <2>1, <2>2 DEF RemovalTrue, Linked
<1> QED BY <1>1, <1>2

\* While the controller is about to publish, the session store is its own.
LEMMA CleanedKept ==
  ASSUME TypeOK, Cleaned,
         NEW r \in Recorders, NEW c \in Codes, NEW ok \in BOOLEAN, NEW d \in Dialers,
         NEW b \in {build, build + 1},
         MarkerStep(r, ok, d, b) \/ OtherStep(r, c, ok, d)
  PROVE  Cleaned'
<1>0. "ctl" \in Dialers /\ "loop" \in Dialers /\ dpc \in [Dialers -> Stages] BY Zenon DEF Dialers, TypeOK
<1>1. CASE Delete(ok)
  <2>1. CASE /\ devices' = devices \ Revoked(expected) /\ pick' \in devices' \cup {NoDevice}
             /\ expected' = expected
    BY <2>1, Zenon DEF Cleaned, Revoked
  <2>2. CASE CleanupFailed BY <1>0, <2>2 DEF CleanupFailed, Cleaned
  <2> QED BY <1>1, <2>1, <2>2, DeleteCases, Zenon
<1>2. CASE dpc'["ctl"] # "publish" BY <1>2, Zenon DEF Cleaned
<1>3. CASE dpc'["ctl"] = dpc["ctl"] /\ UNCHANGED <<pick, expected, devices>>
  BY <1>3, Zenon DEF Cleaned
<1>4. CASE Record(r) BY <1>3, <1>4 DEF Record, dialVars, ctlVars, sessVars
<1>5. CASE Write(r, ok)
  <2>1. CASE rcode[r] = 405 BY <1>0, <1>2, <1>5, <2>1 DEF Write, Down
  <2>2. CASE rcode[r] # 405 BY <1>3, <1>5, <2>2, Zenon DEF Write, dialVars, ctlVars, sessVars
  <2> QED BY <2>1, <2>2, Zenon
<1>6. CASE Connected(ok) BY <1>3, <1>6 DEF Connected, dialVars, ctlVars
<1>7. CASE OperatorRestart(ok)
  <2>1. dpc'["ctl"] = "wait" \/ dpc' = dpc BY <1>0, <1>7, OperatorCases, Zenon
  <2> QED BY <1>2, <1>3, <1>7, <2>1, OperatorCases, Zenon
<1>8. CASE Retry(d, ok)
  <2>1. dpc'["ctl"] \in {dpc["ctl"], "decide"} BY <1>0, <1>8 DEF Retry
  <2> QED BY <1>2, <1>3, <1>8, <2>1, Zenon DEF Retry, ctlVars, sessVars
<1>9. CASE Publish(ok)
  <2>1. dpc'["ctl"] \in {"snap", "clean", "wait"}
    BY <1>0, <1>9, PublishCases, Zenon DEF Install, CleanupFailed
  <2> QED BY <1>2, <2>1
<1>10. CASE Crash BY <1>0, <1>2, <1>10 DEF Crash, Down
<1>11. CASE Restart(b)
  <2>1. dpc'["ctl"] \in {"snap", "wait"} BY <1>0, <1>11 DEF Restart
  <2> QED BY <1>2, <2>1
<1>12. CASE PairSuccess \/ Begin \/ Clean
  <2>1. dpc'["ctl"] # "publish" BY <1>0, <1>12, Zenon DEF PairSuccess, Begin, Install, Clean, CleanupFailed
  <2> QED BY <1>2, <2>1
<1>13. CASE OtherStep(r, c, ok, d) /\ ~PairSuccess /\ ~Begin /\ ~Clean /\ ~Delete(ok)
  <2>1. dpc'["ctl"] # "publish" \/ dpc'["ctl"] = dpc["ctl"]
    <3>1. CASE Refused(r, c) \/ Disconnected \/ Tick BY <3>1, Zenon DEF Refused, Disconnected, Tick, dialVars
    <3>2. CASE Park(r) BY <1>0, <3>2, Zenon DEF Park, dialVars
    <3>3. CASE AttemptFailed(ok) \/ LoopStart BY <1>0, <3>3 DEF AttemptFailed, LoopStart
    <3>4. CASE Snapshot(d) \/ Decide(d) \/ Dial(d) BY <1>0, <3>4, Zenon DEF Snapshot, Decide, Dial
    <3> QED BY <1>13, <3>1, <3>2, <3>3, <3>4 DEF OtherStep
  <2> QED BY <1>2, <1>3, <1>13, <2>1, StoreFrame, Zenon
<1> QED
  BY <1>1, <1>4, <1>5, <1>6, <1>7, <1>8, <1>9, <1>10, <1>11, <1>12, <1>13 DEF MarkerStep
-----------------------------------------------------------------------------
(* Unlinks and links under way *)

LEMMA ToldKept ==
  ASSUME TypeOK, Told,
         NEW r \in Recorders, NEW c \in Codes, NEW ok \in BOOLEAN, NEW d \in Dialers,
         NEW b \in {build, build + 1},
         MarkerStep(r, ok, d, b) \/ OtherStep(r, c, ok, d)
  PROVE  Told'
<1>0. /\ "event" \in Recorders /\ "hook" \in Recorders /\ "event" # "hook" /\ r \in {"event", "hook"}
      /\ rpc \in [Recorders -> {"idle", "record", "write", "park"}] /\ rcode \in [Recorders -> Codes]
  BY DEF Recorders, TypeOK
<1>1. CASE UNCHANGED <<rpc, rcode, retired, client, up>> BY <1>1, Zenon DEF Told
<1>2. CASE /\ rcode'["hook"] \in {rcode["hook"], 0}
           /\ rpc'["event"] # "record" /\ (up' \/ rpc'["event"] = "idle")
  BY <1>2 DEF Told
<1>3. CASE Refused(r, c)
  <2>1. CASE r = "event"
    <3>1. /\ rcode'["event"] = c /\ rcode'["hook"] = rcode["hook"] /\ client' = client
          /\ up'
      BY <1>0, <1>3, <2>1 DEF Refused, envVars
    <3>2. c = 401 => retired' BY <1>3, Zenon DEF Refused
    <3>3. c = 401 => client # NoDevice BY <1>3 DEF Refused
    <3> QED BY <3>1, <3>2, <3>3, Zenon DEF Told
  <2>2. CASE r = "hook"
    <3>1. /\ rcode'["event"] = rcode["event"] /\ rpc'["event"] = rpc["event"] /\ rcode'["hook"] = c
          /\ c \in {0, 500} /\ client' = client /\ up'
      BY <1>0, <1>3, <2>2 DEF Refused, envVars
    <3>2. retired => retired' BY <1>3, Zenon DEF Refused
    <3> QED BY <3>1, <3>2 DEF Told
  <2> QED BY <1>0, <2>1, <2>2, Zenon
<1>4. ASSUME rpc' = [rpc EXCEPT ![r] = rpc'[r]], rcode' = [rcode EXCEPT ![r] = rcode'[r]],
             rpc'[r] # "record", rcode'[r] \in {rcode[r], 0}, up', UNCHANGED <<retired, client>>
      PROVE  Told'
  <2>1. CASE r = "event" BY <1>0, <1>2, <1>4, <2>1, Zenon
  <2>2. CASE r = "hook"
    <3>1. rpc'["event"] = rpc["event"] /\ rcode'["event"] = rcode["event"] BY <1>0, <1>4, <2>2, Zenon
    <3> QED BY <1>4, <2>2, <3>1 DEF Told
  <2> QED BY <1>0, <2>1, <2>2
<1>5. CASE Record(r) \/ Park(r)
  <2>1. rpc' = [rpc EXCEPT ![r] = rpc'[r]] /\ rpc'[r] # "record"
    <3>1. CASE Record(r) BY <1>0, <3>1, Zenon DEF Record
    <3>2. CASE Park(r) BY <1>0, <3>2 DEF Park
    <3> QED BY <1>5, <3>1, <3>2, Zenon
  <2>2. rcode' = [rcode EXCEPT ![r] = rcode'[r]] /\ rcode'[r] \in {rcode[r], 0}
    <3>1. CASE Record(r) BY <1>0, <3>1, Zenon DEF Record
    <3>2. CASE Park(r) BY <1>0, <3>2 DEF Park
    <3> QED BY <1>5, <3>1, <3>2, Zenon
  <2>3. up' /\ UNCHANGED <<retired, client>>
    <3>1. CASE Record(r) BY <3>1, Zenon DEF Record, sessVars, envVars
    <3>2. CASE Park(r) BY <3>2 DEF Park, sessVars, envVars
    <3> QED BY <1>5, <3>1, <3>2, Zenon
  <2> QED BY <1>4, <2>1, <2>2, <2>3, Zenon
<1>6. CASE Down
  <2>1. rpc'["event"] = "idle" /\ rcode'["hook"] = 0 BY <1>0, <1>6, Zenon DEF Down
  <2> QED BY <1>2, <2>1, Zenon
<1>7. CASE Write(r, ok)
  <2>1. CASE rcode[r] = 405 BY <1>6, <1>7, <2>1, Zenon DEF Write
  <2>2. CASE rcode[r] # 405
    <3>1. rpc' = [rpc EXCEPT ![r] = rpc'[r]] /\ rpc'[r] # "record" BY <1>0, <1>7, <2>2 DEF Write
    <3>2. rcode' = [rcode EXCEPT ![r] = rcode'[r]] /\ rcode'[r] \in {rcode[r], 0}
      BY <1>0, <1>7, <2>2 DEF Write
    <3>3. up' /\ UNCHANGED <<retired, client>> BY <1>7, <2>2 DEF Write, sessVars, envVars
    <3> QED BY <1>4, <3>1, <3>2, <3>3
  <2> QED BY <2>1, <2>2
<1>8. CASE Crash BY <1>6, <1>8 DEF Crash
<1>9. CASE \E device : Install(device)
  <2>1. rpc'["event"] = "idle" /\ rcode'["hook"] \in {rcode["hook"], 0} BY <1>0, <1>9 DEF Install
  <2> QED BY <1>2, <2>1
<1>10. CASE Publish(ok) BY <1>1, <1>9, <1>10, PublishCases, Zenon DEF envVars
<1>11. CASE Begin BY <1>1, <1>9, <1>11 DEF Begin, envVars
<1>12. CASE OperatorRestart(ok) BY <1>1, <1>12, OperatorCases, Zenon DEF recVars, envVars
<1>13. CASE Retry(d, ok) BY <1>1, <1>13 DEF Retry, recVars, sessVars, envVars
<1>14. CASE Connected(ok)
  <2>1. rpc'["event"] = "idle" /\ rcode' = rcode BY <1>14, Zenon DEF Connected, recVars
  <2> QED BY <1>2, <2>1
<1>15. CASE Delete(ok) BY <1>1, <1>15, DeleteCases, OtherFrame DEF OtherStep
<1>16. CASE Restart(b)
  <2>1. rpc'["event"] = "idle" /\ rcode' = rcode BY <1>16 DEF Restart, recVars, Told
  <2> QED BY <1>2, <2>1
<1>17. CASE PairSuccess
  <2>1. rpc' = rpc /\ rcode' = rcode /\ retired' = retired /\ client = NoDevice /\ up /\ up'
    BY <1>17 DEF PairSuccess, recVars, envVars
  <2> QED BY <2>1, Zenon DEF Told
<1>18. CASE AttemptFailed(ok) \/ Disconnected \/ LoopStart \/ Clean \/ Tick
  <2>1. UNCHANGED <<rpc, rcode, retired, client, up>>
    BY <1>18, Zenon DEF AttemptFailed, Disconnected, LoopStart, Clean, Tick, recVars, sessVars, envVars
  <2> QED BY <1>1, <2>1
<1>19. CASE Snapshot(d) \/ Decide(d) \/ Dial(d)
  <2>1. UNCHANGED <<rpc, rcode, retired, client, up>>
    BY <1>19, Zenon DEF Snapshot, Decide, Dial, recVars, sessVars, envVars
  <2> QED BY <1>1, <2>1
<1> QED
  BY <1>3, <1>5, <1>7, <1>8, <1>10, <1>11, <1>12, <1>13, <1>14, <1>15, <1>16, <1>17, <1>18, <1>19
  DEF MarkerStep, OtherStep

LEMMA LinkingKept ==
  ASSUME TypeOK, Linking,
         NEW r \in Recorders, NEW c \in Codes, NEW ok \in BOOLEAN, NEW d \in Dialers,
         NEW b \in {build, build + 1},
         MarkerStep(r, ok, d, b) \/ OtherStep(r, c, ok, d)
  PROVE  Linking'
<1>0. "ctl" \in Dialers /\ "loop" \in Dialers /\ dpc \in [Dialers -> Stages] BY DEF Dialers, TypeOK
<1>1. CASE UNCHANGED <<client, retired, up>> /\ dpc'["ctl"] = dpc["ctl"]
  BY <1>1 DEF Linking, Attempting
<1>2. CASE dpc'["ctl"] \in {"wait", "begin", "clean", "delete", "publish"}
  BY <1>2 DEF Linking, Attempting
<1>3. CASE ~retired' /\ dpc'["ctl"] # "dialed" BY <1>3 DEF Linking
<1>4. CASE Refused(r, c)
  <2>1. dpc' = dpc /\ client' = client /\ up' = up /\ (client = NoDevice => c # 401)
    BY <1>4 DEF Refused, dialVars, envVars
  <2>2. retired' => retired \/ c = 401 BY <1>4, Zenon DEF Refused
  <2> QED BY <2>1, <2>2, Zenon DEF Linking, Attempting
<1>5. CASE Record(r) \/ Connected(ok)
  BY <1>1, <1>5, Zenon DEF Record, Connected, dialVars, sessVars, envVars
<1>6. CASE Write(r, ok)
  <2>1. CASE rcode[r] = 405 BY <1>0, <1>2, <1>6, <2>1 DEF Write, Down
  <2>2. CASE rcode[r] # 405 BY <1>1, <1>6, <2>2 DEF Write, dialVars, sessVars, envVars
  <2> QED BY <2>1, <2>2
<1>7. CASE Park(r)
  <2>1. dpc'["ctl"] \in {dpc["ctl"], "wait"} BY <1>0, <1>7, Zenon DEF Park, dialVars
  <2>2. UNCHANGED <<client, retired, up>> BY <1>7 DEF Park, sessVars, envVars
  <2> QED BY <1>1, <1>2, <2>1, <2>2, Zenon
<1>8. CASE AttemptFailed(ok) \/ PairSuccess \/ Clean
  <2>1. dpc'["ctl"] \in {"wait", "begin", "clean", "delete"}
    BY <1>0, <1>8 DEF AttemptFailed, PairSuccess, Clean, CleanupFailed
  <2> QED BY <1>2, <2>1, Zenon
<1>9. CASE Disconnected \/ LoopStart \/ Tick
  <2>1. UNCHANGED <<client, retired, up>> /\ dpc'["ctl"] = dpc["ctl"]
    BY <1>0, <1>9, Zenon DEF Disconnected, LoopStart, Tick, dialVars, sessVars, envVars
  <2> QED BY <1>1, <2>1, Zenon
<1>10. CASE Snapshot(d) \/ Retry(d, ok) \/ Decide(d)
  <2>1. UNCHANGED <<client, retired, up>> /\ up
    BY <1>10, Zenon DEF Snapshot, Retry, Decide, sessVars, envVars
  <2>2. \/ dpc'["ctl"] = dpc["ctl"]
        \/ dpc["ctl"] \in {"snap", "retry", "decide"} /\ dpc'["ctl"] # "dialed"
    BY <1>0, <1>10, Zenon DEF Snapshot, Retry, Decide
  <2> QED BY <2>1, <2>2 DEF Linking, Attempting
<1>11. CASE Dial(d)
  <2>1. UNCHANGED <<client, retired, up>> /\ up BY <1>11 DEF Dial, envVars
  <2>2. CASE d = "ctl"
    <3>1. dpc["ctl"] = "dial" /\ (dpc'["ctl"] = "dialed" => client = NoDevice) BY <1>0, <1>11, <2>2, Zenon DEF Dial
    <3> QED BY <2>1, <3>1, Zenon DEF Linking, Attempting
  <2>3. CASE d # "ctl" BY <1>0, <1>1, <1>11, <2>1, <2>3, Zenon DEF Dial
  <2> QED BY <2>2, <2>3, Zenon
<1>12. CASE \E device : Install(device) BY <1>0, <1>3, <1>12 DEF Install
<1>13. CASE Begin
  <2>1. CASE Paired \/ Unlinked(mem)
    <3>1. dpc'["ctl"] \in {"wait", "clean"} BY <1>0, <1>13, <2>1, Zenon DEF Begin
    <3> QED BY <1>2, <3>1, Zenon
  <2>2. CASE ~(Paired \/ Unlinked(mem)) BY <1>12, <1>13, <2>2 DEF Begin
  <2> QED BY <2>1, <2>2
<1>14. CASE CleanupFailed
  <2>1. dpc'["ctl"] \in {"wait", "clean"} BY <1>0, <1>14, Zenon DEF CleanupFailed
  <2> QED BY <1>2, <2>1
<1>15. CASE Delete(ok) BY <1>0, <1>2, <1>14, <1>15, DeleteCases
<1>16. CASE Publish(ok) BY <1>12, <1>14, <1>16, PublishCases, Zenon
<1>17. CASE OperatorRestart(ok)
  <2>1. dpc'["ctl"] = "wait" \/ dpc' = dpc BY <1>0, <1>17, OperatorCases, Zenon
  <2> QED BY <1>1, <1>2, <1>17, <2>1, OperatorCases, Zenon DEF envVars
<1>18. CASE Crash BY <1>0, <1>2, <1>18 DEF Crash, Down
<1>19. CASE Restart(b)
  <2>1. dpc'["ctl"] = "wait" \/ (dpc'["ctl"] = "snap" /\ ~retired')
    BY <1>0, <1>19, Zenon DEF Restart
  <2> QED BY <1>2, <1>3, <2>1
<1> QED
  BY <1>4, <1>5, <1>6, <1>7, <1>8, <1>9, <1>10, <1>11, <1>13, <1>15, <1>16, <1>17, <1>18, <1>19
  DEF MarkerStep, OtherStep
=============================================================================
