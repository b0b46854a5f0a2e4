--------------------------- MODULE OperatorProofs ---------------------------
(***************************************************************************)
(* Theorems about what an operator is told and may change.                 *)
(*                                                                         *)
(* RuntimeSettings, for any tools, routes, chats, tables and PATCHes: a    *)
(* request is let through by one committed table and never beyond the      *)
(* deployment, ceilings hold, and versions only grow.                      *)
(*                                                                         *)
(* SessionSnapshots, for any number of sets kept, taken, failing and cut   *)
(* short: an answered set is lost only to newer ones, and no copy of the   *)
(* keys outlives a recorded wipe.                                          *)
(***************************************************************************)
EXTENDS RuntimeSettings, SessionSnapshots, FiniteSetTheorems, TLAPS
-----------------------------------------------------------------------------
(* Settings: lists *)

\* The tool floor lets a tool through only if every list does.
LEMMA FloorFacts ==
  ASSUME NEW e, NEW t, NEW name \in Tools, AllowsTool(ToolFloor(e, t), name)
  PROVE  ToolWanted(e, t, name)
<1> DEFINE run   == ToolSetting(e, t, "allow")
           open  == run = {} /\ ~ClosedAllow(e, t)
           allow == IF e.allow = {} THEN run ELSE IF open THEN e.allow ELSE run \cap e.allow
           shut  == allow = {} /\ ~open
<1>1. /\ name \notin ToolSetting(e, t, "deny") /\ name \notin e.deny /\ ~shut
      /\ allow = {} \/ name \in allow
  BY DEF AllowsTool, ToolFloor
<1>2. Saved(t.deny) => name \notin t.deny.v BY <1>1 DEF ToolSetting
<1>3. e.allow = {} \/ name \in e.allow BY <1>1
<1>4. Saved(t.allow) => t.allow.v = {} \/ name \in t.allow.v BY <1>1 DEF ToolSetting, ClosedAllow
<1>5. t.allow.is = "bad" => e.allow # {} BY <1>1 DEF ToolSetting, ClosedAllow, Saved
<1> QED BY <1>1, <1>2, <1>3, <1>4, <1>5 DEF ToolWanted

\* A route that is not refused is one the deployment and the table want.
LEMMA RouteFacts ==
  ASSUME SettingsAssumption, NEW e, NEW t, NEW p \in Paths, ~Refusal(ToolFloor(e, t), p)
  PROVE  PathWanted(e, t, p)
<1>1. Tools # {} /\ Endpoint[p] \subseteq Tools BY DEF SettingsAssumption
<1>2. CASE Endpoint[p] = {}
  <2>1. ToolFloor(e, t).allow = {} /\ ToolFloor(e, t).deny = {} BY <1>2 DEF Refusal
  <2>2. e.allow = {} /\ e.deny = {} BY <1>1, <2>1 DEF ToolFloor
  <2> QED BY <1>2, <2>2 DEF PathWanted
<1>3. CASE Endpoint[p] # {}
  <2>1. PICK name \in Endpoint[p] : AllowsTool(ToolFloor(e, t), name) BY <1>3 DEF Refusal, AllowsTool
  <2>2. ToolWanted(e, t, name) BY <1>1, <2>1, FloorFacts
  <2> QED BY <1>3, <2>2 DEF PathWanted
<1> QED BY <1>2, <1>3

\* Intersecting two chat lists entry for entry lets through no chat that one of them denies.
LEMMA IntersectFacts ==
  ASSUME NEW run, NEW deploy, NEW jid, run.restricted, Allows(Intersect(run, deploy), jid)
  PROVE  Allows(run, jid) /\ Allows(deploy, jid)
  BY DEF Intersect, Allows

LEMMA ChatFacts ==
  ASSUME NEW e, NEW t, NEW jid, Allows(ChatPolicy(e, t), jid)
  PROVE  ChatWanted(e, t, jid)
<1> DEFINE list == IF Saved(t.chats) THEN t.chats.v ELSE [exact |-> {}, servers |-> {}]
           run  == [restricted |-> TRUE, exact |-> list.exact, servers |-> list.servers]
<1>1. CASE t.chats.is \in {"value", "bad"}
  <2>1. ChatPolicy(e, t) = Intersect(run, Policy(e.chats)) BY <1>1 DEF ChatPolicy
  <2>2. run.restricted OBVIOUS
  <2> HIDE DEF run
  <2>3. Allows(run, jid) /\ Allows(Policy(e.chats), jid) BY <2>1, <2>2, IntersectFacts
  <2> USE DEF run
  <2>4. jid \in list.exact \/ Server[jid] \in list.servers BY <2>3 DEF Allows
  <2> QED BY <2>3, <2>4 DEF ChatWanted, Saved
<1>2. CASE t.chats.is \notin {"value", "bad"} BY <1>2 DEF ChatPolicy, ChatWanted, Saved
<1> QED BY <1>1, <1>2
-----------------------------------------------------------------------------
(* Settings: ceilings *)

LEMMA LimitFacts ==
  ASSUME NEW e, NEW t, NEW k, e[k] \in Nat, Saved(t[k]) => t[k].v \in Nat
  PROVE  AtMost(Limit(e, t, k), e[k]) /\ (Saved(t[k]) => AtMost(Limit(e, t, k), t[k].v))
<1>1. CASE Saved(t[k]) BY <1>1 DEF Limit, Setting, AtMost
<1>2. CASE ~Saved(t[k]) BY <1>2 DEF Limit, Setting, AtMost
<1> QED BY <1>1, <1>2

\* What is computed from a deployment and a table is inside both.
LEMMA CeilingFacts ==
  ASSUME DeploymentOK(env), TableOK(rows)
  PROVE  CeilingsHeld
<1> DEFINE s == Snapshot(env, rows)
<1>1. /\ s.rate = Limit(env, rows, "rate") /\ s.quota = Limit(env, rows, "quota")
      /\ s.interval = Interval(env, rows) /\ s.minutes = Minutes(env, rows)
      /\ s.types = MediaTypes(env, rows) /\ s.percent = Percent(env, rows)
  BY DEF Snapshot
<1>2. s.status = Status(env, rows) BY DEF Snapshot
<1> HIDE DEF s
<1>3. /\ env.rate \in Nat /\ env.quota \in Nat /\ env.interval \in Nat /\ env.percent \in Nat
      /\ env.minutes \in Nat \cup {NoCap}
  BY DEF DeploymentOK
<1>4. /\ Saved(rows.rate) => rows.rate.v \in Nat
      /\ Saved(rows.quota) => rows.quota.v \in Nat
      /\ Saved(rows.interval) => rows.interval.v \in Nat
      /\ Saved(rows.minutes) => rows.minutes.v \in Nat
      /\ Saved(rows.percent) => rows.percent.v \in Nat
  BY DEF TableOK, ValueOK, AllKeys, Keys
<1>5. AtMost(s.rate, env.rate) /\ (Saved(rows.rate) => AtMost(s.rate, rows.rate.v))
  BY <1>1, <1>3, <1>4, LimitFacts
<1>6. AtMost(s.quota, env.quota) /\ (Saved(rows.quota) => AtMost(s.quota, rows.quota.v))
  BY <1>1, <1>3, <1>4, LimitFacts
<1>7. s.interval >= env.interval /\ (Saved(rows.interval) => s.interval >= rows.interval.v)
  BY <1>1, <1>3, <1>4 DEF Interval, Setting
<1>8. /\ env.minutes # NoCap => s.minutes \in 0..env.minutes
      /\ Saved(rows.minutes) => s.minutes \in 0..rows.minutes.v
  BY <1>1, <1>3, <1>4 DEF Minutes, Setting, NoCap
<1>9. "types" \in env.given => s.types \subseteq env.types BY <1>1 DEF MediaTypes
<1>10. "percent" \in env.given => s.percent <= env.percent BY <1>1, <1>3, <1>4 DEF Percent, Setting
<1>11. "status" \in env.given => (s.status => env.status) BY <1>2, Zenon DEF Status
<1> QED BY <1>5, <1>6, <1>7, <1>8, <1>9, <1>10, <1>11 DEF CeilingsHeld, s
-----------------------------------------------------------------------------
(* Settings: versions *)

\* Some row of S has the highest version.
HasLatest(t, S) == \E m \in S : \A k \in S : t[k].version <= t[m].version

LEMMA OneMore ==
  ASSUME NEW t, NEW S, HasLatest(t, S), NEW j, \A k \in S \cup {j} : t[k].version \in Nat
  PROVE  HasLatest(t, S \cup {j})
<1>1. PICK m \in S : \A k \in S : t[k].version <= t[m].version BY DEF HasLatest
<1>2. CASE t[j].version <= t[m].version BY <1>1, <1>2 DEF HasLatest
<1>3. CASE ~(t[j].version <= t[m].version) BY <1>1, <1>3 DEF HasLatest
<1> QED BY <1>2, <1>3

\* The version of a table is the highest of its rows.
LEMMA VersionFacts ==
  ASSUME NEW t, TableOK(t)
  PROVE  Version(t) \in Nat /\ \A k \in AllKeys : t[k].version <= Version(t)
<1> DEFINE Two   == {"allow"} \cup {"deny"}
           Three == Two \cup {"chats"}
           Four  == Three \cup {"rate"}
           Five  == Four \cup {"interval"}
           Six   == Five \cup {"quota"}
           Seven == Six \cup {"types"}
           Eight == Seven \cup {"percent"}
           Nine  == Eight \cup {"status"}
           Ten   == Nine \cup {"minutes"}
           Most  == Ten \cup {"scope"}
           Whole == Most \cup {TokenKey}
<1>1. \A k \in AllKeys : t[k].version \in Nat BY DEF TableOK
<1>2. Whole = AllKeys BY DEF AllKeys, Keys
<1>3. \A k \in Whole : t[k].version \in Nat BY <1>1, <1>2
<1>4. HasLatest(t, {"allow"}) BY <1>3 DEF HasLatest
<1>5. HasLatest(t, Three) BY <1>3, <1>4, OneMore, Zenon
<1>6. HasLatest(t, Five) BY <1>3, <1>5, OneMore, Zenon
<1>7. HasLatest(t, Seven) BY <1>3, <1>6, OneMore, Zenon
<1>8. HasLatest(t, Nine) BY <1>3, <1>7, OneMore, Zenon
<1>9. HasLatest(t, Most) BY <1>3, <1>8, OneMore, Zenon
<1>10. HasLatest(t, Whole) BY <1>3, <1>9, OneMore, Zenon
<1>11. PICK m \in AllKeys : \A k \in AllKeys : t[k].version <= t[m].version
  BY <1>2, <1>10, Zenon DEF HasLatest
<1>12. \E n \in {t[k].version : k \in AllKeys} : \A k \in AllKeys : t[k].version <= n BY <1>11
<1>13. /\ Version(t) \in {t[k].version : k \in AllKeys}
       /\ \A k \in AllKeys : t[k].version <= Version(t)
  BY <1>12 DEF Version
<1> QED BY <1>1, <1>13
-----------------------------------------------------------------------------
(* Settings: the table and its transaction *)

\* A draft differs from the table in rows of a higher version only, and what is still
\* to be written was validated.
StoreInv ==
  /\ DeploymentOK(env) /\ TableOK(rows) /\ TableOK(draft)
  /\ \A k \in AllKeys : draft[k] = rows[k] \/ draft[k].version > Version(rows)
  /\ mutex # None => \A k \in DOMAIN todo : todo[k] # Null => ValueOK(k, todo[k])

WithRow(t, k, v, n) == [t EXCEPT ![k] = Written(v, n)]

LEMMA WrittenFacts ==
  ASSUME NEW t, TableOK(t), NEW k, NEW v, NEW n \in Nat,
         v # Null => ValueOK(k, v), NEW u, u = WithRow(t, k, v, n)
  PROVE  /\ TableOK(u) /\ \A j \in AllKeys : u[j] = t[j] \/ u[j].version = n
<1>1. /\ Written(v, n).version = n
      /\ Saved(Written(v, n)) => v # Null /\ Written(v, n).v = v
  BY DEF Written, Cell, Saved
<1>2. u = [j \in AllKeys |-> u[j]] /\ \A j \in AllKeys : u[j] = IF j = k THEN Written(v, n) ELSE t[j]
  BY DEF TableOK, WithRow
<1> QED BY <1>1, <1>2 DEF TableOK

LEMMA StoreKept ==
  ASSUME SettingsAssumption, StoreInv, Next
  PROVE  StoreInv' /\ VersionGrows
<1>0. /\ TableOK(rows) /\ TableOK(draft) /\ DeploymentOK(env)
      /\ Version(rows) \in Nat /\ Version(rows) + 1 \in Nat /\ Version(rows) + 1 > Version(rows)
  BY VersionFacts DEF StoreInv
<1>1. CASE UNCHANGED <<env, rows, draft, mutex, todo>> BY <1>1 DEF StoreInv, VersionGrows
<1>2. ASSUME NEW o \in Operators, NEW patch \in Patches, Begin(o, patch) PROVE StoreInv' /\ VersionGrows
  <2>1. UNCHANGED <<env, rows>> /\ draft' = rows /\ todo' = patch BY <1>2 DEF Begin, Rest
  <2>2. \A k \in DOMAIN patch : patch[k] # Null => ValueOK(k, patch[k]) BY DEF SettingsAssumption
  <2> QED BY <1>0, <2>1, <2>2 DEF StoreInv, VersionGrows
<1>3. ASSUME NEW o \in Operators, WriteRow(o) PROVE StoreInv' /\ VersionGrows
  <2> DEFINE k == CHOOSE x \in DOMAIN todo : TRUE
  <2>1. mutex = o /\ o # None /\ k \in DOMAIN todo BY <1>3 DEF WriteRow, SettingsAssumption
  <2>2. UNCHANGED <<env, rows, mutex>> BY <1>3 DEF WriteRow, Rest
  <2>3. draft' = WithRow(draft, k, todo[k], Version(rows) + 1) BY <1>3 DEF WriteRow, WithRow
  <2>4. todo' = [x \in DOMAIN todo \ {k} |-> todo[x]] BY <1>3 DEF WriteRow
  <2> HIDE DEF k
  <2>5. \A x \in DOMAIN todo : todo[x] # Null => ValueOK(x, todo[x]) BY <2>1 DEF StoreInv
  <2>6. /\ TableOK(draft')
        /\ \A j \in AllKeys : draft'[j] = draft[j] \/ draft'[j].version = Version(rows) + 1
    <3>1. todo[k] # Null => ValueOK(k, todo[k]) BY <2>1, <2>5
    <3> QED BY <1>0, <2>3, <3>1, WrittenFacts
  <2>7. \A j \in AllKeys : draft'[j] = rows[j] \/ draft'[j].version > Version(rows)
    BY <1>0, <2>6 DEF StoreInv
  <2> QED BY <1>0, <2>2, <2>4, <2>5, <2>6, <2>7 DEF StoreInv, VersionGrows
<1>4. ASSUME NEW o \in Operators, CommitPatch(o) PROVE StoreInv' /\ VersionGrows
  <2>1. UNCHANGED env /\ rows' = draft /\ draft' = draft /\ mutex' = None
    BY <1>4 DEF CommitPatch, Commit, Rest
  <2>2. CASE draft = rows BY <1>0, <2>1, <2>2 DEF StoreInv, VersionGrows
  <2>3. CASE draft # rows
    <3>1. PICK k \in AllKeys : draft[k] # rows[k] BY <1>0, <2>3 DEF TableOK
    <3>2. draft[k].version > Version(rows) /\ draft[k].version <= Version(draft)
      BY <1>0, <3>1, VersionFacts DEF StoreInv
    <3>3. Version(draft) > Version(rows)
      BY <1>0, <3>2, VersionFacts DEF TableOK
    <3> QED BY <1>0, <2>1, <3>3 DEF StoreInv, VersionGrows
  <2> QED BY <2>2, <2>3
<1>5. ASSUME NEW o \in Operators, PatchFails(o) PROVE StoreInv' /\ VersionGrows
  BY <1>0, <1>5 DEF PatchFails, Rest, StoreInv, VersionGrows
<1>6. ASSUME NEW clear \in BOOLEAN, SaveToken(clear) PROVE StoreInv' /\ VersionGrows
  <2> DEFINE v == IF clear THEN Null ELSE 1
             u == WithRow(rows, TokenKey, v, Version(rows) + 1)
  <2>1. UNCHANGED <<env, mutex, todo>> /\ mutex = None /\ rows' = u /\ draft' = u
    BY <1>6 DEF SaveToken, Commit, Rest, WithRow
  <2>2. ValueOK(TokenKey, v) BY DEF ValueOK, TokenKey
  <2>3. TokenKey \in AllKeys /\ u[TokenKey].version = Version(rows) + 1
    BY <1>0 DEF AllKeys, TableOK, Written, Cell, WithRow
  <2> HIDE DEF v
  <2>4. TableOK(u) BY <1>0, <2>2, WrittenFacts
  <2> HIDE DEF u
  <2>5. Version(u) > Version(rows) BY <1>0, <2>3, <2>4, VersionFacts
  <2> QED BY <1>0, <2>1, <2>4, <2>5 DEF StoreInv, VersionGrows
<1>7. ASSUME NEW r \in Clients, Request(r) PROVE StoreInv' /\ VersionGrows
  BY <1>1, <1>7, Zenon DEF Request, Pin, PinFails, ToolGuard, Parked, Finish, AuthorizeChat, World, txVars
<1>8. ASSUME NEW e \in Deployments, Restart(e) PROVE StoreInv' /\ VersionGrows
  BY <1>0, <1>8, Zenon DEF Restart, StoreInv, VersionGrows, SettingsAssumption
<1> QED BY <1>2, <1>3, <1>4, <1>5, <1>6, <1>7, <1>8 DEF Next, Operator
-----------------------------------------------------------------------------
(* Settings: requests *)

Domains ==
  /\ DOMAIN pc = Clients /\ DOMAIN path = Clients /\ DOMAIN pinned = Clients
  /\ DOMAIN granted = Clients /\ DOMAIN window = Clients

\* The snapshot of table t.
PinOf(e, t) == [chats |-> ChatPolicy(e, t), tools |-> ToolFloor(e, t)]

\* r works with table t, which permits all that it has been let through to.
WorksWith(r, t) ==
  /\ t \in window[r] /\ pinned[r] = PinOf(env, t)
  /\ r \in Mutators => path[r] \in Paths
  /\ r \in Mutators /\ pc[r] = "chats" => ~Refusal(ToolFloor(env, t), path[r])
  /\ \A jid \in granted[r] : Allows(ChatPolicy(env, t), jid)

\* A request that could read no table is let through to nothing.
PinInv ==
  \A r \in Clients :
    /\ pc[r] = "idle" => granted[r] = {}
    /\ pc[r] # "idle" => (pinned[r] = NoPin /\ granted[r] = {}) \/ \E t : WorksWith(r, t)

LEMMA EndKeeps ==
  ASSUME Domains, PinInv, NEW r \in Clients, End(r), env' = env
  PROVE  Domains' /\ PinInv'
<1>1. Domains' BY DEF Domains, End
<1>2. ASSUME NEW q \in Clients, q # r
      PROVE  UNCHANGED <<pc[q], path[q], pinned[q], granted[q], window[q]>>
  BY <1>2 DEF Domains, End
<1>3. pc'[r] = "idle" /\ granted'[r] = {} BY DEF Domains, End
<1> QED BY <1>1, <1>2, <1>3 DEF PinInv, WorksWith

LEMMA PinKept ==
  ASSUME Domains, PinInv, Next
  PROVE  Domains' /\ PinInv'
<1>1. ASSUME NEW o \in Operators, Operator(o) PROVE Domains' /\ PinInv'
  <2>1. UNCHANGED <<env, pc, path, pinned, granted>> /\ DOMAIN window' = Clients
    BY <1>1 DEF Operator, Begin, WriteRow, CommitPatch, PatchFails, Commit, Rest, Domains
  <2>2. \A r \in Clients : pc[r] # "idle" => window[r] \subseteq window'[r]
    BY <1>1 DEF Operator, Begin, WriteRow, CommitPatch, PatchFails, Commit
  <2> QED BY <2>1, <2>2 DEF Domains, PinInv, WorksWith
<1>2. ASSUME NEW clear \in BOOLEAN, SaveToken(clear) PROVE Domains' /\ PinInv'
  <2>1. UNCHANGED <<env, pc, path, pinned, granted>> /\ DOMAIN window' = Clients
    BY <1>2 DEF SaveToken, Commit, Rest, Domains
  <2>2. \A r \in Clients : pc[r] # "idle" => window[r] \subseteq window'[r]
    BY <1>2 DEF SaveToken, Commit
  <2> QED BY <2>1, <2>2 DEF Domains, PinInv, WorksWith
<1>3. ASSUME NEW r \in Clients, Request(r) PROVE Domains' /\ PinInv'
  <2>0. env' = env
    BY <1>3 DEF Request, Pin, PinFails, ToolGuard, Parked, Finish, AuthorizeChat, World
  <2>1. ASSUME NEW p, (r \in Mutators => p \in Paths), Pin(r, p) PROVE Domains' /\ PinInv'
    <3>1. Domains' BY <2>1 DEF Pin, Domains
    <3>2. ASSUME NEW q \in Clients, q # r
          PROVE  UNCHANGED <<pc[q], path[q], pinned[q], granted[q], window[q]>>
      BY <2>1, <3>2 DEF Pin, Domains
    <3>3. /\ pc[r] = "idle" /\ pc'[r] = (IF r \in Mutators THEN "tools" ELSE "chats")
          /\ path'[r] = p /\ pinned'[r] = PinOf(env, rows) /\ window'[r] = {rows} /\ granted' = granted
      BY <2>1 DEF Pin, Domains, PinOf
    <3>4. granted'[r] = {} BY <3>3 DEF PinInv
    <3>5. pc'[r] # "idle" /\ ~(r \in Mutators /\ pc'[r] = "chats") BY <3>3
    <3>6. \E t : WorksWith(r, t)'
      <4>1. PICK t : t = rows BY Zenon
      <4>2. WorksWith(r, t)' BY <2>0, <2>1, <3>3, <3>4, <3>5, <4>1, Zenon DEF WorksWith
      <4> QED BY <4>2
    <3>7. ASSUME NEW q \in Clients, q # r, NEW t, WorksWith(q, t) PROVE WorksWith(q, t)'
      BY <2>0, <3>2, <3>7, Zenon DEF WorksWith
    <3> QED BY <3>1, <3>2, <3>4, <3>5, <3>6, <3>7 DEF PinInv
  <2>2. CASE PinFails(r)
    <3>1. Domains' BY <2>2 DEF PinFails, Domains
    <3>2. ASSUME NEW q \in Clients, q # r
          PROVE  UNCHANGED <<pc[q], path[q], pinned[q], granted[q], window[q]>>
      BY <2>2, <3>2 DEF PinFails, Domains
    <3>3. pc[r] = "idle" /\ pc'[r] = "chats" /\ pinned'[r] = NoPin /\ granted' = granted
      BY <2>2 DEF PinFails, Domains
    <3> QED BY <2>0, <3>1, <3>2, <3>3 DEF PinInv, WorksWith
  <2>3. CASE ToolGuard(r)
    <3>1. CASE Refusal(pinned[r].tools, path[r]) BY <2>0, <2>3, <3>1, EndKeeps DEF ToolGuard
    <3>2. CASE ~Refusal(pinned[r].tools, path[r])
      <4>1. UNCHANGED <<path, pinned, granted, window>> /\ pc[r] = "tools" /\ pc' = [pc EXCEPT ![r] = "chats"]
        BY <2>3, <3>2 DEF ToolGuard
      <4>2. Domains' BY <4>1 DEF Domains
      <4>3. pc'[r] = "chats" /\ \A q \in Clients \ {r} : pc'[q] = pc[q] BY <4>1, Zenon DEF Domains
      <4>4. ASSUME NEW t, WorksWith(r, t) PROVE WorksWith(r, t)'
        <5>1. pinned[r].tools = ToolFloor(env, t) BY <4>4 DEF WorksWith, PinOf
        <5> QED BY <2>0, <3>2, <4>1, <4>4, <5>1 DEF WorksWith
      <4>5. ASSUME NEW q \in Clients \ {r}, NEW t, WorksWith(q, t) PROVE WorksWith(q, t)'
        BY <2>0, <4>1, <4>3, <4>5 DEF WorksWith
      <4> QED BY <4>1, <4>2, <4>3, <4>4, <4>5 DEF PinInv
    <3> QED BY <3>1, <3>2
  <2>4. CASE Parked(r) \/ Finish(r) BY <2>0, <2>4, EndKeeps DEF Parked, Finish
  <2>5. ASSUME NEW jid \in JIDs, AuthorizeChat(r, jid) PROVE Domains' /\ PinInv'
    <3>1. CASE ~Allows(ChatsOf(r), jid) BY <2>0, <2>5, <3>1, EndKeeps, Zenon DEF AuthorizeChat
    <3>2. CASE Allows(ChatsOf(r), jid)
      <4>1. /\ UNCHANGED <<pc, path, pinned, window>> /\ pc[r] = "chats"
            /\ granted' = [granted EXCEPT ![r] = @ \cup {jid}]
        BY <2>5, <3>2 DEF AuthorizeChat
      <4>2. Domains' BY <4>1 DEF Domains
      <4>3. granted'[r] = granted[r] \cup {jid} /\ \A q \in Clients \ {r} : granted'[q] = granted[q]
        BY <4>1 DEF Domains
      <4>4. pinned[r] # NoPin BY <3>2 DEF ChatsOf, NoPin, Allows
      <4>5. ASSUME NEW t, WorksWith(r, t) PROVE WorksWith(r, t)'
        <5>1. Allows(ChatPolicy(env, t), jid) BY <3>2, <4>5 DEF WorksWith, PinOf, ChatsOf
        <5> QED BY <2>0, <4>1, <4>3, <4>5, <5>1, Zenon DEF WorksWith
      <4>6. ASSUME NEW q \in Clients \ {r}, NEW t, WorksWith(q, t) PROVE WorksWith(q, t)'
        BY <2>0, <4>1, <4>3, <4>6 DEF WorksWith
      <4> QED BY <4>1, <4>2, <4>3, <4>4, <4>5, <4>6 DEF PinInv
    <3> QED BY <3>1, <3>2
  <2> QED BY <1>3, <2>1, <2>2, <2>3, <2>4, <2>5 DEF Request
<1>4. ASSUME NEW e \in Deployments, Restart(e) PROVE Domains' /\ PinInv'
  BY <1>4, Zenon DEF Restart, Domains, PinInv
<1> QED BY <1>1, <1>2, <1>3, <1>4 DEF Next
-----------------------------------------------------------------------------
(* Settings: theorems *)

IInv == StoreInv /\ Domains /\ PinInv

LEMMA InitInv == ASSUME SettingsAssumption, Init PROVE IInv
<1>1. DeploymentOK(env) /\ TableOK(rows) BY Zenon DEF Init, SettingsAssumption
<1>2. StoreInv BY <1>1 DEF Init, StoreInv
<1>3. Domains BY DEF Init, Domains
<1>4. PinInv BY DEF Init, PinInv
<1> QED BY <1>2, <1>3, <1>4 DEF IInv

LEMMA StepInv == ASSUME SettingsAssumption, IInv, [Next]_vars PROVE IInv' /\ [VersionGrows]_vars
<1>1. CASE Next BY <1>1, StoreKept, PinKept DEF IInv
<1>2. CASE UNCHANGED vars
  <2>1. UNCHANGED <<env, rows, mutex, draft, todo, pc, path, pinned, granted, window>>
    BY <1>2 DEF vars, tableVars, txVars, requestVars
  <2>2. StoreInv' BY <2>1 DEF IInv, StoreInv
  <2>3. Domains' BY <2>1, Zenon DEF IInv, Domains
  <2>4. PinInv' BY <2>1 DEF IInv, PinInv, WorksWith
  <2> QED BY <1>2, <2>2, <2>3, <2>4 DEF IInv
<1> QED BY <1>1, <1>2

\* Whatever PATCHes commit around a request, restarts included, it acts on its chats only
\* as one table in force during it permits, within the deployment, and what is in force
\* never exceeds the deployment's ceilings (runtimePolicyGuard, applyRuntimeToolFloor,
\* applyRuntimeSendCeiling).
THEOREM OnePolicy ==
  Spec => []OneCommittedPolicy
<1>1. Init => IInv BY SettingsGiven, InitInv
<1>2. IInv /\ [Next]_vars => IInv' BY SettingsGiven, StepInv
<1>3. ASSUME IInv PROVE OneTable
  <2> SUFFICES ASSUME NEW r \in Clients, pc[r] = "chats", granted[r] # {}
               PROVE  \E t \in window[r] : /\ r \in Mutators => PathWanted(env, t, path[r])
                                           /\ \A jid \in granted[r] : ChatWanted(env, t, jid)
    BY DEF OneTable
  <2>1. PICK t : WorksWith(r, t) BY <1>3, Zenon DEF IInv, PinInv
  <2>2. r \in Mutators => PathWanted(env, t, path[r]) BY <2>1, SettingsGiven, RouteFacts, Zenon DEF WorksWith
  <2>3. \A jid \in granted[r] : ChatWanted(env, t, jid) BY <2>1, ChatFacts DEF WorksWith
  <2> QED BY <2>1, <2>2, <2>3, Zenon DEF WorksWith
<1>4. IInv => CeilingsHeld BY CeilingFacts DEF IInv, StoreInv
<1> QED BY <1>1, <1>2, <1>3, <1>4, PTL DEF Spec, OneCommittedPolicy

\* No committed change of the settings brings back a version that was in force before: a
\* PATCH of any length, a cleared override or a rotated token (patchRuntimeSettings,
\* saveMCPToken).
THEOREM NoVersionTwice ==
  Spec => VersionsGrow
<1>1. Init => IInv BY SettingsGiven, InitInv
<1>2. IInv /\ [Next]_vars => IInv' /\ [VersionGrows]_vars BY SettingsGiven, StepInv
<1> QED BY <1>1, <1>2, PTL DEF Spec, VersionsGrow
-----------------------------------------------------------------------------
(* Snapshots *)

\* The databases of a snapshot, in order; the session's keys come last, or not at all.
LEMMA DatabaseFacts ==
  ASSUME NEW session \in BOOLEAN
  PROVE  /\ (session => Len(Databases(session)) = 3) /\ (~session => Len(Databases(session)) = 2)
         /\ Databases(session)[1] = "messages" /\ Databases(session)[2] = "notes"
         /\ session => Databases(session)[3] = "whatsapp"
<1>1. CASE session BY <1>1 DEF Databases
<1>2. CASE ~session BY <1>2 DEF Databases
<1> QED BY <1>1, <1>2

Controls == {"none", "copy", "copying", "rename", "renaming", "published", "prune", "undo"}

\* The running snapshot: where it is in its databases, then in the files it made.
RunInv ==
  /\ nSets \in Nat /\ keys \in BOOLEAN /\ spc \in Controls
  /\ Running => nSets > 0 /\ at \in Nat \ {0}
  /\ spc \in {"copy", "copying"} => at \in 1..3 /\ (at = 3 => keys)

\* A file the running snapshot made has its final name, unless a logout took it.
Final(i) == made[i] # "whatsapp" => File(nSets, made[i], FALSE) \in files

\* Only sets that were begun have files, a final name is on record, and the running set is
\* not answered before its files have their final names, the first of them first.
SetInv ==
  /\ named \subseteq 1..nSets
  /\ \A f \in answered : f.set \in 1..nSets /\ f.db # "whatsapp"
  /\ \A f \in files : ~f.partial => f.set \in named
  /\ Running => \A f \in answered : f.set # nSets
  /\ spc \in {"rename", "renaming"} => \A i \in 1..Len(made) : i < at => Final(i)
  /\ spc \in {"published", "prune"} => nSets \in named /\ \A i \in 1..Len(made) : Final(i)

\* What the logout needs of the session's readers: from the park on none begins, and none
\* is left when the copies of the keys are removed.
WipeInv ==
  /\ gone \/ opc \in {"wait", "remove"} => idle
  /\ gone \/ opc = "remove" => ~keys
  /\ gone => opc = "none"
  /\ KeysGone

SnapInv == RunInv /\ SetInv /\ SetsRetained

LEMMA SnapInitInv == ASSUME SnapInit PROVE SnapInv /\ WipeInv
<1>1. RunInv BY Zenon DEF SnapInit, RunInv, Running, Controls
<1>2. SetInv BY DEF SnapInit, SetInv, Running
<1>3. SetsRetained BY DEF SnapInit, SetsRetained
<1>4. WipeInv BY DEF SnapInit, WipeInv, KeysGone, KeyFiles
<1> QED BY <1>1, <1>2, <1>3, <1>4 DEF SnapInv

LEMMA RunKept == ASSUME RunInv, SnapNext PROVE RunInv'
<1> USE DEF RunInv, Running, Controls
<1>1. CASE Look
  <2>1. UNCHANGED <<keys, nSets>> /\ spc # "none" BY <1>1 DEF Look
  <2>2. spc' \in {"undo", "renaming", "prune"} \/ (spc = "copy" /\ spc' = "copying" /\ at' = at) BY <1>1 DEF Look
  <2>3. at' = at \/ at' = 1 BY <1>1 DEF Look
  <2> QED BY <2>1, <2>2, <2>3
<1>2. CASE Undo \/ Die \/ \E b \in BOOLEAN : Prune(b) BY <1>2, Zenon DEF Undo, Die, Prune, Ended
<1>3. CASE Deadline \/ LogoutBegin \/ LogoutWait \/ Relink \/ \E b \in BOOLEAN : LogoutRemove(b)
  BY <1>3 DEF Deadline, LogoutBegin, LogoutWait, Relink, LogoutRemove
<1>4. ASSUME NEW b \in BOOLEAN, BeginSnapshot(b) PROVE RunInv'
  <2>1. keys' \in BOOLEAN BY <1>4, Zenon DEF BeginSnapshot
  <2>2. nSets' = nSets + 1 /\ spc' = "copy" /\ at' = 1 BY <1>4 DEF BeginSnapshot
  <2> QED BY <2>1, <2>2
<1>5. ASSUME NEW b \in BOOLEAN, Copy(b) PROVE RunInv'
  <2>1. UNCHANGED <<keys, nSets>> /\ spc = "copying" /\ spc' \in Controls BY <1>5, Zenon DEF Copy
  <2>2. at' = 1 \/ (at # Len(Databases(keys)) /\ at' = at + 1) BY <1>5, Zenon DEF Copy
  <2>3. CASE at' = 1 BY <2>1, <2>3
  <2>4. CASE at # Len(Databases(keys)) /\ at' = at + 1
    <3>1. (keys /\ at # 3) \/ (~keys /\ at # 2) BY <2>4, DatabaseFacts, Zenon
    <3>2. at \in 1..3 /\ (at = 3 => keys) BY <2>1
    <3>3. at' \in 1..3 /\ (at' = 3 => keys) BY <2>4, <3>1, <3>2
    <3> QED BY <2>1, <3>3
  <2> QED BY <2>2, <2>3, <2>4
<1>6. ASSUME NEW b \in BOOLEAN, Rename(b) PROVE RunInv'
  <2>1. /\ UNCHANGED <<keys, nSets>> /\ spc = "renaming" /\ spc' \in {"undo", "published", "rename"}
        /\ at' = 1 \/ at' = at + 1
    BY <1>6, Zenon DEF Rename
  <2> QED BY <2>1
<1> QED BY <1>1, <1>2, <1>3, <1>4, <1>5, <1>6 DEF SnapNext

\* More names never bring a set below the places it needs.
LEMMA NamesGrow ==
  ASSUME NEW N, IsFiniteSet(N), NEW M \in SUBSET N, NEW s, Cardinality({t \in M : t > s}) >= Keep
  PROVE  Cardinality({t \in N : t > s}) >= Keep
<1>1. IsFiniteSet({t \in N : t > s}) BY FS_Subset
<1>2. {t \in M : t > s} \in SUBSET {t \in N : t > s} OBVIOUS
<1>3. IsFiniteSet({t \in M : t > s}) BY <1>1, <1>2, FS_Subset
<1>4. Cardinality({t \in M : t > s}) <= Cardinality({t \in N : t > s}) BY <1>1, <1>2, FS_Subset
<1>5. Cardinality({t \in M : t > s}) \in Int /\ Cardinality({t \in N : t > s}) \in Int
  BY <1>1, <1>3, FS_CardinalityType
<1>6. Keep \in Int BY SnapshotAssumption
<1> QED BY <1>4, <1>5, <1>6

\* A set that the retention removes has Keep newer ones, the current one included.
LEMMA DoomedFacts ==
  ASSUME RunInv, SetInv, spc = "prune", NEW s \in Doomed, s \in Int
  PROVE  s # nSets /\ (s < nSets => Cardinality({t \in named : t > s}) >= Keep)
<1> DEFINE others == {f.set : f \in {f \in files : ~f.partial}} \ {nSets}
           newer  == {t \in others : t > s}
           all    == {t \in named : t > s}
<1>1. s \in others /\ Cardinality(newer) + 1 >= Keep BY DEF Doomed
<1>2. SUFFICES ASSUME s < nSets PROVE Cardinality(all) >= Keep BY <1>1
<1>3. IsFiniteSet(named)
  <2>1. IsFiniteSet(1..nSets) BY FS_Interval DEF RunInv
  <2> QED BY <2>1, FS_Subset, Zenon DEF SetInv
<1>4. others \subseteq named BY DEF SetInv
<1>5. IsFiniteSet(all) BY <1>3, FS_Subset
<1>6. newer \cup {nSets} \in SUBSET all BY <1>2, <1>4 DEF SetInv
<1>7. nSets \notin newer /\ newer \in SUBSET all BY <1>4
<1> HIDE DEF newer, all
<1>8. IsFiniteSet(newer) BY <1>5, <1>7, FS_Subset
<1>9. IsFiniteSet(newer \cup {nSets}) /\ Cardinality(newer \cup {nSets}) = Cardinality(newer) + 1
  BY <1>7, <1>8, FS_AddElement
<1>10. Cardinality(newer \cup {nSets}) <= Cardinality(all) BY <1>5, <1>6, FS_Subset
<1>11. Cardinality(newer) \in Int /\ Cardinality(all) \in Int /\ Keep \in Int
  BY <1>5, <1>8, FS_CardinalityType, SnapshotAssumption
<1> QED BY <1>1, <1>9, <1>10, <1>11

\* A step that leaves sets, names and the running snapshot's place alone.
LEMMA SetFrame ==
  ASSUME SetInv, SetsRetained, UNCHANGED <<at, made, nSets, named, answered, spc>>,
         files' \subseteq files, \A f \in files : f.db # "whatsapp" => f \in files'
  PROVE  SetInv' /\ SetsRetained'
<1>1. SetsRetained' BY Zenon DEF SetsRetained, SetInv
<1>2. \A i : File(nSets, made[i], FALSE).db = made[i] BY DEF File
<1>3. \A i : Final(i) => Final(i)' BY <1>2, Zenon DEF Final
<1>4. SetInv' BY <1>3, Zenon DEF SetInv, Running
<1> QED BY <1>1, <1>4

\* The number of the running set is not that of an answered one, so what a snapshot does
\* to its own files takes none from an answered set.
LEMMA OwnFiles ==
  ASSUME RunInv, SetInv, SetsRetained, UNCHANGED <<nSets, answered>>, spc # "none",
         named \subseteq named', named' \subseteq 1..nSets, \A f \in files : f.set # nSets => f \in files'
  PROVE  SetsRetained'
<1>1. ASSUME NEW f \in answered, f \notin files' PROVE f \notin files BY <1>1, Zenon DEF SetInv, Running
<1>2. IsFiniteSet(named')
  <2>1. IsFiniteSet(1..nSets) BY FS_Interval DEF RunInv
  <2> QED BY <2>1, FS_Subset, Zenon
<1>3. ASSUME NEW f \in answered, f \notin files' PROVE Cardinality({t \in named' : t > f.set}) >= Keep
  <2>1. Cardinality({t \in named : t > f.set}) >= Keep BY <1>1, <1>3 DEF SetsRetained
  <2> QED BY <1>2, <2>1, NamesGrow, Zenon
<1> QED BY <1>3 DEF SetsRetained

LEMMA CopyKept == ASSUME SnapInv, NEW ok \in BOOLEAN, Copy(ok) PROVE SetInv' /\ SetsRetained'
<1> USE DEF SnapInv
<1>1. /\ spc = "copying" /\ UNCHANGED <<keys, nSets, named, answered>>
      /\ spc' \in {"undo", "copy", "rename"} /\ (spc' = "rename" => at' = 1)
  BY DEF Copy
<1>2. PICK piece, n : files' = files \cup {File(nSets, piece[i], TRUE) : i \in 1..n} BY Zenon DEF Copy
<1>3. files \subseteq files' BY <1>2
<1>4. SetsRetained' BY <1>1, <1>3, OwnFiles, Zenon DEF SetInv
<1>5. \A f \in files' : ~f.partial => f \in files BY <1>2 DEF File
<1>6. \A f \in files' : ~f.partial => f.set \in named' BY <1>1, <1>5, Zenon DEF SetInv
<1>7. \A i \in 1..Len(made') : ~(spc' = "rename" /\ i < at') BY <1>1
<1>8. SetInv' BY <1>1, <1>6, <1>7, Zenon DEF SetInv, Running
<1> QED BY <1>4, <1>8

LEMMA RenameKept == ASSUME SnapInv, NEW ok \in BOOLEAN, Rename(ok) PROVE SetInv' /\ SetsRetained'
<1> USE DEF SnapInv
<1> DEFINE part == File(nSets, made[at], TRUE)
           whole == File(nSets, made[at], FALSE)
<1>1. /\ spc = "renaming" /\ UNCHANGED <<nSets, made, answered>> /\ nSets \in Nat /\ nSets > 0
      /\ at \in Nat
  BY DEF Rename, RunInv, Running
<1>2. CASE UNCHANGED <<files, named>> /\ ~ok
  <2>1. spc' = "undo" BY <1>2 DEF Rename
  <2>2. SetsRetained' BY <1>1, <1>2, OwnFiles, Zenon DEF SetInv
  <2>3. SetInv' BY <1>1, <1>2, <2>1, Zenon DEF SetInv, Running
  <2> QED BY <2>2, <2>3
<1>3. CASE files' = (files \ {part}) \cup {whole} /\ named' = named \cup {nSets}
  <2>1. \/ spc' = "undo"
        \/ at = Len(made) /\ spc' = "published"
        \/ spc' = "rename" /\ at' = at + 1
    BY DEF Rename
  <2>2. whole.set = nSets /\ part.set = nSets BY DEF File
  <2>3. \A s, d : File(s, d, FALSE) # part BY DEF File
  <2>4. whole = File(nSets, made[at], FALSE) OBVIOUS
  <2> HIDE DEF part, whole
  <2>5. named \subseteq named' /\ named' \subseteq 1..nSets /\ nSets \in named' BY <1>1, <1>3 DEF SetInv
  <2>6. \A f \in files : f.set # nSets => f \in files' BY <1>3, <2>2, Zenon
  <2>7. SetsRetained' BY <1>1, <2>5, <2>6, OwnFiles
  <2>8. \A f \in files' : ~f.partial => f.set \in named'
    <3>1. \A f \in files' : f \in files \/ f.set = nSets BY <1>3, <2>2, Zenon
    <3> QED BY <2>5, <3>1, Zenon DEF SetInv
  <2>9. \A i : Final(i) => Final(i)' BY <1>1, <1>3, <2>3, Zenon DEF Final
  <2>10. File(nSets, made[at], FALSE) \in files' BY <1>3, <2>4
  <2>11. ASSUME NEW i \in 1..Len(made), i <= at PROVE Final(i)'
    <3>1. CASE i = at BY <1>1, <2>10, <3>1, Zenon DEF Final
    <3>2. CASE i < at
      <4>1. Final(i) BY <1>1, <3>2, Zenon DEF SetInv
      <4> QED BY <2>9, <4>1, Zenon
    <3> QED BY <1>1, <2>11, <3>1, <3>2
  <2>12. spc' = "rename" => \A i \in 1..Len(made) : i < at' => i <= at BY <1>1, <2>1
  <2>13. spc' = "published" => \A i \in 1..Len(made) : i <= at BY <1>1, <2>1
  <2>14. SetInv' BY <1>1, <2>1, <2>5, <2>8, <2>11, <2>12, <2>13, Zenon DEF SetInv, Running
  <2> QED BY <2>7, <2>14
<1>4. \/ UNCHANGED <<files, named>> /\ ~ok
      \/ files' = (files \ {part}) \cup {whole} /\ named' = named \cup {nSets}
  BY DEF Rename
<1> QED BY <1>2, <1>3, <1>4

LEMMA PruneKept == ASSUME SnapInv, NEW ok \in BOOLEAN, Prune(ok) PROVE SetInv' /\ SetsRetained'
<1> USE DEF SnapInv
<1> DEFINE old == {f \in files : ~f.partial /\ f.set \in Doomed}
<1>1. /\ spc = "prune" /\ spc' = "none" /\ UNCHANGED <<nSets, named>>
      /\ answered' \subseteq answered \cup Answer
  BY DEF Prune, Ended
<1>2. PICK out \in SUBSET old : files' = files \ out BY DEF Prune
<1>3. nSets \in named /\ named \subseteq 1..nSets BY <1>1 DEF SetInv
<1>4. \A f \in Answer : f \in files /\ f.set = nSets /\ f.db # "whatsapp"
  <2>1. TAKE f \in Answer
  <2>2. PICK i \in 1..Len(made) : f = File(nSets, made[i], FALSE) BY DEF Answer
  <2>3. f.db # "whatsapp" BY DEF Answer
  <2>4. f.set = nSets /\ f.db = made[i] BY <2>2 DEF File
  <2>5. Final(i) BY <1>1, Zenon DEF SetInv
  <2> QED BY <2>2, <2>3, <2>4, <2>5 DEF Final
<1>5. ASSUME NEW f \in files, f \notin files', f.set \in 1..nSets
      PROVE  Cardinality({t \in named : t > f.set}) >= Keep
  <2>1. f.set \in Doomed BY <1>2, <1>5, Zenon
  <2>2. f.set \in Int BY <1>5 DEF RunInv
  <2>3. f.set # nSets /\ (f.set < nSets => Cardinality({t \in named : t > f.set}) >= Keep)
    BY <1>1, <2>1, <2>2, DoomedFacts
  <2>4. f.set < nSets BY <1>5, <2>3 DEF RunInv
  <2> QED BY <2>3, <2>4
<1>6. \A f \in answered' : f.set \in 1..nSets /\ f.db # "whatsapp"
  BY <1>1, <1>3, <1>4 DEF SetInv
<1>7. ASSUME NEW f \in answered', f \notin files' PROVE Cardinality({t \in named : t > f.set}) >= Keep
  <2>1. CASE f \in files BY <1>5, <1>6, <1>7, <2>1
  <2>2. CASE f \notin files
    <3>1. f \in answered BY <1>1, <1>4, <2>2
    <3> QED BY <2>2, <3>1 DEF SetsRetained
  <2> QED BY <2>1, <2>2
<1>8. SetsRetained' BY <1>1, <1>7 DEF SetsRetained
<1>9. \A f \in files' : ~f.partial => f.set \in named' BY <1>1, <1>2 DEF SetInv
<1>10. SetInv' BY <1>1, <1>3, <1>6, <1>9, Zenon DEF SetInv, Running
<1> QED BY <1>8, <1>10

LEMMA SetKept == ASSUME SnapInv, SnapNext PROVE SetInv' /\ SetsRetained'
<1> USE DEF SnapInv
<1>1. CASE Look
  <2>1. UNCHANGED <<files, made, nSets, named, answered>> /\ spc \in {"copy", "rename", "published"} BY <1>1 DEF Look
  <2>2. \/ spc' = "undo"
        \/ spc = "copy" /\ spc' = "copying"
        \/ spc = "rename" /\ spc' = "renaming" /\ at' = at
        \/ spc = "published" /\ spc' = "prune"
    BY <1>1 DEF Look
  <2>3. SetsRetained' BY <2>1, Zenon DEF SetsRetained
  <2>4. \A i : Final(i)' <=> Final(i) BY <2>1, Zenon DEF Final
  <2>5. SetInv' BY <2>1, <2>2, <2>4, Zenon DEF SetInv, Running
  <2> QED BY <2>3, <2>5, Zenon
<1>2. CASE Undo
  <2>1. /\ UNCHANGED <<nSets, named, answered>> /\ spc = "undo" /\ spc' = "none"
        /\ files' = {f \in files : f.set # nSets}
    BY <1>2 DEF Undo, Ended
  <2>2. SetsRetained' BY <2>1, OwnFiles DEF SetInv
  <2>3. SetInv' BY <2>1 DEF SetInv, Running
  <2> QED BY <2>2, <2>3
<1>3. CASE Deadline \/ LogoutBegin \/ LogoutWait \/ Relink
  <2>1. UNCHANGED <<files, at, made, nSets, named, answered, spc>>
    BY <1>3 DEF Deadline, LogoutBegin, LogoutWait, Relink
  <2> QED BY <2>1, SetFrame
<1>4. ASSUME NEW b \in BOOLEAN, LogoutRemove(b) PROVE SetInv' /\ SetsRetained'
  <2>1. UNCHANGED <<at, made, nSets, named, answered, spc>> BY <1>4 DEF LogoutRemove
  <2>2. PICK out \in SUBSET KeyFiles : files' = files \ out BY <1>4 DEF LogoutRemove
  <2>3. files' \subseteq files /\ \A f \in files : f.db # "whatsapp" => f \in files' BY <2>2 DEF KeyFiles
  <2> QED BY <2>1, <2>3, SetFrame
<1>5. CASE Die
  <2>1. UNCHANGED <<files, nSets, named, answered>> /\ spc' = "none" BY <1>5 DEF Die, Ended
  <2>2. SetsRetained' BY <2>1, Zenon DEF SetsRetained
  <2>3. SetInv' BY <2>1 DEF SetInv, Running
  <2> QED BY <2>2, <2>3
<1>6. ASSUME NEW b \in BOOLEAN, BeginSnapshot(b) PROVE SetInv' /\ SetsRetained'
  <2>1. UNCHANGED <<files, named, answered>> /\ nSets' = nSets + 1 /\ spc' = "copy"
    BY <1>6 DEF BeginSnapshot
  <2>2. SetsRetained' BY <2>1, Zenon DEF SetsRetained
  <2>3. nSets \in Nat BY DEF RunInv
  <2>4. named' \subseteq 1..nSets' /\ \A f \in answered' : f.set \in 1..nSets' /\ f.set # nSets'
    BY <2>1, <2>3 DEF SetInv
  <2>5. SetInv' BY <2>1, <2>4 DEF SetInv, Running
  <2> QED BY <2>2, <2>5
<1> QED BY <1>1, <1>2, <1>3, <1>4, <1>5, <1>6, CopyKept, RenameKept, PruneKept DEF SnapNext

LEMMA WipeKept == ASSUME RunInv, WipeInv, SnapNext PROVE WipeInv'
<1>1. CASE Look \/ Deadline
  <2>1. UNCHANGED <<files, keys, idle, gone, opc>> BY <1>1 DEF Look, Deadline
  <2> QED BY <2>1, Zenon DEF WipeInv, KeysGone, KeyFiles
<1>2. CASE Undo
  <2>1. files' \subseteq files /\ keys' = FALSE /\ UNCHANGED <<idle, gone, opc>> BY <1>2 DEF Undo, Ended
  <2> QED BY <2>1, Zenon DEF WipeInv, KeysGone, KeyFiles
<1>3. CASE LogoutBegin \/ LogoutWait \/ Relink
  <2>1. CASE LogoutBegin
    <3>1. UNCHANGED <<files, keys, gone>> /\ ~gone /\ idle' = TRUE /\ opc' = "wait"
      BY <2>1, Zenon DEF LogoutBegin
    <3> QED BY <3>1, Zenon DEF WipeInv, KeysGone, KeyFiles
  <2>2. CASE LogoutWait
    <3>1. /\ UNCHANGED <<files, keys, idle, gone>> /\ opc = "wait"
          /\ (opc' = "remove" /\ ~keys) \/ opc' = "none"
      BY <2>2, Zenon DEF LogoutWait, ReaderDone
    <3> QED BY <3>1, Zenon DEF WipeInv, KeysGone, KeyFiles
  <2>3. CASE Relink
    <3>1. UNCHANGED <<files, keys, opc>> /\ opc = "none" /\ gone' = FALSE BY <2>3, Zenon DEF Relink
    <3> QED BY <3>1, Zenon DEF WipeInv, KeysGone
  <2> QED BY <1>3, <2>1, <2>2, <2>3
<1>4. ASSUME NEW b \in BOOLEAN, LogoutRemove(b) PROVE WipeInv'
  <2>1. /\ opc = "remove" /\ opc' = "none" /\ idle /\ ~keys /\ UNCHANGED <<idle, keys>>
    BY <1>4, Zenon DEF LogoutRemove, WipeInv
  <2>2. gone' => files' = files \ KeyFiles BY <1>4, Zenon DEF LogoutRemove
  <2>3. KeysGone' BY <2>2, Zenon DEF KeysGone, KeyFiles
  <2> QED BY <2>1, <2>3, Zenon DEF WipeInv
<1>5. CASE Die BY <1>5, Zenon DEF Die, Ended, WipeInv, KeysGone, KeyFiles
<1>6. ASSUME NEW b \in BOOLEAN, BeginSnapshot(b) PROVE WipeInv'
  BY <1>6, Zenon DEF BeginSnapshot, WipeInv, KeysGone, KeyFiles
<1>7. ASSUME NEW b \in BOOLEAN, Copy(b) PROVE WipeInv'
  <2>1. UNCHANGED <<keys, idle, gone, opc>> /\ spc = "copying" BY <1>7, Zenon DEF Copy
  <2>2. PICK piece \in Pieces(Databases(keys)[at]) : \E n : (n = Len(piece) \/ n \in 0..Len(piece)) /\
          files' = files \cup {File(nSets, piece[i], TRUE) : i \in 1..n}
    BY <1>7, Zenon DEF Copy
  <2>3. ~keys => Databases(keys)[at] \in {"messages", "notes"}
    <3>1. ~keys => at = 1 \/ at = 2 BY <2>1 DEF RunInv
    <3> QED BY <3>1, DatabaseFacts DEF RunInv
  <2>4. ~keys => \A i \in 1..Len(piece) : piece[i] # "whatsapp" BY <2>2, <2>3 DEF Pieces
  <2>5. ~keys => \A f \in files' : f \in files \/ f.db # "whatsapp"
    <3>1. Len(piece) \in Nat BY <2>2 DEF Pieces
    <3> QED BY <2>2, <2>4, <3>1 DEF File
  <2>6. KeysGone' BY <2>1, <2>5, Zenon DEF WipeInv, KeysGone, KeyFiles
  <2> QED BY <2>1, <2>6, Zenon DEF WipeInv
<1>8. ASSUME NEW b \in BOOLEAN, Rename(b) PROVE WipeInv'
  <2>1. UNCHANGED <<keys, idle, gone, opc>> BY <1>8, Zenon DEF Rename
  <2>2. \A f \in files' : f \in files \/ (File(nSets, made[at], TRUE) \in files /\ f.db = File(nSets, made[at], TRUE).db)
    BY <1>8 DEF Rename, File
  <2>3. KeysGone' BY <2>1, <2>2, Zenon DEF WipeInv, KeysGone, KeyFiles
  <2> QED BY <2>1, <2>3, Zenon DEF WipeInv
<1>9. ASSUME NEW b \in BOOLEAN, Prune(b) PROVE WipeInv'
  <2>1. files' \subseteq files /\ keys' = FALSE /\ UNCHANGED <<idle, gone, opc>> BY <1>9 DEF Prune, Ended
  <2> QED BY <2>1, Zenon DEF WipeInv, KeysGone, KeyFiles
<1> QED BY <1>1, <1>2, <1>3, <1>4, <1>5, <1>6, <1>7, <1>8, <1>9 DEF SnapNext

LEMMA SnapStep == ASSUME SnapInv, WipeInv, [SnapNext]_snapVars PROVE SnapInv' /\ WipeInv'
<1>1. CASE SnapNext BY <1>1, RunKept, SetKept, WipeKept DEF SnapInv
<1>2. CASE UNCHANGED snapVars
  <2>1. UNCHANGED <<files, spc, at, made, keys, nSets, idle, gone, opc, named, answered>> BY <1>2 DEF snapVars
  <2>2. RunInv' BY <2>1, Zenon DEF SnapInv, RunInv, Running
  <2>3. SetInv' BY <2>1, Zenon DEF SnapInv, SetInv, Running, Final
  <2>4. SetsRetained' BY <2>1, Zenon DEF SnapInv, SetsRetained
  <2>5. WipeInv' BY <2>1, Zenon DEF WipeInv, KeysGone, KeyFiles
  <2> QED BY <2>2, <2>3, <2>4, <2>5 DEF SnapInv
<1> QED BY <1>1, <1>2

\* However many snapshots are taken, fail, are cancelled by a logout or cut short by a
\* crash, and however many sets are kept: one that was answered loses a database only
\* to Keep newer ones (snapshotStores, pruneSnapshotSets).
THEOREM AnsweredSetsStay == SnapSpec => []SetsRetained
<1>1. SnapInv => SetsRetained BY DEF SnapInv
<1> QED BY <1>1, SnapInitInv, SnapStep, PTL DEF SnapSpec

\* After the logout has recorded the wipe, no snapshot that was running, interrupted or
\* failing leaves or brings back a copy of the keys before the next link
\* (removeSessionSnapshots, beginArchiveSessionRead).
THEOREM NoKeysAfterWipe == SnapSpec => []KeysGone
<1>1. WipeInv => KeysGone BY DEF WipeInv
<1> QED BY <1>1, SnapInitInv, SnapStep, PTL DEF SnapSpec
=============================================================================
