--------------------------- MODULE RuntimeSettings ---------------------------
(***************************************************************************)
(* The settings an operator changes while the bridge runs                  *)
(* (runtime_settings.go, with the tool, chat and media rules it applies).  *)
(*                                                                         *)
(* Overrides are rows of runtime_settings; what is in force is computed    *)
(* from the rows and the deployment on every read, and may only be tighter *)
(* than the deployment.  A PATCH writes its rows in one transaction under  *)
(* settingsMu.  A request pins one snapshot before its tool guard and      *)
(* authorises every chat with it, while PATCHes commit around it.          *)
(***************************************************************************)
EXTENDS Integers

CONSTANTS
  Mutators,     \* requests of the routes registered with mutate
  Passes,       \* reading requests, and passes over chats in the background
  Operators,    \* concurrent requests of the operator socket
  Tools,        \* tool names this build knows
  Paths, Endpoint,   \* routes, and endpointTools: the tools that reach each
  JIDs, Server,      \* chats, and the server of each
  Deployments,  \* environments the bridge is started with
  Tables,       \* rows an earlier build may have left
  Patches,      \* what operators send: functions from keys to values or Null
  None, Null,
  MaxVersion,   \* bound: committed writes
  MaxFault      \* bound: failing reads and writes, restarts

Clients == Mutators \cup Passes

VARIABLES
  env,                  \* RuntimeDefaults
  rows,                 \* the table: a cell for every key
  mutex, draft, todo,   \* settingsMu, and the transaction of its holder
  pc, path, pinned,     \* requests: control, route, the snapshot in their context
  granted,              \* history: the chats a request was let through to
  window,               \* history: the tables in force since it began
  nFault

tableVars   == <<env, rows>>
txVars      == <<mutex, draft, todo>>
requestVars == <<pc, path, pinned, granted, window>>
vars == <<tableVars, txVars, requestVars, nFault>>

\* A cell has no row, or a row this build reads, cannot parse or finds cleared.
Cell(is, v, version) == [is |-> is, v |-> v, version |-> version]
NoRow    == Cell("none", Null, 0)
Saved(c) == c.is = "value"

Keys == {"allow", "deny", "chats", "rate", "interval", "quota", "types", "percent", "status", "minutes", "scope"}
TokenKey == "token"   \* saved in the same table, by no definition
AllKeys  == Keys \cup {TokenKey}

Version(t) == CHOOSE n \in {t[k].version : k \in AllKeys} : \A k \in AllKeys : t[k].version <= n
-----------------------------------------------------------------------------
(* What is in force *)

\* The value of a readable row, else the deployment's.
Setting(e, t, k) == IF Saved(t[k]) THEN t[k].v ELSE e[k]

\* Names this build no longer knows are skipped.
ToolSetting(e, t, k) == IF Saved(t[k]) THEN t[k].v \cap Tools ELSE e[k]

\* A saved allow-list that names no tool it can read must not open everything.
ClosedAllow(e, t) ==
  \/ Saved(t.allow) /\ t.allow.v # {} /\ t.allow.v \cap Tools = {}
  \/ t.allow.is = "bad" /\ e.allow = {}

\* Fault: an empty intersection of the lists counts as no list at all.
MutToolFloor(e, t) ==
  LET run == ToolSetting(e, t, "allow")
      kept == IF e.allow = {} THEN run ELSE IF run = {} THEN e.allow ELSE run \cap e.allow
  IN [allow |-> kept,
      deny |-> ToolSetting(e, t, "deny") \cup e.deny \cup (IF ClosedAllow(e, t) /\ run = {} THEN Tools ELSE {})]

\* applyRuntimeToolFloor.
ToolFloor(e, t) ==
  LET run   == ToolSetting(e, t, "allow")
      open  == run = {} /\ ~ClosedAllow(e, t)
      allow == IF e.allow = {} THEN run ELSE IF open THEN e.allow ELSE run \cap e.allow
      shut  == allow = {} /\ ~open
  IN [allow |-> allow,
      deny  |-> ToolSetting(e, t, "deny") \cup e.deny \cup (IF shut THEN Tools ELSE {})]

Policy(list) == [restricted |-> list.exact # {} \/ list.servers # {}, exact |-> list.exact, servers |-> list.servers]

\* chatPolicy.Allows.
Allows(p, jid) == ~p.restricted \/ jid \in p.exact \/ Server[jid] \in p.servers

\* intersectChatPolicies: by grammar, entry for entry.
Intersect(run, deploy) ==
  IF ~deploy.restricted THEN run
  ELSE [restricted |-> TRUE,
        exact   |-> {j \in run.exact : Allows(deploy, j)} \cup {j \in deploy.exact : Allows(run, j)},
        servers |-> run.servers \cap deploy.servers]

\* A row that cannot be read permits no chat.
ChatPolicy(e, t) ==
  LET list == IF Saved(t.chats) THEN t.chats.v ELSE [exact |-> {}, servers |-> {}]
      run  == [restricted |-> TRUE, exact |-> list.exact, servers |-> list.servers]
  IN IF t.chats.is \in {"value", "bad"} THEN Intersect(run, Policy(e.chats)) ELSE Policy(e.chats)

\* Where zero is off: the tighter of two limits, and of two intervals.
Limit(e, t, k) ==
  LET run == Setting(e, t, k)
  IN IF e[k] > 0 /\ (run = 0 \/ run > e[k]) THEN e[k] ELSE run

Interval(e, t) ==
  LET run == Setting(e, t, "interval")
  IN IF e.interval > 0 /\ run < e.interval THEN e.interval ELSE run

NoCap == -1

Minutes(e, t) ==
  LET run == Setting(e, t, "minutes")
  IN IF e.minutes # NoCap /\ (run = NoCap \/ run > e.minutes) THEN e.minutes ELSE run

\* applyRuntimeMediaCeilings: only what the environment set is a ceiling.
MediaTypes(e, t) ==
  LET run == Setting(e, t, "types") IN IF "types" \in e.given THEN run \cap e.types ELSE run

Percent(e, t) ==
  LET run == Setting(e, t, "percent") IN IF "percent" \in e.given /\ e.percent < run THEN e.percent ELSE run

Status(e, t) == Setting(e, t, "status") /\ ("status" \in e.given => e.status)

Scope(e, t) == IF e.scope = "all" THEN "all" ELSE Setting(e, t, "scope")

\* readRuntimeSettings.
Snapshot(e, t) ==
  [version |-> Version(t), tools |-> ToolFloor(e, t), chats |-> ChatPolicy(e, t),
   rate |-> Limit(e, t, "rate"), interval |-> Interval(e, t), quota |-> Limit(e, t, "quota"),
   types |-> MediaTypes(e, t), percent |-> Percent(e, t), status |-> Status(e, t),
   minutes |-> Minutes(e, t), scope |-> Scope(e, t)]
-----------------------------------------------------------------------------
(* What start-up and validation guarantee *)

\* The parsers of settingDefinitions accept no other value for a key.
ValueOK(k, v) == k \in {"rate", "interval", "quota", "minutes", "percent"} => v \in Nat

\* Rows carry positive versions (the CHECK of the table); one that is read was parsed.
TableOK(t) ==
  /\ t = [k \in AllKeys |-> t[k]]
  /\ \A k \in AllKeys : t[k].version \in Nat /\ (Saved(t[k]) => ValueOK(k, t[k].v))

DeploymentOK(e) ==
  /\ {e.rate, e.interval, e.quota, e.percent} \subseteq Nat
  /\ e.minutes \in Nat \cup {NoCap}

\* The routes name tools this build knows (endpointTools).
SettingsAssumption ==
  /\ Tools # {} /\ \A p \in Paths : Endpoint[p] \subseteq Tools
  /\ \A e \in Deployments : DeploymentOK(e)
  /\ \A t \in Tables : TableOK(t)
  /\ \A patch \in Patches : \A k \in DOMAIN patch : patch[k] # Null => ValueOK(k, patch[k])
  /\ None \notin Operators

ASSUME SettingsGiven == SettingsAssumption
-----------------------------------------------------------------------------
NoPin == [chats |-> [restricted |-> TRUE, exact |-> {}, servers |-> {}], tools |-> [allow |-> {}, deny |-> Tools]]

Init ==
  /\ env \in Deployments /\ rows \in Tables
  /\ mutex = None /\ draft = rows /\ todo = None
  /\ pc = [r \in Clients |-> "idle"] /\ path = [r \in Clients |-> None]
  /\ pinned = [r \in Clients |-> NoPin]
  /\ granted = [r \in Clients |-> {}] /\ window = [r \in Clients |-> {}]
  /\ nFault = 0
-----------------------------------------------------------------------------
(* The operator *)

Rest == UNCHANGED <<env, pc, path, pinned, granted>>

\* patchRuntimeSettings takes the mutex, begins and reads the version it follows.
Begin(o, patch) ==
  /\ mutex = None /\ Version(rows) < MaxVersion
  /\ mutex' = o /\ draft' = rows /\ todo' = patch
  /\ Rest /\ UNCHANGED <<rows, window, nFault>>

\* Fault: clearing an override deletes its row.
MutWritten(v, version) == IF v = Null THEN NoRow ELSE Cell("value", v, version)

\* A null tombstone keeps the version.
Written(v, version) == IF v = Null THEN Cell("null", Null, version) ELSE Cell("value", v, version)

\* The keys are written in some fixed order.
WriteRow(o) ==
  /\ mutex = o /\ DOMAIN todo # {}
  /\ LET k == CHOOSE x \in DOMAIN todo : TRUE
     IN /\ draft' = [draft EXCEPT ![k] = Written(todo[k], Version(rows) + 1)]
        /\ todo' = [x \in DOMAIN todo \ {k} |-> todo[x]]
  /\ Rest /\ UNCHANGED <<rows, mutex, window, nFault>>

\* Clients under way see the new table only if they read it again.
Commit(t) ==
  /\ rows' = t
  /\ window' = [r \in Clients |-> IF pc[r] = "idle" THEN window[r] ELSE window[r] \cup {t}]

CommitPatch(o) ==
  /\ mutex = o /\ DOMAIN todo = {}
  /\ Commit(draft)
  /\ mutex' = None /\ todo' = None
  /\ Rest /\ UNCHANGED <<draft, nFault>>

\* A statement or the commit fails: the transaction rolls back as a whole.
PatchFails(o) ==
  /\ mutex = o /\ nFault < MaxFault /\ nFault' = nFault + 1
  /\ mutex' = None /\ draft' = rows /\ todo' = None
  /\ Rest /\ UNCHANGED <<rows, window>>

\* saveMCPToken: one row of the same table, on the same clock.  Only a DELETE gets
\* past a state it cannot read.
SaveToken(clear) ==
  /\ mutex = None /\ Version(rows) < MaxVersion
  /\ clear \/ rows[TokenKey].is # "bad"
  /\ LET v == IF clear THEN Null ELSE 1
         t == [rows EXCEPT ![TokenKey] = Written(v, Version(rows) + 1)]
     IN Commit(t) /\ draft' = t
  /\ Rest /\ UNCHANGED <<mutex, todo, nFault>>
-----------------------------------------------------------------------------
(* Clients *)

World == UNCHANGED <<env, rows, txVars>>

\* runtimePolicyGuard of a request, the first use of once() in a pass: the snapshot
\* the rest of it works with.
Pin(r, p) ==
  /\ pc[r] = "idle"
  /\ pc' = [pc EXCEPT ![r] = IF r \in Mutators THEN "tools" ELSE "chats"]
  /\ path' = [path EXCEPT ![r] = p]
  /\ pinned' = [pinned EXCEPT ![r] = [chats |-> ChatPolicy(env, rows), tools |-> ToolFloor(env, rows)]]
  /\ window' = [window EXCEPT ![r] = {rows}]
  /\ World /\ UNCHANGED <<granted, nFault>>

\* The table cannot be read: a request is refused, a pass goes on with every chat denied.
PinFails(r) ==
  /\ pc[r] = "idle" /\ r \in Passes /\ nFault < MaxFault /\ nFault' = nFault + 1
  /\ pc' = [pc EXCEPT ![r] = "chats"]
  /\ pinned' = [pinned EXCEPT ![r] = NoPin] /\ window' = [window EXCEPT ![r] = {rows}]
  /\ World /\ UNCHANGED <<path, granted>>

End(r) ==
  /\ pc' = [pc EXCEPT ![r] = "idle"] /\ path' = [path EXCEPT ![r] = None]
  /\ pinned' = [pinned EXCEPT ![r] = NoPin]
  /\ granted' = [granted EXCEPT ![r] = {}] /\ window' = [window EXCEPT ![r] = {}]

\* toolPolicy.restricted, allowsTool and refusal.  A route no tool names passes only
\* while there is no list at all.
AllowsTool(p, name) == name \notin p.deny /\ (p.allow = {} \/ name \in p.allow)
Refusal(p, route)   == (p.allow # {} \/ p.deny # {}) /\ ~\E name \in Endpoint[route] : AllowsTool(p, name)

\* runtimeToolGuard, with the snapshot of the context.
ToolGuard(r) ==
  /\ pc[r] = "tools"
  /\ IF Refusal(pinned[r].tools, path[r]) THEN End(r)
     ELSE pc' = [pc EXCEPT ![r] = "chats"] /\ UNCHANGED <<path, pinned, granted, window>>
  /\ World /\ UNCHANGED nFault

\* The device is parked by an operator's logout: the guard refuses before it looks.
Parked(r) == pc[r] = "tools" /\ End(r) /\ World /\ UNCHANGED nFault

\* Fault: the chat is checked against what is committed now.
MutChatsOf(r) == ChatPolicy(env, rows)

\* chatPolicyHandle.effective.
ChatsOf(r) == pinned[r].chats

\* authorizeChat, once for every chat the request or the pass touches.
AuthorizeChat(r, jid) ==
  /\ pc[r] = "chats"
  /\ IF Allows(ChatsOf(r), jid)
     THEN granted' = [granted EXCEPT ![r] = @ \cup {jid}] /\ UNCHANGED <<pc, path, pinned, window>>
     ELSE End(r)
  /\ World /\ UNCHANGED nFault

Finish(r) == pc[r] = "chats" /\ End(r) /\ World /\ UNCHANGED nFault

\* The process dies and comes back, perhaps with another environment.
Restart(e) ==
  /\ nFault < MaxFault /\ nFault' = nFault + 1
  /\ env' = e /\ mutex' = None /\ draft' = rows /\ todo' = None
  /\ pc' = [r \in Clients |-> "idle"] /\ path' = [r \in Clients |-> None]
  /\ pinned' = [r \in Clients |-> NoPin]
  /\ granted' = [r \in Clients |-> {}] /\ window' = [r \in Clients |-> {}]
  /\ UNCHANGED rows
-----------------------------------------------------------------------------
Operator(o) ==
  \/ \E patch \in Patches : Begin(o, patch)
  \/ WriteRow(o) \/ CommitPatch(o) \/ PatchFails(o)

Request(r) ==
  \/ \E p \in IF r \in Mutators THEN Paths ELSE {None} : Pin(r, p)
  \/ PinFails(r) \/ ToolGuard(r) \/ Parked(r) \/ Finish(r)
  \/ \E jid \in JIDs : AuthorizeChat(r, jid)

Next ==
  \/ \E o \in Operators : Operator(o)
  \/ \E clear \in BOOLEAN : SaveToken(clear)
  \/ \E r \in Clients : Request(r)
  \/ \E e \in Deployments : Restart(e)

Spec == Init /\ [][Next]_vars
-----------------------------------------------------------------------------
(* Properties *)

\* What a deployment and a table say of a tool, list by list.
ToolWanted(e, t, name) ==
  /\ name \notin e.deny /\ (e.allow = {} \/ name \in e.allow)
  /\ Saved(t.deny) => name \notin t.deny.v
  /\ Saved(t.allow) => t.allow.v = {} \/ name \in t.allow.v
  /\ t.allow.is = "bad" => e.allow # {}

PathWanted(e, t, p) ==
  IF Endpoint[p] = {} THEN e.allow = {} /\ e.deny = {} ELSE \E name \in Endpoint[p] : ToolWanted(e, t, name)

ChatWanted(e, t, jid) ==
  /\ Allows(Policy(e.chats), jid)
  /\ t.chats.is # "bad"
  /\ Saved(t.chats) => jid \in t.chats.v.exact \/ Server[jid] \in t.chats.v.servers

\* A request acts on its chats only when one table, in force at some moment of the
\* request, permits its route and every one of them, within the deployment: never a
\* mixture of two PATCHes and never more than the environment (runtimePolicyGuard,
\* applyRuntimeToolFloor).  Of the saved restrictions that cannot be read two close, the
\* list of chats and, without a list in the environment, the list of allowed tools; a
\* list of denied tools or a limit falls back to the environment's.
OneTable ==
  \A r \in Clients :
    pc[r] = "chats" /\ granted[r] # {} =>
      \E t \in window[r] : /\ r \in Mutators => PathWanted(env, t, path[r])
                           /\ \A jid \in granted[r] : ChatWanted(env, t, jid)

\* Off, or no tighter than the ceiling.
AtMost(x, ceiling) == ceiling > 0 => x \in 1..ceiling

\* Whatever the rows say, limits in force are inside the deployment's, and inside a
\* readable override that is tighter (applyRuntimeSendCeiling, applyRuntimeMediaCeilings).
CeilingsHeld ==
  LET s == Snapshot(env, rows)
      Bound(c, x) == Saved(c) => AtMost(x, c.v)
  IN /\ AtMost(s.rate, env.rate) /\ Bound(rows.rate, s.rate)
     /\ AtMost(s.quota, env.quota) /\ Bound(rows.quota, s.quota)
     /\ s.interval >= env.interval /\ (Saved(rows.interval) => s.interval >= rows.interval.v)
     /\ env.minutes # NoCap => s.minutes \in 0..env.minutes
     /\ Saved(rows.minutes) => s.minutes \in 0..rows.minutes.v
     /\ "types" \in env.given => s.types \subseteq env.types
     /\ "percent" \in env.given => s.percent <= env.percent
     /\ "status" \in env.given => (s.status => env.status)

\* A request is let through by one committed table as a whole, and nothing in force is
\* looser than the deployment.
OneCommittedPolicy == OneTable /\ CeilingsHeld

\* Every committed change has a higher version than all that were in force before it:
\* a PATCH, a cleared override or a rotated token never brings an old number back, so
\* a version names one state of the settings.
VersionGrows == rows' # rows => Version(rows') > Version(rows)
VersionsGrow == [][VersionGrows]_vars
=============================================================================
