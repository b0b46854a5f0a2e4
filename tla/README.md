# Verification of the WhatsApp bridge

TLA+ models of the stateful, concurrent parts of the bridge (`src/whatsapp-bridge/`, Go), checked
with TLC on small instances and, for seven components, proved with TLAPS for every instance.
`PROJECT.json` lists the components, runs, mutants, hazards and theorems, and maps each definition
to the lines it translates.

## The system

The bridge is one process. The WhatsApp SDK calls its event handler, HTTP handlers serve the MCP
server and an operator, and background goroutines reconnect, pair, import history, download media,
refresh group rosters, deliver webhooks and sweep an S3 bucket. They share an SQLite archive
(`messages.db`), the SDK's session store, a few marker files and in-memory state under a handful of
mutexes. The Python MCP server is a client of the archive and of the HTTP endpoints.

| Part (source) | Module | State and actions |
|---|---|---|
| Runtime webhook (`webhook_runtime.go`) | `RuntimeWebhook` | Generations of receivers with queue, semaphore and worker; PUT, DELETE, admission, enqueue, POST, settlement. A section under `w.mu` is one action. |
| Refusals, dial gate, revoked-session cleanup (`connection_problem.go`, `pairing.go`, `events.go`) | `ConnectionProblem` | The problem in memory and in its marker file; recording, persisting, gate and dial of two dialers, cleanup, crash, restart. |
| Connection events (`connection_events.go`) | `ConnectionEvents`, abstract `OrderedFeed` | Debounce, queue of delivery goroutines, synchronous terminal events, shutdown. |
| Send budget (`send_limits.go`, `send.go`) | `SendLimits` | Persisted usage and contacts; reservation, refund, new settings, midnight, crash. |
| Message edits (`pending_edits.go`, `store_batch.go`, `edit_forward.go`) | `PendingEdits` | Message rows and pending edits; preparation, write and retry of originals and edits, caps, expiry, migration at restart. |
| Media transfers (`media.go`, `media_inflight.go`, `media_cap.go`, `media_budget.go`) | `MediaTransfers` | Callers, the shared transfer, contexts, client gate, sent-file job, shutdown. |
| Message archive (`events.go`, `history_sync.go`, `store.go`, `store_batch.go`, `history_share*.go`) | `ArchiveRows` (statements), `Archive` (writers) | Rows and chats; live handler step by step, imports in chunks, REST writes, media retry, crash and start-up merge. |
| Read receipts (`mark_read.go`) | `ReadReceipts` | Pages, receipts per sender, marker, saved progress of refused calls. |
| Poll votes (`polls.go`) | `PollVotes` | Live votes and payload goroutines, missing secrets, retry passes, client handoff. |
| Group membership (`group_events.go`, `group_members_store.go`) | `Groups`, `RosterSync` | Roster rows, backoff and settings of one group under four feeds; the schedule of the roster passes over many. |
| S3 media (`media_s3*.go`) | `S3Media`, `VerifiedSpools` | Bucket, catalog, journals, locks and quota lease; the pool of verified files. |
| Pairing, logout, client handoff (`operator_pairing.go`, `operator_logout.go`, `runtime_client.go`, `pairing.go`) | `OperatorPairing` | Attempt loop, HTTP actions, SDK saves and callbacks, each step of logout, the durable row, crash and start. |
| Store snapshots (`operator_snapshot.go`, `operator_session_read.go`) | `SessionSnapshots` | Copy, rename, undo, retention, and the removal of key copies by a logout. |
| Runtime settings, chat and tool policies (`runtime_settings.go`, `chat_policy.go`, `tool_policy.go`, `media_quota.go`, `mcp_token.go`) | `RuntimeSettings` | The table of overrides, the deployment and the effective policy; PATCH row by row, token writes, requests and passes with a pinned policy, failures, restart. |

Interactions are modelled where they are the point: transfers, handoff and shutdown meet in
`MediaTransfers`; edits and originals in `PendingEdits`; the live handler, two imports, REST writes
and start-up in `Archive`; logout and snapshots in `SessionSnapshots`; publication, eviction, purge
and sweep in `S3Media`.

## Runs

An `MC...` module gives small instances. Where one run covers two components, the variable `topic`
chooses one of them per behaviour and the other rests. A *scene* (or plot, plan) fixes the inputs
and budgets of one behaviour, and a run explores every interleaving of every scene.

| Run | Shows |
|---|---|
| `webhook_messages` | A message reaches only the generation that admitted it (`ReceiverIsolation`); a receiver is enabled exactly below its failure limit (`FailureBudget`); every admitted event is in one place (`Conservation`); only a generation's own worker changes its failure count (`FailureCountOwner`); every queued event ends although tests and workers contend for the semaphore (`EventsResolved`). |
| `webhook_transitions` | The latest transition of an enabled receiver waits, is in hand or ended for that URL in one of four named ways, whatever detours its configuration takes (`LatestTransitionKept`); transitions arrive in order (`TransitionsInOrder`). |
| `problem` | Disk and memory agree when nothing is being written (`DiskAgrees`); a client with revoked keys stays retired, starts no connection but the one under way while the unlink is handled, and a recorded removal is true (`UnlinkHonoured`); no dial against a restriction the dialer could see (`BanHonoured`). |
| `shutdown` | The delivery goroutines implement the ordered feed (`ImplementsFeed`, a refinement); the state told last is the current one; deliveries, handoffs and both waits of Shutdown end, except a handoff behind a webhook image that never arrives (`WaitsEnd`). |
| `send` | Stored counters and contacts equal what was charged and not refunded, and no contact becomes known for free (`ExactUsage`); day and minute budgets hold over what left (`BudgetsHeld`). |
| `edits` | A row shows its author's text and never an older one (`TextTrue`); no early edit is lost or parked in vain (`NoEditLost`); a burst of one member evicts nobody else's edits (`FloodIsolated`). |
| `media` | Who shares a transfer is refused only for its own cap or cancellation, or for the quota or the deadline of its starter (`RefusalsExplained`); sent bytes survive a joined failure (`SentBytesKept`); nothing runs after Shutdown's wait (`QuietAfterWait`). |
| `archive` | A chat's time belongs to an accepted message and catches up, unless a write was given up or cut short for good (`LastTimeHonest`); media columns belong to one upload (`SnapshotCoherent`); imports store or count every row of the conversations they open (`ImportAccounted`); imports and the LID merge lose nothing (`RowsPreserved`). |
| `reads_votes` | The marker covers only what was acknowledged and refused progress is not repeated (`ReadsHonest`); repeated calls get a chat read (`ChatGetsRead`); the latest vote counts and no waiter is left behind (`LatestVoteCounts`). |
| `groups` | Members the cache was told of keep true rows, a left group stays empty and mode changes are observed (`RosterTrue`); every servable roster is refreshed again and again (`RostersRefreshed`). |
| `storage` | References lead to the right, existing object or a marker (`ReferencesTrue`); objects and spooled files are charged and within limits (`StorageCharged`); purges spare other messages, unless the two counts of the references mislead them (`OthersKept`); sweeps reclaim the rest (`SweepReclaims`). |
| `operator` | A logout's claims stay true and only restart or exit ends the idle state (`LogoutStands`); a link being saved is not replaced (`LinkKept`); a file of an answered snapshot goes only to `Keep` newer sets (`SetsRetained`); restarts are served and unlinks recover (`SessionRecovers`); a request acts under one committed policy within the deployment's ceilings (`OneCommittedPolicy`); no version of the settings is used twice (`VersionsGrow`). |

Some properties are conjunctions of claims about one promise; the parts are defined and explained
in the component's module. Each property has a mutant in `PROJECT.json`: a fault of the kind the
code could have, defined as `Mut...` before the definition it replaces, under which TLC finds the
property violated.

**Bounds.** Every bound is a constant or a field of a scene. They are the smallest at which the
case in question happens: two generations for a stale answer, one overflow of a queue of one, one
day turn, two addresses of one person, two imports and one crash, a second shared by three senders,
three processes at one object, one failing operation per kind. In `operator` only the first
snapshot set of a behaviour may lack notes or hold the marker of an unfinished reset
(`FirstVaries`); the proof has no such bound. Deadlock checking is off where
budgets end a behaviour; `storage` has it on.

**Fairness.** Liveness is checked under weak fairness of goroutines the Go scheduler runs: webhook
workers and deliveries (POSTs carry deadlines), the bridge's side of a transfer (admission, waking
its waiters, ending when its context does), deadlines that pass, the disk write of the sent-file
job, the stages of Shutdown, the pairing loop, controller and callbacks, the roster loop and the
reconnect it waits for, and S3 requests (they carry timeouts). `ChatGetsRead` assumes a caller that
repeats its call. Nothing is assumed of operators, clients or WhatsApp: a remote transfer may hang
for ever. Only the webhook image has no deadline (`events.go:442` runs under
`context.Background()`), and `WaitsEnd` names the one wait that it can hold up.

## Proofs

The theorems hold for every value of the constants, from the named assumptions alone. Each rests on
an inductive invariant with one preservation step per action; TLC checks the properties themselves
in the runs above. A module with an assumption is extended by the module of a run, so TLC evaluates
the assumption on the instance it checks.

| Module | Theorems (property) | Assumption |
|---|---|---|
| `RuntimeWebhookSafety` | `TypeCorrect`, `RetiredDrainedAlways`, `FailureBudgetAlways` (`FailureBudget`), `OneDeliveryAlways` | `WebhookAssumption` |
| `RuntimeWebhookDelivery` | `ReceiverIsolationAlways` (`ReceiverIsolation`), `FailureCountOwned` (`FailureCountOwner`), `LatestKept` (`LatestTransitionKept`), `TransitionsOrdered` (`TransitionsInOrder`), `EventsConserved` (`Conservation`) | `WebhookAssumption` |
| `ConnectionProblemMarkers`, `ConnectionProblemProofs` | `BanSurvives` (`DiskAgrees`), `UnlinkStands` (`UnlinkHonoured`), `NoDialAgainstBan` (`BanHonoured`) | `ProblemAssumption` |
| `ConnectionEventsProofs` | `LatestTold` (`LatestStateTold`), `FeedImplemented` (`ImplementsFeed`) | `EventsAssumption` |
| `MediaTransfersProofs` | `RefusalsHaveReasons` (`RefusalsExplained`), `SentBytes` (`SentBytesKept`), `Quiet` (`QuietAfterWait`) | `MediaAssumption` |
| `SendLimitsProofs` | `UsageExact` (`ExactUsage`), `BudgetsKept` (`BudgetsHeld`) | `LimitsAssumption` |
| `OperatorProofs` | `OnePolicy` (`OneCommittedPolicy`), `NoVersionTwice` (`VersionsGrow`), `AnsweredSetsStay` (`SetsRetained`), `NoKeysAfterWipe` | `SettingsGiven`, `SnapshotAssumption` |

**Runtime webhook.** `TypeCorrect` needs `LoopInv` (a worker that is not settling has an attempt
left; tests name an existing generation; future generations are empty). `RetiredDrained`,
`FailureBudget` and `OneDelivery` need each other and `DisabledIdle` (a disabled receiver's worker
has nothing in hand): a settlement disables a receiver and drains it in one step, and only the
holder of the semaphore settles; together they are `SafeInv`. For `ReceiverIsolation` the receipts
alone are not inductive; `IsoInv` says the same of queued events and of events in a worker's hands.
`TransitionsInOrder` needs `OrderInv`, which follows the transitions from the source to the endpoint:
what a generation has seen is no later than what its worker holds, that no later than what it has
queued, the queue is in order, and all of it is no later than the last transition recorded.
`LatestTransitionKept` follows the latest transition from the queue into a worker's hands and to one
of its endings, which the history `settled` keeps per URL. It needs `IdleEmpty` (an idle worker holds
nothing) and that a PUT replays the transition unless the configured receiver kept it
(`ConfigureKept`). `Conservation` is inductive given the types: each action moves an event from one of its places to the next, and the lemmas before it say what every step does to the
length of the one queue that may be filled and to the number of workers with an event in hand.

**Connection problem.** `DiskAgrees` is inductive given the types. `UnlinkHonoured` needs the whole
path of a cleanup: `Revoking` (revoked keys still in the store are those of the device the marker
asks to remove, and until they are gone the client is retired), `Told` (an unlink retires its
client before it is recorded), `Linking` (a device is linked only through a client that is not
retired), `Cleaned` (what the controller is about to publish is true of the store) and `Linked`.
While the process is down the marker file takes the place of memory in these statements, which is
how they survive a crash. `RevokedRetired` (a client with revoked keys is retired) and `Fenced` (the
controller attempts with such a client only while the unlink is being handled) then say who may
dial. `BanHonoured` is an action property; it follows from `BanKnown` (the
restriction last told is the one recorded) and `GateHeld` (a dialer past the gate has seen none in
force). `ConnectionProblemMarkers` holds what the operators on markers return, the type lemmas, the
agreement of disk and memory and the truth of a recorded removal.

**Connection events.** `Told` says that a disconnect in its debounce is the only pending one and
later than all that was recorded. The refinement needs `Queue` and `Posted`: a done channel in the
queue is closed only when nobody before it is under way, so whoever sees its predecessor closed is
first, and nothing posted is later than a delivery under way. Each step of the code is then a step
of `OrderedFeed` or leaves it unchanged.

**Media transfers.** `OneTransfer` (the destination is mapped to the one transfer that runs) gives
`QuietAfterWait`; `Results` (a result published to a waiter is true of the file, of the starter's
cap, quota and deadline, and of the lifecycle) gives `RefusalsExplained`, through a lemma on
`Retries` and `Outcome`.

**Send budget.** `SendLimits` keeps a history of the reservations (`ledger`) and of which of them
left (`happened`), are charged (`charged`) and have charged their new chats (`freshCharged`). A sum
over reservations is the cardinality of the set of their units (`Units`, `Total`): adding or taking
back one reservation adds or removes its own units, which the lemmas `UnitsAdd` and `UnitsRemove`
prove from the theorems on finite sets, without an induction over the ledger. `BudgetInv` joins the
counters with what makes refunds safe in any order. `ReceiptInv`: a receipt in hand says what its
reservation charged and is the only one for it. `OrderInv`: `last_send_ns` orders the receipts in
hand, and while it is a receipt's own stamp every later reservation has been taken back, so that
restoring the previous stamp and the tokens undoes nobody else's charge. `ContactInv`: a contact
that a receipt pays for leaves with it, unless a later reservation that stands has added it. `DayInv`
and `BucketInv` are the budgets over what is charged, and what left is charged (`BookInv`). The
bucket's invariant is over the stretch from every reservation to the present, because a budget over
past stretches alone says nothing of the tokens left. `LimitsAssumption` includes that the LID and
phone address of a chat name each other (`Twin` is an involution), which is how `Chat` pairs them.
TLC checked `BudgetInv` as an invariant of the run `send` before it was proved.

**Runtime settings.** `StoreInv` says that a draft differs from the table only in rows of a higher
version, and `PinInv` that whoever is under way works with the snapshot of one table of its window.
The lemmas before them are about the operators: an intersection allows no chat that one of its
lists refuses, the tool floor refuses what the deployment or a row refuses, limits and ceilings
never exceed either. `SettingsAssumption` is what start-up, the schema and the parsers guarantee of
deployments, tables and patches; `SettingsGiven` assumes it.

**Store snapshots.** `SetInv` follows a set through its steps: files with a final name belong to a
named set, and the running set is answered only when every file it made, whichever those are, has its
final name (`Final`). Retention then takes away sets that `Doomed` puts behind `Keep` newer names,
and names only grow. `WipeInv`
follows the logout: from the park on no reader of the session begins, none is left when the copies
are removed, and so none can put a copy back before the next link.

**Left to TLC.** Liveness (`EventsResolved`, `WaitsEnd`, `ChatGetsRead`,
`RostersRefreshed`, `SweepReclaims`, `SessionRecovers`) needs fairness and ENABLED, which the
prover does not handle. The models behind `StorageCharged` and `ImportAccounted` add up sizes and
store rows with folds, which need an induction over data that none of its backends can instantiate.
The safety properties of edits, archive, read receipts, votes, groups, S3 media and pairing
(`LogoutStands`, `LinkKept`) have no proof and are model-checked only. `TypeOK`, `RetiredDrained`
and `OneDelivery` of the webhook are proved and checked by no run; `KeysGone` of the snapshots is
proved, and the run `operator` checks it as a part of `LogoutStands`.

## Known divergences

Behaviours of the code that a comment or document, or the purpose of the code, does not lead one to
expect. They are in the models, and the properties are stated so as to except exactly them.

Against a comment or a document:

- `webhook_runtime.go:421`: a PUT for the same URL and selection, made while the latest transition
  is still queued, drains it and does not replay it. The comment at line 217 says that a receiver
  configured concurrently gets the current state. It is one of the endings of
  `LatestTransitionKept`.
- `store.go:609`: the start-up merge keeps the phone row of a message archived under both
  addresses, also when only the LID row had the edit; `docs/ARCHITECTURE.md:248` says that the
  archive retains the latest text. `TextTrue` excepts the restart.
- `media.go:125`: with `WHATSAPP_MEDIA_MAX_BYTES=0` an automatic download that joined a capped read
  returns the reader's refusal; `docs/CONFIGURATION.md:360` says that 0 disables the limit.
  `RefusalsExplained` (`SizeIsOwn`) excepts exactly this case; the run has the limit set, the proof
  covers 0 too.
- `group_events.go:171`: a roster fetched before and answered after the own departure is stored
  again, against the comment at `group_members_store.go:225`. `GoneStaysGone` covers departures
  with no fetch in flight.

Met while modelling:

- `pairing.go:331`: `pairingConnect` does not ask whether its client is retired, so an attempt that
  is under way may dial with revoked keys until the LoggedOut handler cancels it (`UnlinkHonoured`).
- `events.go:442`: a webhook image that never arrives keeps a client handoff waiting (`WaitsEnd`).
- `media.go:123`: a capped reader inherits the quota refusal of an automatic download it joined, and
  every waiter the deadline of the starter (`RefusalsExplained`).
- `events.go:205`: the SDK acknowledges events asynchronously. A crash between the row and the
  chat's time leaves the time behind when the event had been acknowledged, when it is a position
  update, or when it came under a LID (`CutForGood`, `LastTimeHonest`).
- `history_sync.go:130`: a conversation whose newest row is empty or has no time is passed over, and
  its rows are not counted as lost (`Skipped`, `ImportAccounted`).
- `mark_read.go:191`: a listed read whose lookup fails moves the marker to the time of the request
  (`LookUpListed`).
- `group_events.go:126`: `noteGone` looks and writes in two steps, so a return noticed in between is
  lost until the backoff ends.
- `group_events.go:332`: a promotion or demotion delivered again writes an old admin flag
  (`unsure`). `group_events.go:307`, `events.go:643`: the own departure and the own return delivered
  again drop the roster and reopen the backoff.
- `group_members_store.go:349`: a join of somebody already listed makes the roster look fresh and
  delays its next pass (`JoinAgain`).
- `media_s3_maintenance.go:100`: `Delete` compares counts of separate statements (lines 82 and 97).
  A selected message that moves to other bytes between them lets a sibling be counted in its place
  (`misled`).
- `media_s3_quota.go:117`: an eviction takes the bytes of an object off the account although
  another writer of the same content holds a reservation (`overdrawn`). The bucket may then exceed
  the quota by one object each time; `StorageCharged` bounds it by that count.
- `media_s3_spools.go:135`: an entry that cannot be opened is dropped under its other readers and
  its charge is then taken off twice (`torn`). `StorageCharged` says nothing of those files.
- `operator_snapshot.go:468`: a set that a crash cut short after its first rename counts as a newer
  set, so an incomplete set can displace a complete one (`SetsRetained`).
- `runtime_settings.go:243`: a saved row that does not parse falls back to the environment, also
  for `tools.deny` and the limits (`OneCommittedPolicy`).

## Abstractions

- `RuntimeWebhook`: payloads are their kind and number; PUTs come before Shutdown; the drain
  timeout of Shutdown is left out, as it is in `ConnectionEvents` and `MediaTransfers`.
- `ConnectionProblem`: a ban lasts one tick; the marker's encoding and backoff times are left out.
- `SendLimits`: ambiguous commit errors, refusal totals, metrics and a clock that runs backwards
  are left out.
- `PendingEdits`: identity read and alias lookup are one step; the account's own edits
  (`/api/edit`) and media columns are left out.
- `MediaTransfers`: one destination on the local backend; the CDN, the phone's re-upload and the
  local quota are one outcome.
- `Archive`: a busy database is an outcome, its retries are not steps; calls, reactions and labels
  are left out; a redelivered event is the same event.
- `ReadReceipts`: listed reads may move the marker past older rows, by design. `PollVotes`: one
  voter; failing writes are left out, and a live vote between observation and write is outside the
  claim on votes of one second.
- `Groups`: one group; the account's own row is left out; a rejoin comes more than the skew after a
  departure; a settings snapshot older than an event may overwrite it; rows that an overlapping
  older fetch stamped back are outside `MembersKept`. `RosterSync`: any order of activity, bounded
  faults.
- `S3Media`: objects have size 1; transfer slots, dry runs and access times are left out; a PUT
  takes effect before its error returns.
  `VerifiedSpools`: file removals succeed.
- `OperatorPairing`: refusals and unlinks are in `ConnectionProblem`, and with them what only happens
  over an unlink: the error of the client factory, the first park on `pairing_required` and the
  restart out of `logged_out` or a restriction; expiry of QR, code and step is
  a nondeterministic lateness; the SDK is external (one link exchange per client); the failing
  first write of a logout (503, no change) is left out; `historyVoteSessionGate` is folded into
  `clientGate`. `SessionSnapshots`: the snapshot command of another process is left out; the age of
  a set is its order of creation; removals of an undo succeed.
- `RuntimeSettings`: one key of each kind; in the run a request and a pass are not under way at once
  (`OneAtATime`), which the proof does not assume; the parsing of values, the answers of GET and PATCH and
  the names of sources are left out; of `mcp_token.go` only the saved row.

## Not modelled

The full list with reasons is in `PROJECT.json`. Pure conversions (message content, paths, times),
configuration, routing, authentication and logging have no state to check. The local
media purge, the session keepalive, the recipient cache, the MCP server's HTTP sessions, notes and
transcription queue have state and no module yet.
