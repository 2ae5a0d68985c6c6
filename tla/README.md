# Kunak: a verification project in TLA+

Kunak (the `samur` monorepo) is a mutual-aid platform for floods: people report
incidents, ask for help, send an SOS, and helpers respond. This directory models
the parts of it whose correctness depends on the order in which things happen,
model-checks them with TLC and proves the main invariants with TLAPS.

Line numbers refer to the files under `src/`. `PROJECT.json` maps every
definition to the lines it stands for and lists all hazards with their lines.

## The system

| component | state | operations | hard because |
|---|---|---|---|
| API: incidents (`apps/api/src/routes/incidents.ts`) | one Postgres row per incident, with a `version` column | POST, PATCH, DELETE | the transition is validated before an await and committed after it |
| API: help requests (`routes/helpRequests.ts`) | the `help_requests` row (status, version, claimed_by, deleted_at), the `help_responses` rows with the handshake marks | POST, PATCH, DELETE, respond, my-response, participants, confirm / reject / undo-reject, SOS follow-up, recomputation of the denormalised status | each handler is a chain of awaited queries, almost none in a transaction; six of them write the same columns |
| API: Socket.IO gateway (`socket.ts`, `lib/emitter.ts`) | rooms in memory (`help:<id>`, user rooms, geo subscriptions) | subscribe, unsubscribe, evict, clear | an access check is awaited before the join |
| API: webhooks (`routes/webhooks.ts`) | none of its own | SMS, Telegram and mesh messages that create rows; `OK <id>` completes a request | writes by id, beside the app's version guard |
| API: SOS intake (`lib/sosVerification.ts`, POST /sos) | Redis counters and tokens, the row | dedup, rate limit, update token | check-then-create |
| API: sessions (`lib/tokenVersion.ts`, `middleware/auth.ts`, `routes/auth*.ts`) | `users.tokenVersion`, its Redis cache | sign-in, revocation, role change, check | cache refill against invalidation |
| API: scheduler and alert generator (`services/scheduler.ts`, `aiAlertGenerator.ts`) | Redis locks, alert rows | periodic tasks under a lock with TTL and timeout | lock expiry, a task that outlives its lock |
| API: chat messages, moderation, uploads | rows and objects in storage | post, report, delete, resolve, upload, delete | two writes per operation |
| API: shelters, channels, news, river levels, weather, seismic, map, statistics | rows, caches of external data | CRUD, fetch and store | – |
| PWA (`apps/pwa`) | outbox in IndexedDB | file offline, sync every 30 s | overlapping passes, several tabs, closing |
| Telegram bot (`apps/telegram`) | Redis list of undelivered submissions, dialogue state | enqueue, process every 30 s | a pass rewrites the whole list |
| VK mini app (`apps/vk`) | localStorage queue | add, flush when online | the same |
| Meshtastic bridge (`scripts/meshtastic-bridge`) | SQLite queue | radio callbacks, retry loop | threads, retries |
| ML service (`apps/ml`), `packages/*`, nginx, monitoring | – | – | stateless, declarations or configuration |

Clients call the API over HTTP and listen on Socket.IO; the API keeps everything
durable in Postgres (through Prisma) and everything volatile in Redis and in the
memory of the process. A client that cannot reach the API keeps the call in its
queue and replays it later, as the same HTTP request. The API never blocks: a
handler runs from one `await` to the next, and the requests in flight interleave
exactly there. That is the grain of the models of the API.

What makes each component correct, in short: a status moves only along the
transition tables (`lib/statusTransitions.ts`); the denormalised status and
claimer agree with the responses; a closed request stays closed; the chat room
holds only people the chat's HTTP endpoints would admit; a report the user was
told is saved is not dropped silently, and does not stay for ever.

## Modules

| module | models | composes or refines |
|---|---|---|
| `Lifecycle` | abstract: a moderated record | – |
| `Incidents` | one incident and its handlers | refines `Lifecycle` |
| `IncidentMap` | `Incidents` with its events, the socket and the map of one browser | extends `Incidents` |
| `HelpRequest` | one help request, its responses and its chat room | – |
| `HelpOverlap` | `HelpRequest` with histories of handlers that overlap | extends `HelpRequest`; its status is measured against `Lifecycle` |
| `SavedReports` | abstract: a client that saves what it cannot deliver | – |
| `Outbox` | the PWA's outbox | refines `SavedReports` |
| `RetryQueue` | the queues of the bot and of the VK app | refines `SavedReports` |
| `MeshBridge` | the bridge of the radio mesh with the webhook it calls | refines `SavedReports` |
| `Sessions` | tokens, their revocation, the cache, sockets | – |
| `ForecastAlerts` | the scheduler's lock and the alert generator under it | – |
| `SosIntake` | the SOS button and the bot with POST /sos | – |
| `HelpChat` | messages, the chat page, reports and their verdicts | – |

`MC<module>.tla` gives the constants of a module their values, `<module>Proofs`
holds its theorems; `IntakeProofs` has those of `SosIntake` and of `MeshBridge`
(whose specification is therefore called `BridgeSpec`), the two ways a call for
help gets in.

### Lifecycle and Incidents

`Lifecycle` is the abstract specification of a moderated record: the status
advances along a table, one legal step from the status that was *current*, and
the record is withdrawn at most once.

`Incidents` is one row of `incidents` and the handlers that write it.
`PatchRead` is PATCH up to its write (lookup, permission, transition check),
`PatchCommit` and `PatchConflict` are the two outcomes of
`update({where: {id, version}})`, `DeleteRead` and `DeleteWrite` the soft delete,
which ignores the version. `op[s]` is the request in flight in slot `s` with what
it read. The initial state is what POST creates.

### IncidentMap

`IncidentMap` puts the incident on the map of one browser
(`apps/pwa/src/pages/MapPage.tsx`). Its steps are those of `Incidents`, plus the
creation (`Post`), the events the handlers emit once they have committed
(`announce`, `Emit`), the socket that delivers them in the order they were
emitted or drops with them (`line`, `Hear`, `Disconnect`), and the loads of the
page: `Move` schedules one, `Ask` sends it with the bounds of that moment,
`Answer` is the query of GET, `Show` is `setIncidents`. Several loads overlap and
carry no request number; `Fail` is the error or the timeout that the page reads
as an empty list. `markers` are copies of the row with the version they were
taken at.

The page promises nothing about a marker and the row, and it can be wrong in
several ways, which the header of the module lists; the history variable `apart`
remembers that one has happened and only a load nothing disturbed clears it.
`MarkersAreCurrent` and `BackwardsForACause` then say that there is no *other*
way, and that such a load is enough to repair the map.

Abstractions: one incident, inside or outside the bounds; the limit of a hundred
rows per listing and the copy in IndexedDB (read only when IndexedDB itself
fails, 371) are left out.

### HelpRequest

One request, its responses, its chat room, and every handler that writes them. `op[s].pc` names the query the request in slot `s` awaits next:

| code | steps |
|---|---|
| `recomputeRequestStatus` (677-730) | `RecomputeRead`, `RecomputeWrite` |
| POST respond (735-836) | `Respond`, `RespondLookup`, `RespondCount`, `RespondUpsert` |
| PATCH / DELETE my-response (840-926) | `MyResponse` / `Withdraw`, `ResponseUpdate`, `Evict` |
| DELETE participant (1322-1378) | `RemoveParticipant`, `RemoveFind`, `ResponseUpdate`, `Evict` |
| confirm, reject, undo-reject (928-1069) | `Judge`, `JudgeLoad`, `JudgeMark` |
| PATCH (1420-1549) | `Patch`, `PatchCapture`, `Cascade`, `Commit` / `CommitConflict`, `EvictAll` |
| SOS follow-up (471-577) | `FollowUp`, `Cascade`, `Commit` / `CommitConflict` |
| DELETE (1551-1579) | `Delete`, `DeleteWrite`, `DeleteClear` |
| mesh `OK` (webhooks.ts 451-481) | `MeshOk`, `MeshComplete` |
| help:subscribe / unsubscribe (socket.ts 160-180) | `Subscribe`, `SubscribeCheck`, `Join`, `Leave` |
| a query that throws; the process restarts | `Abort`, `Restart` |

Every handler that changes a response goes on to `recompute`. `order` is the
creation order of the response rows, which decides who is the claimer. The
constant `Endpoints` selects the endpoints clients call in an instance; the
proofs hold for every choice of it.

Abstractions: the recomputation's `findUnique` with its included responses is one
atomic read; `fetchSockets` plus `leave` is one step; there is one API process;
an account is never deleted while it takes part; names, phones, messages,
notifications and the 24 hours within which a rejection can be undone are left
out (an undo is always in time).

### HelpOverlap

Handlers of one request overlap freely, and the code excludes few of the
consequences: an unguarded recomputation stores an older view or reopens a
closed request, a helper responds behind a cascade, a conflict leaves closed
responses under a live row, first responses share the last place, confirm and
reject each miss the other, a join follows the eviction, the follow-up of an
SOS evicts nobody. `HelpOverlap` adds history variables that remember that such
a crossing has happened, and to whom; `OverlapNext` is `Next` with `Remember`,
which sets the histories and restricts no step. The properties then say that
nothing *else* goes wrong:

| history | remembers | property |
|---|---|---|
| `overtaken` | edits under way while another one committed | `StatusObeysLifecycle`: none of them lands; every write of the status is a legal step of `Lifecycle` from the status as it is then, or its handler decided on a status that an unversioned write has changed since |
| `askew` | the row need not be what the responses ask for: two recomputations at once, a mesh `OK` during one, an edit of the status, a cascade, a failure; cleared by the next recomputation that begins while no other is about to write | `StatusTellsResponses`: at rest, status and claimer are what the responses ask for |
| `late` | helpers who changed their response behind a cascade | `CancelledForAll`, `ClosingReachesResponses`: nobody else is active on a cancelled request, and the commit of a closing finds all responses closed |
| `firsts` | non-staff whose active response is the one they created | `OverrunIsBounded`: fewer than the cap and the slots together |
| `contested` | helpers whose confirm and reject were in flight together, each past the check of the other | `VerdictsAgree`: nobody else carries both verdicts |
| `strays` | users left in the room by a late join, an uncaptured cancellation, or an eviction given up by a conflict or a failure | `RoomMatchesAccess`: at rest, everybody else in the room may read the chat |

Without its exception each of them is false of the code; four configurations in
the section on deviations show that for the status, the cap, the verdicts and the
room.

### SavedReports, Outbox, RetryQueue and MeshBridge

`SavedReports` is the abstract promise of a client that saves a report it cannot
deliver: what is saved is kept until there is an excuse to let go of it.

`Outbox` is the PWA's store and `syncOutbox`. `Start` reads the store once and
deduplicates; `Purge`, `GiveUp`, `Remove` delete; `Send` is the end of the fetch
(an answer below 500, or anything else); `RetryGet` and `RetryPut` are the two
halves of `incrementOutboxRetry`; `CloseTab` ends a pass anywhere. A pass is a
record that holds the stale snapshot it works on. `answered` and `tries` are
history: what really happened to a report, whatever the store says.
Abstractions: whether the backoff has elapsed is a free choice between `Skip` and
`Send`; the entries of a pass are visited in any order; entries are numbered in
the order of `createdAt`, ties and clock changes are left out.

`RetryQueue` is the Telegram bot's Redis list and the VK app's localStorage
item, whose passes take the same steps: read all (`Start`), send or skip each
entry (`Skip`, `Delivered`, `Failed`), write all back (`Replace`). `Die` is a
restart or a failing write-back. `Delivered` stands for a callback that returns
true: for the bot any 2xx or 4xx, for VK a call that did not throw. The sending
order and the order of the list are left out.

`MeshBridge` is `scripts/meshtastic-bridge/bridge.py`: the radio thread and the
heartbeat thread each have one POST (`Hear`, `Take`, `Accepted`, `Fails`), a third
thread works off the SQLite queue from a snapshot taken at the start of a pass
(`StartPass`, `Abandon`, `Delivered`, `Retry`). `Take` is the webhook storing the
message; the answer may be lost after it (`unread`), in which case the item is
sent and stored again. `Crash` keeps nothing but the queue. SQLite may fail: an
`enqueue` that raises loses the message, because the thread that heard it only
logs the error (`EnqueueFails`), and a row that cannot be removed, or its try not
counted, ends the pass and is sent again (`UpdateFails`). `Refused` is what the
API answers with a 4xx; every heartbeat is, since its node_id `bridge` is no hex
number (packages/shared/src/schemas/index.ts:499). Outbound broadcasts and the
parsing of frames are left out.

### Sessions

One user's row (`version`, `role`), the Redis entry with its remaining life, the
tokens signed so far, and in each slot a call or an open socket that goes through
the steps of its route: `LookupHit` / `LookupMiss` are `getCurrentTokenVersion`,
`Prime` its fire-and-forget SET NX, `Bump`, `Publish` and `Disconnect` the three
awaits of `bumpTokenVersion` and the sweep, `Patch` and `Mint` the role change,
`Join` the handshake of a socket. A write on its way to Redis has an age; `Tick`
ages the writes and shortens the life of the entry, and `MaxDelay` bounds how old
a write may become. `past[v]` says how long ago the row left version `v`, so
that "a revoked token passes for less than the window" is a property of one step.
Writes may be lost (`LosePrime`, a failing publish) and arrive in any order. A
socket joins its user's room behind the awaited handshake (`Join`); `late` marks
one that did so with a revoked token when the last revocation had ended.

### ForecastAlerts

The hourly task `runMlPredict` in several API instances: `Start` takes the lock
with SET NX EX, `TimedOut` is the `Promise.race` that releases the lock while the
task goes on, `Crash` a process that dies with the lock in hand, `Expiring` the
end of the lock's life. Inside, `Predict` stores forecasts, `Read` takes the peaks, `Find`
looks up the day's alerts of one of the stations left (`Todo`) and `CreateFor` inserts. `overrun`
remembers that a run outlived its lock. `NamedIn` models the lookup by a part of
the title: whose alerts contain whose name. The gauges of the code are named
after a place or after the river itself, and every title begins with the river,
so an alert for one gauge may be taken for another's.

An instance that found no Redis when it started runs its tasks without a lock
(scheduler.ts:28, 157-160). That mode is not modelled: in it any two runs may
overlap, and nothing the two properties of the lock say is promised.

### SosIntake

A phone, its requests in flight and the rows they create. `Send` is the press or
"try again", `TimeOut` the 15 seconds after which the page stops listening while
the handler goes on, `Save` / `Flush` the outbox, `Enqueue` the bot's queue. The
screen is left by `Done` when it shows the SOS as sent, and by `GiveUp` from the
error or by "back" while the SOS is still being sent: its answer is listened to
all the same and opens the screen again. `Retract` is the author's own
cancellation; its confirmation dialogue and what follows it are one step.

The handler is `Lookup` (the dedup), `Consume` / `Refuse` (the rate limit of
anonymous callers), `Create` and `Answered`; `Load` and `Commit` are the
retraction. A request is served as a user's (`LookupOwn`) or as anonymous
(`LookupNear`), which the model leaves open at every request: a visitor has no
token, and `optionalAuth` drops one it cannot check (middleware/auth.ts:46-62).
`named` are the rows that carry a userId. Rows are closed by the other endpoints
(`CloseRow`) and come back by an explicit reopening or a late recomputation
(`Reopen`). Whether a row lies within the kilometre and the half hour of the
dedup is left open.

Two histories carry the exceptions. `twins` are named rows that came up beside
another active one of their author, or beside a request about to store one: by
overlapping creations or by reopening, which the code does not exclude.
`crossed` marks a retraction that was under way together with a request of a
screen which found the same row.

### HelpChat

The messages of one request in the order of `createdAt`, soft deletions, the
chat page of each participant (`Open`, `Fetch`, `Apply`, `LoadEarlier`,
`LoadFails`, `Close`), its socket (`Join`, `Deliver`, `Drop`, `Reconnect`),
sending as storing and telling (`Store`, `Emit`, `EmitFails`), complaints (`File`)
and the coordinators' calls (`Look`, then `Dismiss` or `Delete`, then `Tell`).
`since[p]` is where the history a responder may read begins. The page and its room
are not synchronised in the code, and neither are they here; `missed`, `slipped`,
`crossed` and `late` remember which of the crossings has happened to which
message, so that the properties can say that nothing else goes wrong.

## Runs

Sizes are distinct states.

| run | instance | states | what it shows |
|---|---|---|---|
| `incidents` | 1 editor, 2 requests, 2 versions, a map with 2 loads, 1 move, 1 fault | 1,654,507 | `SnapshotHolds`: the version guard makes check-then-commit sound; `LifecycleSpec`: refinement of `Lifecycle`; `MarkersAreCurrent`, `BackwardsForACause`: the map is wrong only in the ways listed |
| `help_concurrent` | author, 2 helpers; 2 slots; SOS; cap 1; 1 version; respond, my-response, PATCH, follow-up, mesh | 1,139,873 | `StatusObeysLifecycle`, `StatusTellsResponses`: the status against the transition table and the responses; `CancelledForAll`, `ClosingReachesResponses`: closing; `CompletionIsFinal`, `CancellationIsTheAuthors`, `ClaimerResponded` |
| `help_handshake` | author, 3 helpers; 2 slots; cap 1; 2 versions; respond, handshake, PATCH | 514,854 | `OverrunIsBounded`, `VerdictsAgree` |
| `help_room` | anonymous SOS, helper, coordinator; 2 slots; 1 version; respond, participants, DELETE, PATCH, follow-up, chat, failures and restarts | 688,061 | `RoomMatchesAccess`, `DeletedRoomStaysClosed` |
| `outbox` | 2 reports to one endpoint, 2 retries, 2 passes, 1 closing, fairness | 17,072 | `KeepsReports`: nothing leaves without an excuse; `Drains` |
| `outbox_dedup` | 2 reports to one endpoint | – | *violated*: `SavedMeansSent` |
| `retry_queue` | 2 submissions, 3 retries, 2 passes, 1 failure | 85,682 | `KeepsReports`, for what was queued while no pass ran |
| `sessions` | 2 calls of six kinds, 2 revocations, life 2, delay 1 | 1,992,565 | `RevokedWithinWindow`, `FreshTokenPasses`: the cache admits the revoked for a bounded time and never refuses the valid; `OnlyLateJoinersStay`; `RoleDriftNeedsRevokedCaller` |
| `forecast_alerts` | 2 instances, 2 stations of which one is named like the river, lock life 2, timeout 1, 1 crash, fairness | 290,862 | `RunnerHoldsLock`, `WarningComesFirst`, `DangerIsAnnounced` |
| `sos_intake` | 1 person, served as a user or as anonymous, 2 requests, 2 rows, fairness | 198,164 | `OneSosPerUser`, `ShownSosIsActive`, `IsHeard` |
| `help_chat` | 1 reader, page size 1, 2 messages, 1 report, 1 lost connection, 1 coordinator's call | 1,746,782 | `DeletedIsHidden`, `ReadyPageIsComplete`, `LateJoinIsPrivate`, `QueueIsFresh`, `VerdictIsTrue` |
| `mesh_bridge` | 2 messages, a refused heartbeat; 2 tries, 2 restarts or failures of SQLite, 2 lost answers, fairness | 56,962 | `KeepsReports`, `HeardIsAccountedFor`, `StoredAgainForACause`, `Drains` |

`help_concurrent` and `sos_intake` check `TypeOK` too, `mesh_bridge`
`BridgeTypeOK`; the type invariants of all modules are theorems.

The three runs of a help request use a VIEW that leaves out the histories their
properties do not speak of. A history influences no step and no other history,
so two states that differ in those alone have the same future as far as the
properties can tell. What the runs leave out to stay small, the theorems cover:
all endpoints together, failures and restarts in every instance, any users, cap
and number of requests in flight.

### Bounds

All bounds are constants named in the modules; history counters stop at the limit
they are compared with.

* Two slots are enough for the hazards of an incident, a help request or a
  session: each is a race of two handlers on one row, and the properties of
  the help-request runs, `incidents` and `sessions` are proved for any number.
* One version in `help_concurrent` and `help_room` lets one edit commit and the
  other meet the conflict; two in `help_handshake` let a request be cancelled,
  which closes its responses, and reopened. Cap 1 makes the limit reachable; three helpers at two slots are
  what the bound on the overrun takes to be tight. That a reopening is the only way
  out of a cancellation is left to the theorem `CancellationFinal`.
* The map needs two loads for answers that pass each other, two updates for
  events out of order, one move to leave the incident's bounds and one fault for
  each way of losing an event or an answer.
* The outbox needs two entries of one endpoint to supersede, two passes to race,
  two retries to have a first, a last and a lost increment, and one closing; the
  retry queue needs three retries so that a stale count of one differs from both
  ends. The bridge needs two crashes and two lost answers so that one message
  can be stored three times; a failure of SQLite counts as a crash.
* A life of the cache entry of two ticks and a delay of one keep the two apart;
  two revocations let an older write meet a newer entry.
* Lock life and timeout are equal in the code's configuration of this task (300
  seconds). In the run the lock lives one tick longer, so that it is the timeout
  that lets a run go on without it; the theorems hold for any two values. One
  crash with the lock in hand suffices for a wait. Alerts of one kind are counted
  up to one: a second warning is then no rise, so in the run `WarningComesFirst`
  sees a warning after a critical alert and not one after a warning; the theorem
  has no such bound.
* Two rows per person let a second SOS exist; two requests in flight let a
  retraction cross a new press, and two creations each other. A bound of the
  model is that a third row fails like a query (`CreateFull`).
* Two messages with page size 1 make "show earlier" meaningful; one lost
  connection gives a page an outage to recover from.

### Fairness and deadlock

Four liveness properties are checked, each under what the code's scheduling
gives:

* `Outbox!Drains`: the timer keeps firing while the device is online again and
  again and the event loop keeps running (weak fairness of every pass), and an
  entry that is visited for ever is sent for ever: a backoff is 40 seconds at most
  (outbox.ts 18-20 and 62-66), so `Skip` cannot be the answer for ever (strong
  fairness of `Send`). Nothing is assumed of the user's filing, of closing a tab,
  or of the server's answers.
* `MeshBridge!Drains`: a request ends, by its timeout if nothing else, and the
  three threads run. Nothing is assumed of the API's answers.
* `ForecastAlerts!DangerIsAnnounced`: timers fire, time passes and a run goes on;
  an insert that is tried again every hour for ever succeeds at last, for each
  station (strong fairness of `CreateFor`). Crashes are bounded.
* `SosIntake!IsHeard`: handlers run on, a rate-limit point expires, the person
  presses "try again" for ever, and queries that are tried for ever succeed at
  last. Nothing is assumed of answers reaching the phone.

Liveness is not claimed for the retry queue: a pass that writes a stale snapshot
back restores old retry counts, and how often that happens is not bounded by the
code.

`CHECK_DEADLOCK FALSE` appears where the system may rest: no endpoint left that
applies to a closed request within the version bound, every report delivered.

## Proofs

Eight modules prove their component's properties for all values of the constants
(any number of users, requests in flight, entries, passes, loads, messages,
failures), from the named assumptions on constants only.

* `IncidentsProofs`: `TypeOK`, `SnapshotHolds`, `JudgedByKnownUser` and the
  refinement of `Lifecycle`. `SnapshotHolds` is the inductive heart: while the
  version a request read is current, so is the status it validated. A commit
  with a matching version therefore takes an edge of the table, whatever
  happened since the read; every other request loses its match by the bump.
  `MapKeepsRow` carries all of it over to the composition with the map.
  `MarkersCurrent` and `NoBackwards` are about the map. That the markers are
  right once everything is quiet is not inductive; `MapInv` says what is true in
  between: every pending event carries the row as some commit left it and the
  newest carries the row as it is (`History`), while nothing is in doubt they are
  heard in the order of their commits (`Ordered`), what the map shows is older
  than all of them and becomes the row when the last is heard (`Right`, `Older`,
  `Whole`), the same holds of every answer that may be shown without doubt
  (`RowsRight`), and an incident in view that is not shown has a load to come
  (`Away`).
* `HelpRequestProofs`: typing (which needs `RowsOK`: every response row is in
  the creation order and a row about to be updated exists, because rows are never
  deleted), `ClaimsLawful` and from it `ClaimerResponded`, and the properties of
  `HelpOverlap`, none of which assumes anything about overlap, failures or
  endpoints. Lemmas state once which slot a step moves, that steps
  that only read leave the row alone, and where a request may arrive
  (`SlotAfter`, `OthersOnlyRead`, `AfterReading`, `Arrivals`); each theorem then
  has one step per action that can disturb it. `CompletionIsFinal` is inductive
  with the condition that every pending writer saw `completed`: a writer that
  arrives later reads the row and sees it too, and what it decides leaves a
  completed request alone. Each property of overlapping requests has an inductive
  invariant of its own:
  - `EditsTimed` (with `DecisionsLawful`): an edit that has not been overtaken
    holds the current version, one that has holds an older one, so it can only
    end in the conflict.
  - `Reconciled`: while the row is not askew, it is what the responses ask for,
    or a handler is still to recompute, or the one recomputation that is about to
    write carries what they ask for (nothing but the row may change under it
    without another handler that will recompute).
  - `Closings`: whoever is active on a cancelled request, or behind the cascade
    of a closing, is `late`.
  - `PlacesCounted`: the first responses there are and those already past the
    count find room in the cap and the slots together. The last to have counted
    saw fewer than the cap.
  - `VerdictsWatched`: a helper about to be confirmed carries no rejection, and
    conversely, unless contested.
  - `EvictionsPending`: whoever is in the room without access is a stray or is
    about to be evicted by a handler in flight.
* `RetryQueueProofs`: typing and the refinement of `SavedReports`. The invariant
  `IInv` says that an entry a pass has dropped from both its lists, or that
  another pass may drop by writing back, has an excuse or was filed late, and
  that a retry count held anywhere is covered by as many real failures.
* `OutboxProofs`: typing and the refinement of `SavedReports`. `StoreFine` and
  `PassFine` say that every retry count, in the store or in a stale snapshot or
  read back by a retry, is backed by as many recorded failures
  (`Backed`), that everything a pass still has to purge is superseded and
  everything it is about to remove was answered. Excuses only grow
  (`ExcusesGrow`), so a pass that does not move stays fine (`OtherPasses`).
* `SessionsProofs`: typing and all four properties of the run. `OnlyLateJoinersStay`
  rests on the sweep of the last revocation: until it, a revoked socket in the
  room has a revocation still to come. The window rests
  on a relation between three clocks: a write under way is at least as old as the
  version it carries is superseded (`SoundWrite`), so a stale entry ends before
  the window of its version does (`SoundEntry`), and versions are superseded in
  order (`PastOrdered`). The role theorem has its own invariant (`RolesAgree`).
* `ForecastAlertsProofs`: typing, `RunnerHoldsLock` and `WarningComesFirst`. A
  task that has timed out would go on without its lock, so the invariant adds that
  nobody is late before the first overrun (`LockHeld`); then the one run under way
  is the only one that inserts, and what it looked up still holds (`WarningDue`).
* `IntakeProofs`, the SOS button: typing, `OneSosPerUser` and `ShownSosIsActive`.
  Rows come up by being stored or reopened. A request stores a name only past the
  dedup of users (`NamedLate`), and as long as it is about to, its author has no
  active row under that name but twins (`ClearToCreate`): one that comes up
  meanwhile, stored or reopened, is a twin itself.
  For the screen (`ScreenInv`): what a phone keeps and a screen waits for lies
  within its person's reach (`Within`), and no uncrossed retraction is under
  way of a row that a screen shows or will show (`NotRetracted`). The dedup of an
  anonymous caller goes by address and answers with anybody's row from it, so one
  can be shown, and retract, the SOS of a neighbour behind the same router. The
  property therefore speaks of people whose address is their own (`OwnLine`); with
  one person, as in `sos_intake`, the difference does not show.
* `IntakeProofs`, the mesh bridge: all four safety properties. `BridgeInv` adds that
  an item is queued only after its one POST failed (`Placed`), that the column
  `retries` counts the failed tries for as long as the row is there (`Counted`),
  that an answer is under way only to the request that waits for it (`Awaited`),
  and that an item which may still be sent was stored no more often than answers
  were lost or forgotten (`StoredOften`): only then does the next storing stay
  within the bound of `StoredAgainForACause`.
* `HelpChatProofs`: typing, `QueueIsFresh`, `VerdictIsTrue`, `LateJoinIsPrivate`,
  `DeletedIsHidden` and `ReadyPageIsComplete`. `Desk` relates what a coordinator saw
  to the reports and the deletions, `Privacy` relates answers under way and events
  under way to where a responder's history begins. `Screens` is about one reader's
  page at a time. What is missing from a ready page is not inductive without what
  the answer on its way will bring (`Answers`: everything it was asked for, or a
  full page of newer messages) and which loads may be under way at all (`Tidy`:
  an earlier page only from the first message of a ready one). `Hides` says of the
  page and of the answer on its way that a deleted text in them is about to be
  announced, or slipped through in a named way. The lemma that the newest messages
  of a page are a full page (`NewestIsFull`) is where `PageSize` enters.

### Only model-checked

The liveness properties (`Outbox!Drains`, `MeshBridge!Drains`, `IsHeard`,
`DangerIsAnnounced`), because fairness and ENABLED are out of the prover's reach,
and the violated claims below. Every safety property and every refinement of a
passing run has a theorem.

## Known deviations

One run and nine configurations beside the runs show where the code and what is
said of it part. Each configuration checks one property that TLC finds violated
(`tlc -config <cfg> <module>`):

| configuration | module | property | what happens |
|---|---|---|---|
| `MCOutboxDedup` (a run) | `MCOutbox` | `SavedMeansSent` | of two reports saved offline the older is purged unsent |
| `MCHelpReopened` | `MCHelpRequest` | `CompletedIsTerminal` | a recomputation that read before the completion reopens the request |
| `MCHelpCapRace` | `MCHelpRequest` | `CapOnCreate` | two first responses exceed the cap together |
| `MCHelpRoomRace` | `MCHelpRequest` | `RoomIsPrivate` | a join whose check preceded the eviction follows it |
| `MCHelpTwoVerdicts` | `MCHelpRequest` | `OneVerdict` | confirm and reject each look before the other marks |
| `MCSessionsLateSocket` | `MCSessions` | `ChannelsRevoked` | a socket whose handshake preceded the revocation joins its user's room behind the sweep (socket.ts:65 says that the channel does not survive) |
| `MCRetryQueueOverwrite` | `MCRetryQueue` | `KeepsEveryReport` | a submission queued during a pass is overwritten by its write-back |
| `MCForecastShadow` | `MCForecastAlerts` | `SkipsOnlyCovered` | a gauge named like its river is taken to be covered by another's alert |
| `MCMeshBridgeRefused` | `MCMeshBridge` | `RefusedIsNotRetried` | a message the API refuses for good is queued and retried (bridge.py:213) |
| `MCHelpChatUntold` | `MCHelpChat` | `SeesFromResponseOnward` | a helper who joins between the storing and the telling of an older message is told it |

Met while modelling: POST respond of an active
helper sets the response back to `responded` (helpRequests.ts:794, although the
comment at 733-734 announces a 409; the step is in the model); a cancellation
through the SOS follow-up leaves the cancelled helpers in the chat room (541,
one of the ways `RoomMatchesAccess` names); a verdict is written after an await
during which the helper may have moved the response (982); an edit that read an
incident before its deletion commits after it (incidents.ts:239); reopening a
cancelled SOS does not look for another one of its author; `optionalAuth` serves
a signed-in caller as anonymous when a lookup fails, so that the next SOS is a
second row without a name; the PWA's outbox counts a 429 as an answer and
drops an SOS with it; a chat message sent again after a lost answer is stored
twice; the read watermark takes the time of the handler (1401, display only); a
verdict on a report is written by id and overwrites another's. On the map, a GET that fails
empties the map, `incident:created` is prepended without looking for the
incident, a DELETE tells nobody and a reconnected socket loads nothing. The list of
help requests (`HelpPage.tsx`) merges in the same way: the answer of a tab left
behind is shown, a page whose load fails is skipped, a pushed row loses the
viewer's own response status, and created rows ignore the urgency filter.

## Not modelled

* Sign-in providers (SMS gateway, Telegram, VK): dialogues that end in the same
  `signToken` as the password login, which `Sessions` has.
* Uploads: random names, no row written by two callers, failed batches clean up.
* Rate limiting beyond the SOS point: each limiter is one atomic command and nothing
  else depends on it.
* Users, administration, consent, shelters, channels, news, statistics: single
  rows written by one query, or queries.
* River levels, weather, seismic data, the ML service: fetching, parsing and
  numerical content.
* The rest of the PWA (rendering, geography, the list of help requests, whose
  merging the section above describes), the dialogues of the bot (one chat, one
  question at a time) and the interface of the VK app.
* Mesh broadcasts, the parsing of SMS and mesh text, deployment.

The modules cover the code whose correctness depends on order, failure and
overlap; most of the remaining lines render, parse or store a single row.
