# Verification of samsung_tv_frame

TLA+ models, TLC runs and TLAPS proofs for the Home Assistant integration
`custom_components/samsung_tv_frame` (Samsung Frame televisions). Paths and
line numbers are those of `src/custom_components/samsung_tv_frame/`.

## 1. The system

The integration is one asyncio program on the event loop of Home Assistant.
Everything between two awaits is atomic; what is hard is what happens at the
awaits. It talks to one television over three channels, each of which fails by
itself: REST (polled), the Art websocket (requests and pushed events) and the
remote-control websocket (commands).

| Component | State it keeps | Operations | Talks to |
|---|---|---|---|
| Art session, `art_session.py` | state STOPPED/CONNECTING/READY/BACKOFF/DORMANT, generation, failure counters, host-fault evidence, the retry deadline, handles of the connect, close and stop task | `async_start`, `observe_power` (every poll), `async_ensure_ready` (user operations), `async_connection_failed` (every failed operation), `async_stop` | drives the transport; called by device and coordinator; calls back the coordinator on a change of state |
| Art transport, `frame_art.py` | connection, receiver task, lifecycle lock, operation lock, pending responses, transfer tasks | `open`, `start_listening`, `request`, `close`, `stop`, uploads and thumbnails | the television; pushes events to the coordinator |
| Device, `device.py` | dialects of the generation, remote lock and flags, the UPnP device | reads, probes and mutations of optional state, remote commands, quiesce, stop | session, transport, remote, REST, UPnP, Wake-on-LAN |
| Remote channel, `frame_remote.py` and `device.py:748-907` | connection, token, lifecycle lock, active operation, quiescing | `open`, `close`, `async_stop`, commands | the television; calls back the coordinator (token, reauthorization) |
| Coordinator, `coordinator.py`, `models.py` | cached Art readings with push revisions, debounce count, failure streak, reconciliation deadline, learned trait, published snapshot, repair flags | poll, reconcile, `handle_art_event`, requested refreshes, wake probe | device; publishes `FrameData` to the entities |
| Entry, `__init__.py` | none of its own | setup, unload | device, coordinator |
| Image, `image.py` | one cached picture, the artwork last shown, the timestamp in the URL | `_handle_coordinator_update`, `async_image` (whenever a frontend asks) | coordinator, device |
| Other entities, `switch.py`, `binary_sensor.py`, ... | none | views of the snapshot, services | coordinator, device |
| Configuration flow, `config_flow.py` | two temporary clients, their cleanup tasks, the entry | `validate_and_pair` from three forms, discovery | the television, a remote and an Art client of its own |

What makes each correct:

* *Art session*: one transport and one handshake at a time; a lifecycle lock
  that nobody leaks; a state that never says CONNECTING when nobody connects
  (no heartbeat would try again); probes that are paced by one deadline; a host
  fault that only time can establish; generation numbers that are never shared
  by two transports; a stop that ends and leaves nothing; recovery.
* *Coordinator*: a push wins over an older answer; settings and slideshow are of
  one generation; the snapshot settles on what the television does; a dead
  channel surfaces; the repair says what the snapshot says and ends with the
  entry; a television that shuts down stays off.
* *Transport requests*: an answer that names its request reaches no other, every
  waiter is answered or failed, no transfer outlives its connection.
* *Remote*: a token is persisted before the command that may switch the
  television off; no operation is in flight once the callbacks are gone; one
  websocket at a time, none after a stop; an unload ends, whatever hangs.
* *Dialects*: what is believed of the television was heard over the present
  generation; a write goes out only in a dialect that answers; silence costs the
  session only where nothing answered; the right dialect is found.
* *Picture*: a request is never answered with another artwork, however requests
  overlap; the frontend is told of each new artwork, and of nothing else.
* *Pairing*: however a call ends it leaves no websocket open, a cancelled one
  never pairs, it ends, and does not undo a repaired address.

Hard behaviours: tasks that interleave at every await; failures reported by
several tasks for one loss; deadlines that cancel a task anywhere; a receiver
that winds up while its successor wants to start; pushes that race with polls;
unload while any of this is in flight. `PROJECT.json` lists them as hazards, at
their lines.

## 2. The modules

| Module | Models | Notes |
|---|---|---|
| `ArtChannel` | what the session promises: up or down, and a number | abstract specification |
| `ArtSession` | session, lifecycle part of the transport, device operations as the session sees them | implements `ArtChannel` |
| `ArtSessionProof` | theorems about `ArtSession` | TLAPS |
| `Coordinator` | coordinator, over `ArtChannel` for the Art channel | composed with the session in `Integration` |
| `CoordinatorProof` | theorems about `Coordinator` | TLAPS |
| `Integration` | the session and the coordinator of one entry, joined as `device.py` and `__init__.py` join them | extends `ArtSession`, instantiates `Coordinator` with the session for its channel |
| `IntegrationProof` | theorems about `Integration`, and `CoordinatorProof`'s over the real session | TLAPS |
| `ArtRequests` | the transport below the session: operation lock, waiters, receiver, uploads and thumbnails, close | the detail of what `ArtSession` abstracts of an operation; the link between the two is not checked |
| `ArtRequestsProof` | theorems about `ArtRequests` | TLAPS |
| `RemoteControl` | the remote-control channel: commands, websocket, credential, and the entry that is set up, unloaded, kept or stopped | stands by itself |
| `RemoteControlProof` | theorems about `RemoteControl` | TLAPS |
| `Dialects` | the optional Art state of the device: probes, the two dialects of a generation, the slideshow service | over `ArtChannel`, as the coordinator |
| `DialectsProof` | theorems about `Dialects` | TLAPS |
| `Picture` | the image entity and the frontend that asks for its picture | stands by itself; the artwork published is an input |
| `PictureProof` | theorems about `Picture` | TLAPS |
| `Pairing` | `validate_and_pair`, its two temporary clients and cleanup tasks, the steps that use its result | stands by itself |
| `PairingProof` | theorems about `Pairing` | TLAPS |
| `MCArtSession`, `MCCoordinator`, `MCIntegration`, `MCDialects` | values, symmetry and scope for TLC | |

### ArtSession

An action is one stretch of a task between two awaits. `state`, `started`,
`terminal`, `generation` are the attributes of the same name; `retry` gathers
the counters and `_next_retry_at`; `connect`, `closeTask`, `stopTask` are the
three tasks; `lock` is the FIFO queue of `FrameArt._lifecycle_lock`; `socket`
and `receiver` are the connection and the receiver, named by the generation
they belong to; `op` is where each device operation is. `age` and `probes` are
history that two properties need.

Abstractions:

* `_next_retry_at` is kept as the time left, which `Tick` counts down; the
  jitter is any value within a fifth of the delay. Deadlines of a few seconds
  (handshake, close, drain) may expire at any moment they are pending.
* The code counts failures and answers without a bound (`art_session.py:422`) and
  reads the counters through `min()` and `>=` only: the model stops counting where
  those do, which keeps it finite. No property and no theorem is about that limit.
* A websocket found CLOSED and `connection is None` are one state, as
  `is_alive()` makes them.
* An operation that times out closes the transport itself, with the operation
  lock held; one that finds the transport dead fails; both then report. A
  response error leaves the session alone and is a completion.
* A session begins in the state a setup leaves it in: `reachable` is the
  coordinator's record of the last answer, which is true at first.
* A handshake cannot succeed for a stopped session: the code checks it last in
  the same stretch.

Left out: the cancellation of the close and stop tasks by Home Assistant, task
factories that raise, the state callback (it requests a refresh, which the
coordinator's model allows at any time), the dormancy warning. Transfers are in
`ArtRequests`.

### Coordinator

A poll is a task with the locals it carries over its awaits: `rest` (waiting
for REST), `mode`, `current`, `settings`, `slideshow` (the four awaits of
`_async_reconcile_art`), `extras` (running app and volume). Polls overlap freely.
A reading is named by the moment it was taken, the push revision of its field
when the television answered, so that "older" can be said; artwork is nothing
but that number; settings and slideshow are the generation they were read over.
`data`, `success` and `repair` are what others see.

The television is `gone`, `dark` (standby), `watching` or `art`; while it is
`dark` its Art app may still answer or push either value, as it does for the
shutdown window the comments describe. `ArtInStandby` tells models that report
standby in Art Mode from those that report on.

The unload of the entry has the stages of the code: `unloading` once the repair
is dropped and the stop of the device asked for, `stopping` once the stop has
reached the session (`device.async_stop` runs in a task of its own), `unloaded`
when Home Assistant has cancelled what was left. The channel is retired at the
second. `Epochs` is the set of generations a run looks at; a theorem may take all
of them.

The misses and the failure streak (`coordinator.py:413`), which the code counts on,
stop at the numbers it compares them with.

Left out: the running app, the volume (the await is kept), token capture and
`remote_confirmed`, a REST answer without PowerState, `reachable` and the
artwork in the snapshot. The `DataUpdateCoordinator` base class is external: it
may start a poll at any time before unload, and Home Assistant cancels what is
left of them when the unload is over.

### Integration

One state for both: the variables of `ArtSession`, and those of `Coordinator`
except its channel, which is now read off the session (`up <- Ready`,
`epoch <- generation`, `hostFault <- HostFault`, as the properties of
`device.py:135-153` read them). `SessionStep` is what the session does by itself;
`Observe` is the stretch of a poll in which REST has answered: the session's
`Heartbeat` and the coordinator's `Polled` in one step, the power state passed on
as `observe_art_power` passes it; `CoordinatorStep` is the rest of the
coordinator; `StopReaches` is the stop of the session on behalf of the unload.
Polls begin once the session is started and the unload is over once the stop is
(`__init__.py:61-62`, `128-129`). The television has one state for each, which
agree on whether it is on the network. Nothing in the module says what a step of
the session does to the channel: that it is one the coordinator was modelled for
is what is to be shown. A setup that fails is left out.

### ArtRequests

`queue` is `_operation_lock` with its holder first and `lock` the closes that
queue for `_lifecycle_lock`; `closing` is where the first of them is. `op` is
where each operation is (`queued`, `version`, `asking`, `adding`, `download`,
`cleanup`, `closing`), its kind and its id; `future` is what it awaits, `pending`
and `uuidless` the two places it may be registered in. An upload asks
`api_version` under one id and `send_image` under the next, and is registered a
second time under the latter for the arrival of the image. `asked` is what the
television has heard over the present connection: it may answer any of it, at
any time and more than once, or answer without an id. `began` is history: the
connection an operation asked over first.

The model relies on one fact about asyncio: `_receiver_finished` fails the
waiters after it closed the websocket, which takes several turns of the loop, so
a task whose answer was set before has resumed by then (`ReceiverEnds`). It may
have registered again, and is failed with the others.

Left out: what decides on handshakes and closes (`ArtSession`; here both happen
at any moment the code permits), the permanent stop, the frames that only reach
the callback, what is asked and answered.

### RemoteControl

`queue` is `_remote_operation_lock` with its holder first, `op` where each
operation of `_async_remote_commands` is (`queued`, `opening`, `sending`,
`resetting`), its attempt, and whether it was cancelled; `lock` is
`FrameRemote._lifecycle_lock`, held by the operation or wanted by the stop;
`connection` is the client's, `sockets` counts the websockets physically open
behind it. `entry` is the task that unloads or stops: `draining`, `cancelling`
(after the first deadline), `platforms`, `stop_draining`, `stop_cancelling`,
`stopping`, `stopped`; `quiescing` and `callbacks` are what it sets. `token` is
what the television issued, what the runtime holds and what the entry stores.

An operation that is cancelled either ends or goes on as if it had not been: the
second deadline of a drain exists for library calls that do that. Left out: a
device without a remote, the commands themselves (and so what a command that is
sent twice does), the reauthorization the callback starts, the Art session that
stops beside the remote.

### Dialects

`task` is each call of `async_get_art_settings`, `async_get_slideshow_state` or
`async_set_slideshow`: the read it is at, the generation it began with, and the
locals `liveness_proven` (`alive`) and whether the dialect was cached.
`dialects` is `_art_settings_dialect`, `_slideshow_dialect` and the generation
they belong to. `firmware` is the television: for each of the five reads what
may become of it, a value, a refusal or silence; a read may have more than one
outcome, so that a television changes its mind. `deaf` is a websocket that is up
and answers nothing more. `heard` and `proven` are history: what was said over
this generation, and the reads that ever gave a value.

`lock` is `FrameArt._operation_lock`; whoever waits may be next, which the FIFO
queue only restricts. A generation comes and goes as `ArtChannel` allows.

Left out: the values themselves, the mutation that first waits for the session
to connect (`ArtSession` has `async_ensure_ready`), and cancellation, which
writes no dialect.

### Picture

`current` is the artwork in the snapshot, `fetched` the two fields of the cache,
`shown` is `_shown_id`, `updated` counts the moves of `image_last_updated`. Each
request is one call of `async_image`, with the id it computed before the
download. `viewed` is what the frontend shows: the answer to its newest URL; it
and the proxy are external. A picture is the artwork it shows.

### Pairing

`call` is the one task of `validate_and_pair`: where it waits (`rest`,
`context`, `connect`, `handshake`, `abandon` for a websocket that `open()` gives
up, `drain`, `cleanup`), for which client, and the exception under way. `client`
is each temporary client: its websocket, whether `open()` has published it, and
its cleanup task. `entry` is the address in the config entry, `home` the address
of the television, which a lease may move; a sighting repairs the entry
meanwhile.

What a cancellation does depends on what it finds. A deadline cancels the task
too, and its `CancelledError` (`expired`) becomes a `CannotConnect` only where it
leaves its timeout (`Concluded`); if the caller has cancelled as well, the timeout
sees that and the caller wins. In the drain of `open()` a cancellation is kept
while the close task is there, but `frame_art.py:188-195` looks at the task and
not at the cancellation: one that comes when the close has ended and `open()` has
not gone on yet is dropped (`Dropped`), and `open()` raises the failure it was
raising anyway. `dropped` is history of that. The same window is in every close
of the transport; in `ArtSession` and `ArtRequests`, where a cancelled task need
not end before its close has, a dropped cancellation is one that never came.

Left out: titles and models, a second flow for the same television (Home
Assistant admits one), an address taken over by another television in the middle
of a call, the options form.

### How they compose

`Coordinator` and `Dialects` instantiate `ArtChannel` for the channel (their
actions that bring it up and lose it are `Establish` and `Lose`), and `ArtSession` is shown to
implement `ArtChannel` under `up <- Ready, epoch <- generation,
retired <- terminal`. So the reliance of coordinator and device on generation numbers, their
only fence across awaits, is justified by the session's own checks and proof.
`Integration` goes further for the coordinator: it runs the two together, and its
theorems say that each behaves there as the specification that describes it
alone, the host fault and the stop included.

## 3. What is checked

| Run | Question | Bounds |
|---|---|---|
| `session_safety` | a stop is final, one transport, the state, pacing, evidence, and the channel specification | two operations, delays 1 and 2, three answers for a fault, two faulty generations |
| `session_live` | a stop ends; the session recovers | delays of one tick, two faulty generations |
| `coordinator_polls` | what is published is a mode; no overtaken reading is cached; optional readings are of one generation; the repair agrees with the snapshot | two polls, two generations, two pushes, host faults, unload, within `Scope` |
| `coordinator_live` | a broken channel surfaces; the snapshot settles | one poll, all four screens, one push, one generation |
| `art_requests` | answers, registrations, receivers that end, transfers; every operation ends | two operations, three ids, two connections |
| `remote_commands` | confirmation, credential, callbacks, websocket; every unload and every operation ends | three operations, two credentials |
| `dialects` | dialects are heard, writes proven, silence retires; calls end; the right dialect is learned | two tasks, three televisions, two generations |
| `picture` | the right picture, the timestamp, catching up | two requests, three artworks, four changes |
| `pairing` | clean ends, cancelled calls that do not pair, kept repairs; every call ends | three addresses |

The run `coordinator_repair_outlives` (section 4) is one of `Integration`. The
same composition passes with `Integration.cfg` (`tlc -config Integration.cfg
MCIntegration`: one operation, one poll, delays of one tick, two generations,
867,330 states), which checks `BothAgree`, `UnloadedIsDown` and `CoordinatorSpec`
on a small instance; all three are theorems, so it is not among the runs.

Why the bounds are enough: two operations are needed for a late report (one
fails, the other lets the session reconnect) and a third adds no new kind of
overlap, since reports only join one close task; two faulty generations give a
transport, its replacement and a third that stays; two delays tell escalation
from repetition; two polls give one that is overtaken and one that overtakes;
two pushes let one arrive before and one during an answer; three remote
operations are one in flight, one queued and one that comes later; three ids are
an upload and another request, or a request abandoned, answered late, and
another. `Scope` keeps the product of pushes, generations, host faults and the
unload small: two pushes are explored over the first generation, and a fault or
an unload together with at most two pushes and generations, a stop with one; debounce and streak
limits are 1 there, as they matter only to `coordinator_live`, where they are 2.
In `dialects` one task asks for the slideshow and the other for the settings or
writes, and probes too: two that learn the same dialect at the same time; the
televisions are one that knows only the older commands and refuses, one that
knows the modern slideshow and is silent otherwise, and one that answers as it
pleases; two generations let a pass outlive the one it began with. Two requests
for a picture are one that is overtaken and one that overtakes, three artworks
tell an old one, the present and the next. Three addresses are the entry's, the
one typed and the one the television moved to. The proofs below
need none of these bounds. `MaxGeneration` also bounds when operations start:
two users that time out for ever could otherwise close each other's transports
for ever, which is not what `Recovers` is about.

Every property has a mutant in `PROJECT.json`: a form of one definition that a
plausible slip in the code would give, kept in the module next to the original,
under which TLC finds the property violated. The type invariants of `ArtSession`
and `RemoteControl` are in no run: they are theorems, and their runs check
properties that a slip is more likely to break.

Fairness (`session_live`): every task that can run does (the event loop is
fair), the heartbeat and the clock go on, an operation in flight ends, and the
television completes a handshake that is possible again and again (strong
fairness on `HandshakeSucceeds` only). `Recovers` assumes that the television
stays on, the session started, and that Home Assistant cancels no more connect
tasks. Fairness (`coordinator_live`): the heartbeat goes on, every call of a poll
ends (each is bounded by a timeout in the code), the reconciliation interval
passes. The premises of the three properties are about states only: polls that
all answer (`Smooth`), a television that stays as it is.

Fairness (`art_requests`): the event loop is fair to every task and every deadline
expires, that of a handshake included; nothing is assumed of the television or
of the callers.

Fairness (`remote_commands`): the deadlines of drain and stop expire, and Home
Assistant unloads the platforms or says that it could not. `EntryConcludes`
assumes nothing of the operations, which may hang for ever; `OperationsEnd`
adds that a call which has been made returns.

Fairness (`dialects`): the event loop runs every task that can go on, and the
operation lock is FIFO, so that a task which can have it again and again gets it
(strong fairness on the steps of a task, among them the deadline of a request);
polls recur. `Learns` assumes a channel that stays up and hears, and a television
that answers each read alike every time; it assumes nothing of what was believed
before.

Fairness (`picture`): a request is served, as the download has a deadline, and
the frontend asks again now and then: Home Assistant rotates the access token in
the URL, whatever the timestamp does.

Fairness (`pairing`): the deadlines expire, the executor returns the TLS context,
and a close task that is cancelled ends. Nothing is assumed of the television.

Deadlock is checked in `picture` and `pairing`, which never stop. It is not
elsewhere: a stopped session and an unloaded entry do stop, and counters with a
bound run out.

## 4. What the checks found

Three runs expect a violation; each is a disagreement between the code and what
its own documents or comments say, and each was reproduced by running the real
classes in the interleaving of the counterexample.

| Run | Disagreement |
|---|---|
| `session_stop_leak` | a stop joins a close task that had finished before the present transport was opened, and leaves the transport open (`art_session.py:463`) |
| `coordinator_mislearned` | the trait that standby means off is learned on a model that must never show it (`coordinator.py:551`) |
| `coordinator_repair_outlives` | with the real session below: a poll in flight raises the repair again after unload dropped it (`__init__.py:128`) |

Seen while modelling, and kept without a run of their own because the system gets
over them:

* A poll publishes the mode it computed before its last awaits over a push that
  arrived meanwhile (`coordinator.py:247`); the next poll puts it right, which
  `Settles` shows.
* After one missed REST answer a push of the dying socket turns OFF into Art
  (`coordinator.py:586`); the debounce turns it off again, which `Settles` shows.
  It shows the same of a television that answers standby, once standby is known
  to mean off. Until that is learned such a television is in Art Mode for as long
  as its Art app says so, and nothing is claimed of it.
* One correlated refusal followed by silence, on a link that has just gone deaf,
  is taken for a television without a slideshow (`device.py:548`), for as long
  as the generation lasts. `LearnedIsHeard` says what the verdict rests on.
* Downloads may end in another order than they began, so the picture in the cache
  may be that of the artwork before (`image.py:83`). It is kept under its own id,
  which is what `NeverAnother` needs, and fetched again.

* A cancellation that arrives between the end of a close task and the moment its
  waiter resumes is dropped (`frame_art.py:191`), although the tests say of one
  in that cleanup that it "wins" (`test_frame_art.py:1777`, `1807`, which cancel
  while the close is blocked). A cancelled pairing may then end as a connection
  failure; it never pairs and leaves nothing open, which `EndsClean` shows.

A failure that is reported after its transport was replaced carries no generation
either and closes the healthy transport (`art_session.py:184`). It is in the
model, and `Recovers` shows that the session gets over it.

## 5. What is proved

For every value of the constants that the assumptions allow (a set of
operations that does not contain the names of the tasks, positive delays, a
positive threshold; any set of polls).

* `ArtSessionProof`: `TypeCorrect`, `OneTransportHolds`, `FaultTakesTimeHolds`,
  `PacedProbesHolds`, `StateMatchesTaskHolds`, `ImplementsChannel`.
  `OneTransport` is not inductive: a handshake that goes on must be known to
  hold the lock, and a close that drains must be known to have dropped the
  socket, so the invariant says who may hold the lock in which phase.
  `PacedProbes` needs that a session in BACKOFF with an attempt behind it has
  its deadline in the future; `StateMatchesTask` that a cancelled task is one
  that has not finished. The refinement uses that a transport opened under a
  number carries the next one. `TypeCorrect` says that no number of failures reads
  past the end of its schedule, of whatever length. Beyond the safety properties
  above:
  - `GenerationsAreSpent` and `StoppedStaysDown`: once the channel is down under
    a number it is never up under that number again, and once it is down after a
    stop it is never up at all. They follow from the refinement, and are what a
    holder of a number relies on across its awaits.
  - `StoppedForGood` (`StopIsFinal`, which `session_safety` checks): after the
    stop the state says stopped. It needs that an attempt which survives the stop
    is a cancelled one (`StopInv`), or it could set the state once more.
  - `LockIsServed` and `NobodyJoinsInVain`: the safety half of the liveness that
    TLC checks. `_lifecycle_lock` is the queue of exactly the tasks that wait for
    it, each once (`LockInv`), its holder is at work, and whoever joined a connect
    attempt or a close waits for one that is there (`JoinInv`). So no wait is
    for a task that has ended, for any number of operations.
* `CoordinatorProof`: `TypeCorrect` (whatever readings meet, what is published is a
  mode), `OptionalOfOneGenerationHolds`,
  `PushesWinHolds`, `RepairMatchesDataHolds`. The invariants: what a poll
  carries was read over the generation it remembers or over none
  (`ReadingInv`), no reading is of a revision still to come (`InOrder`), and
  the two flags kept of the repair agree with each other and with the snapshot
  (`RepairInv`). `CoordinatorOverChannel`: the channel of the model is
  `ArtChannel`, the unload included (and `DialectsOverChannel` for `Dialects`).

* `IntegrationProof`, for any number of polls and operations:
  - `SystemRunsSession`: every step of the composition is one of the session's or
    leaves it alone, so what is proved of `ArtSession` holds in it.
  - `BothAgreeHolds`: the coordinator's miss count is zero exactly when the
    session last heard an answer, the entry is stopping exactly when the session
    is, and no poll is under way before the session is started. It uses
    `started => ~terminal` and that a complete stop is a terminal one.
  - `CoordinatorOverSession`: every step of the composition is a step of
    `Coordinator` or a stutter. What the session does alone keeps the channel or
    loses it, brings it up under the next number and clears the fault, or counts
    an answer without a host while the channel is down (`SessionCases`); an
    observation leaves the channel as it is and clears the fault exactly at a
    reachable edge, which needs `BothAgree`. It assumes `Epochs = Nat`, no bound
    on the generations.
  - `PushesWinOverSession`, `OptionalOverSession`, `RepairOverSession`: the
    theorems of `CoordinatorProof`, instantiated, hold over the real session.
    Coordinator's assumptions on its constants are hypotheses here (`Constants`).
  - `UnloadedIsDownHolds`: when the unload is over the session says stopped and
    no poll is under way.

* `RemoteControlProof`: `RemoteTypeCorrect`, `RemoteStoredBeforeSent`,
  `RemoteQuietWithoutCallbacks`, `RemoteOneSocket`, and `RemoteConfirmedIsOpen`
  (an operation that ends late does not confirm a channel that was quiesced).
  The invariant adds that
  only the head of the queue is in flight (`HeadInv`), that during the drain of
  an unload it is what the drain waits for (`DrainInv`), and that the admission
  is closed whenever the callbacks are gone (`AdmissionInv`): without the first
  two `QuietWithoutCallbacks` is not inductive, without the last an operation
  could send under a credential nobody was there to store.
  `RemoteLocksAreServed` and `RemoteOneRetry`: see below.

* `ArtRequestsProof`: `RequestsTypeCorrect`, `AnswersOwnHolds`,
  `RegisteredIsCurrentHolds`, `NobodyWaitsInVainHolds`,
  `TransfersOfOneConnectionHolds`. The invariant says that who asks holds the
  operation lock (`HolderInv`), that who still waits is registered and so can be
  failed (`OpenInv`), and that once the receiver is gone whoever was answered
  has resumed or was cancelled (`GoneInv`). Without the last an upload could
  register where nobody is left to fail it. `OpeningInv` says that a transfer
  that begins during a handshake has asked nothing yet.

* `DialectsProof`: `DialectsTypeCorrect`, `DialectsLearnedIsHeard`,
  `DialectsWriteIsProven`, `DialectsOnlySilenceRetires`, for any number of tasks
  and generations and any television. None is inductive: `TaskSound` says what
  the place of a task in its chain of probes tells about `liveness_proven` (an
  alive task at the second probe has a correlated refusal of the first behind
  it, if the generation is still the one it began with), and `DialectsSound`
  that a dialect in use has given a value at some time. That generations only
  grow makes both vacuous for what outlived its own.

* `PictureProof`: `PictureTypeCorrect`, `PictureMovesWithTheWall` (`_shown_id` is
  the last artwork published), `PictureNeverAnother` (the cache holds the picture
  of the id it is kept under, `CacheIsPair`).

* `PairingProof`: `PairingTypeCorrect`, `PairingEndsClean`, `PairingRepairKept`.
  `Owned` names for every open websocket who closes it at every moment: the
  `open()` under way until it has published it, then its client, then the
  cleanup task. `Sound` and `Concludes` carry the cancellation and the handshakes
  to the end of the call: a cancellation is the exception under way, or it was
  dropped behind a failure, and nothing is dropped before the cleanup.

The four models whose operations must end have the safety half of that proved
too, for any number of operations; no run checks these, they are the reasons for
`OperationsEnd`, `RequestsEnd`, `CallsEnd` and `CallEnds`:

* Nobody waits for a lock that nobody gives up: `RemoteLocksAreServed`,
  `RequestsLocksAreServed`, `DialectsOneRequest`, `PairingCleanupStarted`. The
  invariant (`WorkInv`) is that each asyncio lock is the queue of exactly those
  who wait for it or hold it, each once (`IsQueueOf`); a cancelled waiter, an
  operation whose turn comes with the stop, a timed-out write that closes the
  websocket with the lock in hand are the steps where a place could be left
  behind. The lemmas on appending to, leaving and removing from such a queue are
  `QueueAppend`, `QueueTail` and `QueueRemoved`.
* An operation has a bounded number of steps before it: `RemoteOneRetry`,
  `RequestsWorkIsBounded`, `DialectsCallsAreBounded`, `PairingWorkIsBounded`. A
  natural number (`Left`, `Work`) decreases with every step that touches an
  operation under way, other than its cancellation: six for a remote operation
  with its one retry, eight for a request, fourteen for the probes of a call. In
  `RemoteControl` a retry goes back to the opening phase, so the measure counts
  `attempt`, and needs that a waiting operation has made none (`Attempts`); in
  `Dialects` the length of the chain of reads depends on the first of them, so
  it needs which kind of call asks which (`Placed`).

What is missing between these and the liveness properties is that the step of
the holder is enabled and is taken: ENABLED and fairness, which TLC checks.

Only model-checked: the liveness properties (`StopEnds`, `Recovers`,
`BrokenChannelSurfaces`, `Settles`, `RequestsEnd`, `EntryConcludes`,
`OperationsEnd`, `CallsEnd`, `Learns`, `CatchesUp`, `CallEnds`), which are out of
the prover's reach. The dialects are checked and proved over `ArtChannel` only:
that the session implements it is proved apart. `Settles` and
`BrokenChannelSurfaces` are checked over `ArtChannel` as well.

## 6. What is not modelled, and what could come next

* Device facade (UPnP volume, REST calls, Wake-on-LAN): single calls of external
  services that keep no state between them and swallow their failures; the
  coordinator's model has their awaits.
* Entities and services other than the picture, device triggers, diagnostics:
  views of the snapshot and callers of operations that are modelled.
* The parsing and normalisation of settings, frames and images: functions of
  their input without a state, on strings and bytes.
* The options form and the titles of config entries.

A next step would be to state the part of `ArtSession` that `ArtRequests`
refines as a specification of its own, with the permanent stop as requests see
it, and to compose the wake probe with the turn-on command.
