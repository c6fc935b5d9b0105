# EllaFi: a TLA+ model of the coin-operated WiFi kiosk

EllaFi is the firmware of an ESP32 coin kiosk. A client on the kiosk's WiFi opens
the portal page, asks for the coin window, drops coins and gets minutes of access,
which an Omada controller grants. One node is the master; other nodes (slaves) only
have a coin acceptor and report coins to it over UDP. The client may pause and
resume its time; an operator has an admin page, vouchers and income reports.

This directory models the parts of the firmware where several tasks, the network,
the controller and restarts meet. Paths below are relative to the repository.

## 1. Inventory

Tasks (`src/main.cpp`, `setupTasks`). Core 1: CoinPulseTask, CoinSessionTask (master
only), UpdateClientTask, LedTask, `loop()`. Core 0: WebSocketTask and the HTTP
server, which is one thread. They talk through `COIN_PULSE_QUEUE` (32),
`COIN_SESSION_QUEUE` (16) and `WEBSOCKET_JOB_QUEUE` (8), all sent to without waiting
(what finds a queue full is lost), through atomics (`COIN_INSERT_ACTIVE`,
`COIN_COUNT`, `COIN_SESSION_SLOT`), one overwriting task notification (LedTask), the
session cache and the cached controller login.

| Component | State | Operations | Correct when | Module |
|---|---|---|---|---|
| Coin window (`coin.cpp`, WebSocket handlers of `web.cpp`) | claim flag, event queue, slot (client and socket), coin count | claim, judge pulse, post, count, time out, settle, deliver, re-bind | one client at a time, no coin charged to another client, every claim released, every coin accounted for | `CoinSession`, `CoinLedger`, abstract `CoinSlot` |
| Pulse filter (`coinPulseTask`) | rejected-pulse count, remembered pulse | judge | see the coin window | `PulseFilter` |
| Access time (`processPause`, `processResume`, `finalizeSession`, refresh) | end of session at the controller, cache entry, pause file, job queue | pause, resume, buy, refresh, seed, filesystem update, restart | paused time is lost only in the ways the code accepts | `AccessTime` |
| Session cache (`omada.h`) | entries by MAC, index IP to MAC | upsert, finds, unlocked write of `clientIp` | a lookup finds the device last seen at an address | `SessionCache` |
| Service health (`omada.cpp`, `loop()`) | cached login, site, controller status | poll, log in, drop login | the node gets back into service | `ServiceHealth` |
| Acceptor power and LED (`led.cpp`) | notification, LED state, power pin | end of `setup()`, notify, apply, boot test, program mode | the acceptor is powered exactly while somebody may insert coins, and the LED ends up showing whether there is service | `AcceptorPower` |
| Node link (`network.cpp`) | slaves' window flag, replay ring, datagrams | start, end, coin, receive | a coin counts once, and no coin is taken for another | `NodeLink` |
| Money record (`money_store.cpp`, logs of `files.cpp`, filesystem update of `web.cpp`) | record in RAM and NVS, sale log | rollup, import, migrate, save, purge, flash, restart | saved money does not shrink or count twice | `MoneyStore` |
| Firmware update (`network.cpp`, update handlers of `web.cpp`) | a node's running and spare image, its Update object, the slaves' update flag, the master's HTTP task and GitHub tasks, datagrams | heartbeat, offer, download, retry, upload, pull a release, restart | only complete images are booted, slaves follow the master and never go back | `FirmwareUpdate` |
| Configuration and WiFi recovery (`files.cpp`, `reprovision.cpp`, `setup()`, settings page and filesystem update of `web.cpp`) | `/config.json`, the copy a filesystem update makes, the mode the node is in | load, merge and save, provision, reset, flash, connect, recover | what was typed is what is stored, and a node gets back into service by itself | `NodeConfig` |
| Log ring, admin login, vouchers and reports, health ping, device protocol, pages, scripts | | | | not modelled (section 7) |

What is hard here: a claim, a settlement and pulses of three tasks interleave; the
controller's answers are late, lost or refused while money is held; UDP loses,
repeats and delays; a restart hits between two writes; the single notification of
LedTask is overwritten; a month's income is recomputed from a log that is being
purged; transfers of firmware overlap, stall and are cut off by restarts; a
configuration is saved while an older copy of it is about to be written back.
`PROJECT.json` lists these hazards one by one, each at its line, with the
property that would catch it or the reason why there is none.

## 2. Plan

1. The coin window: `PulseFilter`, `CoinSession`, its abstract specification
   `CoinSlot`, the books `CoinLedger`. Proofs of all safety properties. **Done.**
2. What surrounds it: `AccessTime`, `SessionCache` (with proofs), `ServiceHealth`,
   `AcceptorPower`, `NodeLink`, `MoneyStore`. **Done, with proofs of all their safety
   properties.**
3. How nodes are kept running: `FirmwareUpdate` (heartbeats, the slaves' update, upload
   and GitHub pull) and `NodeConfig` (configuration, provisioning, WiFi recovery,
   filesystem update). **Done, with proofs of all their safety properties.**
4. The books of `CoinLedger`, and the sums they and `MoneyStore` rest on (`Sums`).
   **Proved.**
5. Left: the log ring against an abstract bounded log; the seller journal in
   `MoneyStore`; a module that composes the sale of `AccessTime` with the window of
   `CoinSession`; with each, its proof.

## 3. Modules and how they correspond to the code

`PROJECT.json` maps every definition that models code to its lines.

**PulseFilter** has the cascade of early `continue`s of `coinPulseTask` as operators
of the facts the code compares. **CoinSession** extends it. One action is what a task
does between two points where another can overtake it: a queue operation, a change
of an atomic, or a log line (which may block on the log's mutex). So
`coinSessionTryClaim` is `ClaimCas` then `ClaimPost` or `ClaimRollback`; a round of
`coinPulseTask` is `PulseJudge` then `PulsePost`; a window is `OpenWindow`,
`WindowEvent`*, `WindowTimeout` (or an abort), `CloseWindow`, `Finalize`,
`ControllerAnswers`, `DeliverResult`, `ClearSlot`. Sockets are descriptors that are
reused after a close. `holder`, and the `client` of coin and abort events, are
history: who held the window when an event was posted. **CoinSlot** is the promise
without tasks, queues and sockets, and `ImplementsCoinSlot` the refinement.
**CoinLedger** adds books to `CoinSession`: where each accepted coin ended, and what
the sale and refund logs say. `appendSaleLog` does not look at whether its line was
written, so any of a window's lines may be missing: their coins are in `unlogged`.

**AccessTime** follows one client. Each controller call is what the controller does
and then what the node does with the answer. The handlers ask only that the client is
known, so nothing is assumed of the page: several pages, or one with an old status, may
ask for a pause, a resume or a window at any time, a paused client included.
`savePausedSessionFile` does not look at how much it wrote, so the pause file may be
short; a filesystem update (`FsFlash`) keeps no pause files; the node may restart between
any two steps. The controller replaces a session's end on authentication and adds to it on
extension, as the mock in `test/mock_omada.py` does. `parked` is history: the time that
pauses took from the controller and no resume has given back. A purchase the node had not
heard of when the pause began is not part of it. `cause` is history, too: which event, if
any, may have separated that time from the flash.

**SessionCache** keeps of an entry only `clientIp`, which decides which index entry
`upsert` drops. The HTTP task writes it through a reference after the mutex was
released; `WsFind` and `WsWrite` are therefore two steps.

**ServiceHealth** represents a login by the controller run that issued it, 0 for none.
`loop()` and WebSocketTask each run a poll as separate steps (copy the login, ask,
write the answer) over the shared login.

**AcceptorPower** has LedTask's one pending notification, which any later one
overwrites, and the other writers of the power pin. It begins in `setup()`, with the web
server started: a client may claim before `setupTasks` creates CoinSessionTask, and open a
window before `ledReady` ends `setup()` (`LedReady`). That READY switches the acceptor off;
`early` marks such a window.

**NodeLink** keeps every datagram ever sent; any of them may arrive at any time, any
number of times, or never. Packet authentication is left out. A slave's coins are at
least `Gap` apart, which stands for `coinPulseTask`'s least interval between pulses, or for
the pace of people.

**MoneyStore** has the record in RAM and in NVS, the controller's voucher groups, the sale
log per day, and `moneyNightlyRollup` cut at its controller call. That call fails (`FetchFailed`),
answers with some of the groups (`Fetch`), or with a body cut off inside a group's entry
(`FetchCut`): `getVoucherGroupsJson` keeps what was parsed, so the count may be missing or
cut short and the creation time or price be gone, in which case the entry belongs to no
month (`NoMonth`). An import (`MoneyImport`) merges groups and replaces income, either side
of any month. What a backup says is an input: of a group nothing or an earlier state of it, of a
month an earlier total. The migration is `MigrateStart`, `MigrateMonth`*, `MigrateMark`,
with a save each. Saving may fail, a sale's line may not be written, and a restart may hit between
any two steps. `rolled`, `leftOut`, `cutOff` and `lowered` are history: what rollups saved,
which groups an answer left out or was cut off in, which months an import lowered.

**FirmwareUpdate** has for every node the build it runs, the other partition (which
build, how many blocks), whether the boot loader will start that one, and who holds the
Update object. A slave's download is `RecvOta`, `FetchStarts`, `FetchBlock`*,
`FetchCompletes` or `FetchFails`, then `SlaveBoots`; the master is changed by
`UploadStarts`, `UploadBlock`*, `UploadCompletes`, or by `GithubStarts`,
`GithubDownloads`, `GithubBlock`*, `GithubCompletes`, in any overlap, and restarts by
`MasterGoesDown` and `MasterIsUp`. The single HTTP thread is `httpd`: it sends one
image, or receives one, at a time. Datagrams are lost, late and repeated. Time enters once: a boot takes at least the 6 s that
`setup()` sleeps. A datagram is fresh for 5 s (with clocks set by NTP), a connection is tried
and a transfer may stall for 5 s, and a slave with a new image waits 0.5 s to restart. So a
heartbeat does not outlive its sender's boot, and when the master is back, slaves have given
up every transfer and every attempt to connect that began before it went down. An attempt
that began while it was down is another matter: 5 s of freshness and 5 s of connecting are
more than 6 s, so a slave told just before the master went down may reach the master that has booted.
`late` marks these slaves.

**NodeConfig** keeps of a configuration one text (the required strings are treated
alike) and `network_key`, both with their JSON type, and `active_env` with an environment that
overrides the text. `Merged` and `Valid` are `mergeAndSaveConfig`; a form leaves a field
out, sends the mask back, leaves it blank, or has it typed, and a request to the settings page may
have a number or an object for a text. Digits typed over a number stay a number, also where
a text should be. `Wanted` is what the form asks for; a blank text is to survive, as the
comment at `files.cpp:194` says. The modes follow `setup()`: `SetupConfig` and
`SetupWifi`, with `Provision` at the serial port, `RecoveryConnects`, `HoldButton` and
`SoftApCloses` in recovery. `FsUpload` copies the file and schedules `FsFlash`. The array of
copies has room for `Slots` files and there are `Others` + 1: when all exist the last copy is
written past its end, after which the flash restores the configuration or loses it. `entered` and `cause` are history: what the
operator typed, and which event, if any, made the file differ from it.

`MC*` modules hold instances for TLC: pulses, symmetry sets, constant functions. `*Proofs`
hold the theorems; `CacheAndPowerProofs` those of two small modules. `Sums` has the lemmas
about sums.
Definitions marked `Fault:` are small faults of the code, used only to check that each
property can fail.

## 4. Runs

Passing runs (states are distinct states):

| Run | Shows | Bounds, and why they are enough |
|---|---|---|
| `CoinLedger` | `ClaimExclusive`, `ChargedToHolder`, `SlotOwned`, `BootTestExclusive`, `RebindOwn`; every accepted coin is in one place (`CoinsConserved`); the sale log, with the lines the flash did not take, agrees with the settlements, and nothing is sold and refunded (`LogsMatchSettlements`) | Two clients, two sockets, both queues short (2 and 1) so that they are full and overflow, two coins in flight and two accepted, the abort at one rejected pulse. Pulses come in bursts at the master's slot, which the filter accepts and rejects in turn. 1.7 million states. The proofs cover all sizes. |
| `CoinSessionLive` | the refinement of `CoinSlot`; a claimed window is released (`WindowReleased`), a queued claim is served (`ClaimServed`) | Two clients on one socket, event queue of 1, so that the rollback happens. 253 thousand states. |
| `AccessTime` | `NeverNowhere` | Two purchases, one restart or filesystem update, a job queue of 2, three clock values, so that a session of two ends or is paused with one left. 4.7 million states. The proof covers all bounds. |
| `SessionCache` | `LastSeenFound` | Two devices, three addresses; proved for all. |
| `ServiceHealth` | `Recovers` | Two restarts of the controller and one sale. 174 thousand states. |
| `AcceptorPower` | `OffWhenIdle`, `OnInWindow`, `OffAfterOutage`, `LedFollows` | Two outages, of which a service missing at the end of `setup()` is one; claims and windows from the start of the web server on; boot tests and program mode at will. 5 thousand states. |
| `NodeLink` | `CountedOnce`, `FirstArrivalCounts` | Two slaves that can send in the same instant, four instants, a freshness of one: the ring (6) wraps while old datagrams arrive. With a ring of 5 `CountedOnce` fails, so 6 is exactly what this rate and freshness need. What a ring must hold in general is `RingSuffices`, under which `CountedOnce` is proved (section 6). The run may stop: the clock is bounded and nobody has to send. 494 thousand states. |
| `MoneyStore` | `RolledUpKept`, `FrozenWhenAbsent`, `VoucherBacked`, `VendoKept` | One group, two days of one month, purge after a day, one sale a day and one voucher, three rollups, imports and migrations in all, so that a rollup is saved, another cut off and an import comes in between; restarts at will: the month is complete, partly purged and gone. A backup has income of at most one and no entry without a month (`LostMonths`). 1.2 million states. The proofs cover all bounds. |
| `FirmwareUpdate` | `CommittedWhole`, `SessionReleased`, `NeverDowngraded`, `SlavesFollow` | One slave, two GitHub tasks and uploads, three builds so that the master goes forward, back, and stays behind a slave, images of two blocks, two updates, two faults (a broken transfer, a power cut, an image that cannot be read). 542 thousand states. The proofs cover any number of slaves and tasks. |
| `NodeConfig` | `SettingsKept`, `StaysProvisioned`, `ComesBack` | Two texts, one of them of digits, and texts that are none, keys 0 to 2, an environment that exists and one that does not, all five preserved files, five events of operators, power and WiFi. A node at the serial port may wait for ever, so the run may stop. 401 thousand states. |

Runs that find a disagreement between the code and what the repository says of it:

| Run | Shows |
|---|---|
| `PausedTimeLost` | A lost answer alone takes paused time off the flash (`PausedOnFlash`): the controller ends the session, the answer times out, and `processPause` deletes the pause file (`web.cpp:2108`). The README promises that "remaining time is saved to flash". |
| `OutageNoticed` | A controller that goes down for good is not noticed: `loop()` polls only while the node is already out of service (`main.cpp:530`). `memory/test_plan.md:25` expects the banner within a minute. What bounds the outage is the nightly restart (`main.cpp:464-467`), after which `setup()` polls. |

Seen in TLC and not kept as runs, because no line of the repository claims otherwise:
a result sent to a reused descriptor; a pulse judged in one window and posted in the
next; a late UDP coin counted in the next window; a slave left accepting coins after a
lost END; a refresh that overwrites a newer end of a session; a purchase that
authenticates on top of running time because no refresh followed the one before. They
are hazards in `PROJECT.json`, or follow from one.

Others are exceptions that a passing property names. The property says that there is no
other way:

- Paused time can be lost by a second pause on top of it (`processPause` does not ask
  whether one is in force), by a pause file that is written short (`files.cpp:242-251`), by
  a filesystem update, whose list of preserved files (`web.cpp:662`) has no pause files, and
  by a lost answer (`NeverNowhere`).
- A sale is missing from the sale log when its line could not be written
  (`files.cpp:391-396`, `LogsMatchSettlements`).
- The acceptor can be off in a window that was opened before `setup()` ended, because of the
  READY at its end (`main.cpp:308`), and in one that overlaps an outage (`OnInWindow`).
- The LED can stay red in service, or not be red in an outage, when a START or a STOP of a
  window overwrites the notification, or a START follows it. `LedFollows` says that it ends
  up right, over any number of outages, if windows keep clear of the changes.
- What a rollup saved of a group is lowered when an answer is cut off inside the group's
  entry (`omada.cpp:797`), until a rollup has made it good (`RolledUpKept`).
- The saved coin income of a month falls when only part of the month is left in the sale
  log, because it is recomputed from that part (`money_store.cpp:215`), and when an import
  or the migration writes a lower total (`money_store.cpp:109-117`) (`VendoKept`).
- A slave can go back to an older build if its attempt to connect began while the master was
  down (`network.cpp:216-219`, `NeverDowngraded`).
- `mergeAndSaveConfig` says that "omitted/blank fields (e.g. unchanged passwords) survive"
  (`files.cpp:194`). A blank text is refused by the check of required fields; with an active
  environment that has the field it passes and the base text is lost (`SettingsKept`,
  `cause = "blank"`). The node goes on with the environment's (`StaysProvisioned`).
- It also says "Refuse to write a config that would brick the device" (`files.cpp:212`), and
  accepts a `network_key` that is 0 or no number, and a required text that is a number, a
  boolean or an object (`files.cpp:221-223`), with which `loadConfig` fails at the next boot.
  `StaysProvisioned` says that no other form gets a node there (`cause = "key"` or `"type"`).
  The other causes are a factory reset, a full filesystem and a filesystem update that fails,
  overlaps with a change, or has five files for an array of four.

## 5. Fairness

`CoinSession`: weak fairness of the session task, of `coinPulseTask` and of a claim
the HTTP task has begun. They are FreeRTOS tasks in endless loops that block only on
their own queues, a timed receive, or calls with timeouts. A window must also end while
coins keep coming: `WindowTimeout` needs an empty queue, and no fairness is assumed of
coins stopping; the bound on coins in flight and in one window stands for the fact that
coins are finite. Clients, pulses, the acceptor and the operator need not do anything.

`ServiceHealth`: weak fairness of each step of `loop()` and of a poll WebSocketTask has
begun, and of the expiry of a login (`CONTROLLER_SESSION_MAX_AGE_MILLIS`, checked on
every use). The last one is needed: when the controller rejects a login with an error
code inside a 200, `loadOmadaSites` keeps it. Nothing is assumed of the controller, the
clock or clients; `Recovers` has the controller staying up as its premise.

`AcceptorPower`: weak fairness of LedTask, of `setup()`'s end, of `loop()`, of the window (which
`CoinSessionLive` shows to end) and of the boot test's steps; strong fairness of its
last step, because a test can be restarted in between but ends after a fixed number of
cycles.

`FirmwareUpdate`: weak fairness of a slave's heartbeat, of its download task (which has a
stall limit), of an upload that goes on and of the master's boot. Strong fairness where the
code relies on repetition: a heartbeat is sent every 15 s and one of them is received, so
is one of the offers, and of the downloads tried again and again one is served. Nothing is
assumed of operators, GitHub or faults, whose number is bounded. The premise of
`SlavesFollow` is that the master can read its own image: with size 0 it answers 404, which
a slave takes for success (`network.cpp:220`), and the slave restarts again and again.

`NodeConfig`: weak fairness of every step the node takes alone (restart, loading, the WiFi
attempt, the recovery loop, the timeout of the access point, the scheduled flash). Strong
fairness of a successful connection, because an attempt has 2.5 s and may miss a network
that is there. Nothing is assumed of operators, the power or the WiFi.

## 6. What is proved

`CoinSessionProofs` proves, for every set of clients, sockets and nodes, every
set of pulses and every queue length, from `ConstantsAssumption` alone:

- `TypeCorrect`: types, and the bounds of both queues.
- `ClaimIsExclusive`, `EventsChargedToHolder`, `SlotIsOwned`. None of them is inductive
  alone. The invariant is `IInv`, their conjunction with `TypeOK` and `HolderKnown`.
  `ChargedToHolder` needs `ClaimExclusive`: when a window closes, its left-overs are in
  front of any START, because a START cannot be queued while the window is claimed; so
  whatever comes behind a START was posted under its claim. `ClaimExclusive` needs
  the uniqueness of the START in the queue, since receiving it must leave none. `SlotOwned`
  needs `HolderKnown`, since a START names the client that claimed.
  Each task has a lemma (`ClaimHttp`, `ClaimPulseSide`, `ClaimTask`); steps that leave the
  claim's state alone share `ClaimKept`, and posts and receives share `ClaimPulse` and
  `ClaimTake`.
- `BootTestIsExclusive`, inductive together with `TypeOK`.
- `SocketRebindsOwnClient`, an action property, from `SlotOwned`.
- `WindowImplementsCoinSlot`: the initial state maps to an initial state of `CoinSlot`,
  and under `IInv` every step to a step or a stutter. `IInv` is needed where the window
  closes (the client that is settled is the one that held the window).

It also proves the books of `CoinLedger`, from `ConstantsAssumption` and `LedgerAssumption`
(there are finitely many nodes): `EveryCoinAccounted` and `LogsAddUp`. A step of
`LedgerNext` is a step of `Next`, so the types come from the window. `LedgerInv` adds what
the totals need: every coin on its way names a node (`CoinNodes`); `COIN_COUNT` is zero
outside a window, and a result without a controller call has no coins (`Settled`); the
coins of a window per node add up to its coins (`NodesAddUp`), since the sale log gets a
line per node and the settlement one total; and the sale log with the lines that were not written is ahead of the settlements by
the sale that is being reported (`SoldOrReporting`), which is why the property speaks of
`pc = "idle"`. TLC checked `LedgerInv` on the instance of the run before it was proved.

`Sums` has the facts about sums: they are numbers, grow with their summands, and change by
one summand's difference. The sums of the community modules are a `CHOOSE` of a recursive
function, so the lemmas first show that there is one, for any finite set, by an induction
over a set of subsets (the library's induction theorems take an operator, which the provers
cannot instantiate).

`CacheAndPowerProofs` proves, for `SessionCache`, `CacheTypeOK` and `LookupFindsLastSeen` for
all devices and addresses. The late write of `clientIp` can only point `upsert` at an index
entry that is not the device's own, and the ownership test there keeps it from being
dropped. For `AcceptorPower` it proves `AcceptorOffWhenIdle` and `AcceptorOnInWindow`, from
power-up on. The invariant says why an overwritten notification does no harm until the first
outage: once `setup()` has ended `loop()` has nothing to report, so only the window overwrites
what LedTask has not seen yet, and of a START and a STOP the later one is right
(`NothingLost`); the READY that ends `setup()` is harmless unless a window is open, which
`early` marks; a boot test, which drives the pin itself, excludes a window (`TestOrWindow`).

`AccessTimeProofs` proves `AccessTimeTypeOK` and `PausedTimeKept`, for any clock, prices, queue
length and bounds. `NeverNowhere` is not inductive: that the time stays `Held` while no cause
is noted needs that a pause is of a client the cache knows (`PauseKnown`), that it has written
its whole time to flash, with nothing else parked, before it disconnects (`PauseOnFlash`),
and that a step which deletes the file is reached only with nothing parked
(`UnlinkHarmless`). Restarts are harmless because they leave the file and forget the jobs.
Nothing is assumed of pages or answers; the four exceptions are in the property.

`NodeLinkProofs` proves `NoCoinMistaken` for any slaves, clocks and ring, and `NoCoinTwice`
for every ring that has room for two freshness windows of coins. `Inv(D)` says that the ring
is in the order of arrival, that what it holds was sent, that coins of one slave are `Gap`
apart, and that a coin that was passed on is in the ring or stale. The step that matters
overwrites the oldest entry: if that coin were still fresh, all entries and the new coin
would lie within `Fresh + D` of it, and cut into spans of `Gap` that time has room for no
more than one coin of each slave in a span, which is no more than the ring has (a pigeonhole
argument). `D` is how far slaves' clocks are ahead of the master's; where that is not known,
`Fresh` does. The hypothesis `RingSuffices(D)` is what `network.cpp:120-124` asks for ("must
outlast the freshness window at the real coin rate"): `64 >= n * (10000 ms / Gap + 1)` for
`n` slaves in step with the master, `n * (20000 ms / Gap + 1)` for unknown clocks. One slave
may report a coin every 0.16 s (0.32 s for unknown clocks), four every 0.63 s (1.26 s), ten
every 1.67 s (3.34 s). The filter's own least interval of 100 ms would not do: the code
relies on people being slower than its filter, as its comment says ("human-paced inserts"),
and on the acceptor giving one pulse for a coin, which is its default.

`MoneyStoreProofs` proves `RollupsAreKept`, `FreezesOnlyAbsent`, `IncomeIsBacked` and
`CoinIncomeIsKept` for all groups, calendars and bounds. `RolledUpKept` alone is not
inductive: a later save copies RAM to NVS, RAM takes counts from an import or from the answer
of the controller, and that answer may be hours older than the state it is applied to. The
invariant `Inv` therefore bounds every copy of a group's count (`EntryOK`, `AnswerOK`): RAM,
NVS and the answer under way are at most what the controller has, and at least what was rolled
up unless an answer was cut off inside that group. The answer is no older than the last rollup that was
saved, because only the rollup that fetched it can save one. The same invariant carries
the reason why a group is frozen. `IncomeIsBacked` needs that every copy of a month's
voucher income is at most what was redeemed of its groups, which only grows (`VoucherInv`,
`SpentGrows`): an entry that lost its month adds to none, and an import replaces a total by an
earlier one. `CoinIncomeIsKept` needs that the log, its copy and a migration under way hold
no sale that was not made, and that RAM falls behind NVS only in a month that is partly
purged or that an import lowered (`VendoInv`). TLC checked the invariants on the instance of the run before they were proved.

`FirmwareUpdateProofs` proves `UpdateTypeOK`, `OnlyWholeImagesBoot`, `SessionsAreReleased`
and `SlavesNeverGoBack` for all slaves, builds, tasks, image sizes and bounds, from
`UpdateAssumption`. The invariant `IInv` adds `Busy` and `Current`. `Busy` says that whoever
holds an Update object is the one at work on it, that a partition being written is not
committed, and that nobody works while the master is down; without it a second transfer
could write into a committed image. `Current` follows a build number from the heartbeat to
the slave's restart: a heartbeat in flight names the sender's build, a slave that was
offered an update or is at it is not ahead of the master unless its attempt began while the
master was down (`late`), and what it downloads is what the master runs. It is preserved by the master's boot only through the timing stated in the module. There is one lemma per action; `Kept`
carries the action property.

`NodeConfigProofs` proves `ConfigTypeOK`, `SettingsAreKept` and `NodesStayProvisioned` for
all values, keys and bounds, from `ConfigAssumption`. `SettingsKept` needs that a scheduled
update has a copy of what was typed unless it is marked, that what was typed can be loaded,
and that a file with a blank in it can be loaded, too, and is about to be (`Intact`). The heart
are two lemmas about a form that passes the check, with a usable key and a text that is one:
`MergeLoads`, its merge with a configuration that can be loaded can be loaded; and
`MergeCorrect`, without a blank text it has exactly the fields typed and the rest as it was
(the reference definition `Wanted`).

Only model-checked, because it is out of the prover's reach: liveness under fairness
(`WindowReleased`, `ClaimServed`, `Recovers`, `OffAfterOutage`, `LedFollows`,
`SlavesFollow`, `ComesBack`). Every invariant and action property of the passing runs is
proved.

## 7. Not modelled

- Edge timing in the interrupt handlers, pulse widths as numbers; a pulse is one step.
- The table of known nodes and forwarded log lines, which only pages and reports read.
  The bytes of a firmware image: an image is a build number and a count of blocks.
- Torn reads of `MONEY` and of cache entries: the steps of the models are whole functions.
- Five preserved files in an array of four (`web.cpp:651`, `web.cpp:662`): undefined. In
  `NodeConfig` the configuration survives or is lost; what else the write destroys is not
  modelled.
- Optional settings. One that is a boolean in the file becomes a text when it is saved from
  the setup access point's form (only numbers keep their type), and reads as false afterwards.
- The seller journal, payouts, vouchers, reports: reads and formatting. Where the journal
  is appended before the record is saved, a restart in between repeats its lines; only the
  report's Leader column, which the code calls cosmetic, is computed from them.
- Admin login, the log ring, the clock comparison of the daily schedule. The device
  protocol and its cryptography: byte formats. The TLS client library under `lib/` is
  third-party.
- Pages, scripts (what `voucher_backup.py` posts is an input of an import), hardware files.
