# A formal model of EmbedIQ Cloud

TLA+ modules of the control plane in `src/app`: the registry, the device shadow, the publisher, the
MQTT bridge, the device check with its throttle, and the OTA proxy with its page, model-checked with
TLC on small instances and, for types and safety, proved with TLAPS for every instance. Line numbers
below are those of the source tree the project was written for.

## The system

EmbedIQ Cloud is one Python process (FastAPI) beside an MQTT broker (Mosquitto) and hawkBit.

| Part | State it keeps | Operations |
| --- | --- | --- |
| `db.py` | SQLite tables `devices`, `device_state`, `device_shadow`, `groups`, `cert_rotations` | schema and default group at start-up; a connection per request |
| `registry.py` | none of its own | POST, PATCH, DELETE, GET of devices; POST, DELETE, GET of groups; health, certificates |
| `shadow.py` | none of its own | PATCH of desired (check, load, merge, save, publish), GET with delta |
| `mqtt_pub.py` | one paho client: its queue and what is unacknowledged | `publish`, `publish_retained` at QoS 1 |
| `bridge.py` | one paho client and its thread | subscribe on connect; route status, reported, telemetry, logs |
| `hawkbit.py`, `ota.py` | none | proxy of firmware, deployment and status; relay of commands; feedback |
| `auth.py` | recent failures per source, in memory | login, token check, device check for the broker |
| `static/*.js` | page state, the token | fetch, render, edit, confirm, poll |
| broker, devices, hawkBit | retained messages; what a device applied; deployments | external |

How they meet:

* HTTP handlers are plain functions, so they run in a pool of threads and interleave at every
  statement. They share the database file, and the publisher.
* The bridge's thread writes the same tables. It shares nothing else with the handlers.
* What the handlers share in memory, they share without a lock: the publisher's `_client`, which
  the first of them to publish builds, and the throttle's lists of failures.
* SQLite serialises writers: from a connection's first write to its commit is one atomic step. A
  SELECT before it is not part of that step. A writer waits for the lock for five seconds and
  then fails.
* Cloud to device: `shadow.py` saves, then publishes `state/desired`, retained. Device to cloud:
  `state/reported` and `status`. By the topic contract (ARCHITECTURE.md:55, 64 and 76, README.md:109)
  a report is retained, and status, which is not, has a last will; the simulated device of the tests
  retains no report (`sim_device.py:122-123`, with the default of line 106) and sets no last will.
* A status with `ota_status` makes the bridge call hawkBit.

What is hard in it: check-then-act across statements in concurrent handlers; a commit followed by
a publish that can be lost, delayed or overtaken; QoS 1 resends; a bridge that misses what is said
while it is away; messages and rows of devices that are deleted and created anew; page scripts
that use state read before an `await`. `PROJECT.json` lists each hazard at its line.

What makes each part correct, in a sentence each:

* Registry: the tables fit together whatever overlaps, an id is won by one POST, no device is left
  in a group that is deleted, and none is shown half created.
* Shadow: a PATCH changes the keys it names and no others; a device that applies the delta ends
  where one that applies the whole desired object ends.
* Publisher: what the broker retains has been committed, and is what the database has once things
  are quiet; a command is run once, and however many clients the race for the first one has built,
  what they were given arrives.
* Throttle: nobody is shut out who has not failed so often, no failure is forgotten without a race,
  what counts stays within the limit, and whoever is shut out is let in again.
* Bridge: a column shows the last word of its device; hawkBit hears what the device said.
* OTA: a firmware answered 201 is whole; no call is made twice; an admin is signed out by the
  end of the token, by the button or by hawkBit's own 401; the page shows what it says it shows.
* Shadow, broker, device and bridge together: what is desired comes back as reported; what is shown
  as reported is what that device has reported, and never an older report after a newer one.

## The modules

| Module | Models | State | Actions |
| --- | --- | --- | --- |
| `Docs` | JSON objects, `dict.update`, `compute_delta` | - | - |
| `Store` | tables and transactions of `db.py`, `registry.py`, `shadow.py`, `bridge.py` | `devices`, `device_state`, `device_shadow` | one operator per transaction |
| `Registry` | `registry.py`: the writing handlers and `get_device` | `groups`, the request of each thread, its last answer | `Call`; the SELECTs `CheckDevice`, `CheckGroup`, `ReadState`, `ReadShadow`; one action per transaction; `DuplicateKey`, `Busy`; `Restart`; `OtherWriters` |
| `Desired` | `patch_desired`, `mqtt_pub.py`, what the broker retains | the PATCH of each admin, the publisher's queue `outq` with the mark `sent`, `retained` | `Check`, `Load`, `Save`, `SaveFails`, `Publish`; `Transmit`, `Puback`, `ConnectionLost`; `Register`, `Unregister`, `Report`, `Restart` |
| `Publisher` | `mqtt_pub.py` with the relays of `ota.py` and the publish of a PATCH | `_client`, a queue `outq` with its mark `sent` per client, the request of each thread | `DeviceCmd`, `HawkbitCallback`, `PatchDesired`; `Check`, `Test`, `Build`, `Get`, `Publish`; `Transmit`, `Puback`, `ConnectionLost`; `Link`, `Unlink`, `Unregister`, `Restart` |
| `Throttle` | `internal_auth` with `_is_throttled`, `_record_auth_failure` | the `lists` of one source as objects, `current`, the `age` of each failure, the request of each thread | `Arrive`, `Filter`, `Replace`, `Judge`, `Record`, `AppendFailure`; `Tick`, `Restart` |
| `Bridge` | `bridge.py` with `mark_finished`, `mark_failed` | `session`, `inbox`, the `call` the thread is in | what devices do; `Connect`, `Outage`, `Restart`; `HandleStatus`, `HandleReported`, `Feedback`; `HandleTelemetry`, `HandleLogs`, `Drop`, `Written` |
| `ShadowLoop` | `Desired` composed with devices and the bridge's half of the shadow | links, wires, what the broker retains of reports (`kept`), `session`, `inbox` | those of `Desired`, `Deliver`, `ProcessRestart`, `Link`, `Unlink`, `Apply`, `ReportState`, `Subscribe`, `Lose`, `HandleReported` |
| `ShadowContract` | the abstract shadow | `wanted`, `shown`, `coming` | `Patch`, `Say`, `Show`, `Miss`, `Delete` |
| `Ota` | `ota.py`, `hawkbit.py`, the token check, `static/ota.js`, `apiFetch`, `login.js`, and hawkBit | hawkBit's modules, deployments and progress; the request in each of the browser's connections; the page | what the admin does; `Accept`; one action per call to hawkBit; one per handler that goes on after its `await`; `Poll`, `Expire`, `Progress`, `Restart` |
| `*MC` | instances for TLC | | |
| `StoreProofs`, `RegistryProofs`, `DesiredProofs`, `ShadowLoopProofs`, `BridgeProofs`, `PublisherProofs`, `ThrottleProofs`, `OtaProofs` | theorems about the module each is named after | | |

The modules extend one another: `Docs` < `Store` < `Registry`, `Desired`, `Bridge`; `Desired` <
`ShadowLoop`, which instantiates `ShadowContract` under a refinement mapping. `Ota` stands by
itself: the proxy of hawkBit touches neither the database nor the publisher. So do `Throttle` and
`Publisher`, each about one piece of memory that threads share; `Desired` takes for granted the one
client that `Publisher` shows to be the end of the race, and not its beginning.

How state corresponds to the code:

* A table is a function from the ids it holds to rows; a row that is not there is an id outside
  the domain. Foreign key and primary key are guards of the transactions, the cascade is part of
  `DeleteDevice`. Timestamps are whether there is one; `ip_address` is written as
  `firmware_version` is and stands aside; `attributes`, `cert_cn` and `password_hash` are not told
  apart.
* A JSON object is a function on all keys, with `Absent` for a key that is not there, so that
  `null` and a missing key stay two things, as they are in `compute_delta`.
* A request is a record with the step it is at. Every SELECT is a step, and the writes up to the
  commit are one step. An answer is a code; the 500 of a constraint and the 500 of a lock not had
  in time are kept apart.
* The publisher's queue holds what is not acknowledged; the first `sent` messages have been
  delivered on this connection. A lost connection sets the mark back, a restart empties the queue.
* The bridge's queue is what the broker has sent or will send on this connection. A lost
  connection empties it (clean session); a connect fills it with what is retained, in any order.
* Devices may behave as the contract says or as the simulated one does. `Retains` is the set of
  those whose reports are retained; whether a last will comes is open (`Will`). In `Bridge` a device
  may report anything at any time. In `ShadowLoop` it applies each desired object it is given and
  reports it, in that order, and besides reports anything else of its own accord, as the tests'
  devices do. A status without the key `online` reads as one of an offline device
  (`bridge.py:127`), and is the same as a status that says so; the messages of the model say one or the other.
* `get_device` is the SELECTs it is made of. Its request remembers whether the second one had a row,
  for that is what the answer shows.
* In `Publisher` a client bears the name of the thread that built it, and a request its number. A
  command is run when it is sent to a device that is connected, a desired object is retained.
* In `Throttle` a list is an object that threads hold by reference, as in Python: an append goes to
  the list that was fetched, also if another is in its place by now. The code looks at the length of
  a list and at the times in it, never at their order, so a list is a set of failures, each with its
  age; a tick of the clock makes all of them older. A failure that no filter lets through any more
  leaves the model, and the next one takes its place (`FreshInNoList`, proved, says that no list
  holds it by then). One source is enough, as each has a list of its own.
* In `Ota` a request of the page is a record in a slot. A handler of the page is two actions, up to
  its `await` and from it on; the second reads the page as it is by then, as the code does. A call
  to hawkBit is answered, turned down with a code that the proxy passes on, or fails on the way
  there or back (502); on the way back it has had its effect. While `post_firmware` calls hawkBit,
  which it does on the event loop, nothing is taken or answered (`LoopFree`). Which target is
  selected in the dialog is left open. A page that is left forgets its requests, and the server
  serves them.

History variables (never read by a guard of the code's actions): `balance` counts answers;
`committed` collects the objects a desired column has held; `stale` has the devices whose publish
a restart dropped, or that were deleted with something published; `said`, `outcome` are the
devices' last words; `clicks`, `toasts`, `confirmed` count what the admin confirmed and was told;
`missed` and `lapsed` are what the bridge did not get or could not write; `own` has the devices whose
last report was of their own accord; `earlier`, `again` and `stray` follow reports on an update that
are sent again; `torn` has the readers whose device was
deleted under them; `alone` holds the failures that no check overlapped, while they are within the
window; `ran`, `resent`, `dropped` count what became of a command.
The model is honest about them: a property that excepts a stale or missed device says nothing of
it, because the code promises nothing of it.

Operators named `...Replacing`, `...Forgetful`, `...Silently` and so on, each under a comment
"Faulty variant", are not part of any specification. They are the bugs each property is tested
against: put in the place of the definition they vary, TLC finds the property violated.

## What is checked

| Run | Instance | Shows |
| --- | --- | --- |
| `registry` | 2 threads, 2 ids, 2 groups, 1 restart | `Integrity`, `AnswersBalance`, `ShownWhole`, `NoMemberLeftBehind` |
| `desired` | 1 device, 1 editor, 2 keys, one set to null, 1 lost connection, 1 restart | `BrokerAgrees`, `RetainedWasCommitted`, `DeltaStandsForDesired`, `KeyLevelOverwrite`, `DesiredReachesBroker` |
| `bridge` | 1 device, 2 versions, 2 reports not retained, 2 deployments, reports on updates sent again, 1 outage or restart, failing writes | `TablesShowLastWord`, `VerdictIsTheDevices` |
| `bridge_fair` | 1 device, 2 retained reports, telemetry, logs, dropped messages, 1 outage or restart, failing writes | `WillShownInTheEnd`, `ReportShownInTheEnd` |
| `shadow_loop` | 1 device whose reports are not retained, 1 editor, a report of the device's own accord, 1 lost connection of the publisher, 1 of device or bridge, 1 restart | `KeepsContract` (refinement), `DriftEnds` |
| `publisher` | 2 threads, 1 device, 3 requests, 1 lost connection or restart | `CommandsRunOnce`, `OneClientInTheEnd`, `CommandArrives` |
| `throttle` | 2 threads, 2 failures allowed within a `Window` of 1 (ages 0 and 1), 4 failures remembered, checks that take up to a tick | `NoFalseLockout`, `CountedUnlessOverlapped`, `RateLimited`, `LockoutEnds` |
| `ota` | 2 connections, 2 devices, 1 group, 1 module in stock, 2 sign-ins, 3 acts, 1 fault or restart | `UploadedIsWhole`, `DeploymentsAddUp`, `SettlesOnTracked`, `SignedOutForAReason` |
| `desired_lost_update` | 2 editors, 1 device | `KeyLevelOverwrite` violated |
| `desired_publish_order` | 2 editors, 1 device | `BrokerAgrees` violated |
| `publisher_two_clients` | 2 threads, 1 device, 3 requests | `NewestRetained` violated |
| `bridge_will` | an outage while the will is published | `WillMarksOffline` violated |

In words:

* `AnswersBalance`: for an id, the 201s of POST exceed the 200s of DELETE by one while it is
  registered and by none while it is not. Two overlapping POSTs never both win, two DELETEs never
  both remove.
* `NoMemberLeftBehind`: the step that drops a group leaves no device in it, also one that joined
  after the handler had looked; the default group is never dropped.
* `ShownWhole`: `get_device` shows a device without its state row only if the device was deleted
  while it was being read. A device that is just being created is shown whole or not at all.
* `KeyLevelOverwrite`: a save changes the keys of its delta in the object stored at that moment.
* `BrokerAgrees`: nobody between commit and publish, nothing queued: then the retained object is
  the desired column.
* `RetainedWasCommitted`: no failure makes the broker retain an object the database never held.
* `DeltaStandsForDesired`: a device that applies the delta ends where one that applies the whole
  desired object ends, but for exactly the keys desired as null that it has not reported (item 3
  below); and then nothing is left in the delta.
* `CommandsRunOnce`: a command is run once for each time it was asked for and once more for each
  resend; a device that comes back is not given it again, and two clients do not both send it.
* `OneClientInTheEnd`: after the race for the first client, the one that was assigned over is given
  nothing more, and the other stays.
* `CommandArrives`: what either of the clients was given reaches a device that stays connected,
  unless a restart takes it.
* `NoFalseLockout`: a 429 means that this process has answered as many 403s within the window.
* `CountedUnlessOverlapped`: a failure is forgotten only if a check ran beside its recording.
* `RateLimited`: the failures of a window that no check overlapped outgrow the limit by the threads
  that passed the check together, and no further; with one thread the limit is exact.
* `LockoutEnds`: what is turned down does not count, so a source that keeps trying is let in again.
* `TablesShowLastWord`: resends, wills, versions of updates, failed writes and outages
  notwithstanding, a column about which nothing waits and nothing got lost is the device's last
  word on it.
* `VerdictIsTheDevices`: hawkBit's `finished` and `error` are what the device said of that
  deployment, or else what it had said of an earlier one and sent again, which was still under way
  when this one began or was sent after that (`stray`): the feedback names no deployment. The
  bridge itself delays or doubles no report into another deployment.
* `KeepsContract`: the composed system implements `ShadowContract`: a PATCH overwrites its keys, what
  is shown is the device's own report, whole and in order, whatever it reports; a report may be lost.
* `UploadedIsWhole`: a module whose upload was answered 201 has its artifact, although it takes two
  calls, either may fail, and the module may be deleted in between.
* `DeploymentsAddUp`: announced <= made at hawkBit <= confirmed, for each firmware and target.
* `SettlesOnTracked`: polls of two devices overlap, and an answer is labelled with the device that
  is tracked when it comes; in the end the table has the tracked device with its own progress, and
  keeps it.
* `SignedOutForAReason`: a token that is good is cleared by the button only, or by a 401 that is
  hawkBit's own answer, passed through. Not by any other failure or a restart; and the 401 that a
  request of an earlier session is answered does not end the next session, for the page that asked
  is gone.
* `OtaTypeOK` also says that the upload button is disabled exactly while an upload is awaited, and
  that a signed-out browser has nothing left of the page.
* `DriftEnds`: what stays desired is reported in the end and stays so, over lost connections and
  restarts and whatever was lost before; unless a restart dropped the publish (`stale`), the device
  says something else of its own accord (`own`), or the last of its reports got lost (`lapsed`):
  made or waiting while the bridge was away, or dropped by it.
* `ReportShownInTheEnd`: a report is in the table in the end, unless a newer one comes, the device
  goes, or the report is `missed`: its write failed, or it was not retained and the bridge away.
* `DesiredReachesBroker`, `WillShownInTheEnd`: the same of a desired object and of a last will.
* `NewestRetained`, which does not hold: with one editor and one client the broker ends up with the
  last object committed.

**Bounds.** `MaxQueue`, `MaxInbox`, `MaxWire` bound queues that the code does not bound; the
action that would exceed one waits. Two messages are enough for one to overtake or undo another,
which is what resends can do. `shadow_loop` has one place in the publisher's queue (resends are the
run `desired`'s) and one on the wire, but two reports for the bridge, so that an older one could be
written last; its reports are not retained, which is the harder case for `DriftEnds`, and the proof
covers both. `MaxLosses`, `MaxOutages`, `MaxDrops`, `MaxRestarts`, `MaxDeploys`
bound how often something happens: a second lost connection meets the same queue states the first
one meets. Two threads or editors are the smallest crowd in which a check and an act of different
requests interleave; a third adds requests that see the effects of both, which the theorems
cover. Two keys tell an overwrite from a replacement, two values an older object from a newer one.
`MaxActs`, `MaxFaults`, `MaxSignIns`, `MaxPct` do the same in `Ota`: three acts are a deployment
confirmed twice, or a deployment and a device tracked beside it, or an upload and another act, and
two connections are enough for one answer to overtake another; two sign-ins let the answer to an
earlier session meet the next, and the last session does not expire. In `Publisher`, `MaxRequests` 3
is one that finds the client and two that race for it, `MaxFaults` 1 a lost connection or a restart.
In `Throttle`, `MaxFailures` 2 (for ten) and a `Window` of 1, so ages 0 and 1 (for sixty seconds),
are the smallest with failures of different ages in a list; a `Failure` of four lets two threads outgrow the
limit by one, and keeps a failure ready for each request under way; `MaxLate` 1 lets the clock move
while a check is under way. Deadlock is checked in every run but
those of `Ota`, where a page that is left alone with nothing tracked stops.

**Fairness.** `FairSpec` of `Desired`: a thread that serves a request runs on to the answer (the
pool runs threads, a busy database ends in an error), and paho's thread sends and reads. Nothing
makes an admin call, a connection break or the process restart. `FairSpec` of `Bridge`: paho
reconnects (`reconnect_delay_set`, `loop_start`) and its thread handles what is there; a call to
hawkBit ends by its timeout. `LoopFairSpec` adds that a device reconnects and applies what it is
given, which is the device's half of the topic contract. `FairSpec` of `Ota`: a request is served
(httpx gives up after ten seconds), the page's handlers go on and its timer fires; the admin need
not do anything, and hawkBit may fail. `FairSpec` of `Publisher` is that of `Desired` for each
thread and each client; that of `Throttle` adds that the clock goes on. All of it is weak fairness:
each of these steps stays possible until it is taken.

**What the code does not keep.** Each has a run that shows it (1, 2, 4 and 13) or is visible in
the model and named here:

1. Two PATCHes of different keys at the same time: one is lost (`shadow.py:63-71`).
2. Two PATCHes at the same time: the broker may retain the first for good (`shadow.py:71-76`).
3. A key desired as null and not reported is missing from the delta (`shadow.py:41`), where the
   docstring says that keys "absent in" reported are listed.
4. A last will published while the bridge is away leaves the device online (`bridge.py:198`).
5. A restart between commit and delivery leaves the broker without the configuration; nothing
   publishes it again (`stale` in `Desired`). README and ARCHITECTURE say that configuration
   survives offline gaps.
6. A deleted device leaves its retained configuration at the broker (`stale` in `Desired`).
7. Two overlapping POSTs of one id: the loser is answered 500, where the tests expect 409
   (`"500 constraint"` in `Registry`).
8. A device that is not registered is not created when it says it is online, although
   ARCHITECTURE.md:47 describes auto-registration; its messages are dropped (`HandleStatus`).
9. A repeated report on an update closes whatever deployment is running (`bridge.py:153-156`): the
   verdict on a deployment may be what the device said of an earlier one. `VerdictIsTheDevices` says
   when; without `stray`, the run `bridge` violates it.
10. A 401 of hawkBit, which means the process's credentials, is passed on and signs the admin out
    (`hawkbit.py:42`, `app.js:36`), though `hawkbit.py:20` names 502, 404 and 409 as the codes passed
    on (`Unauthorized` and `TurnedDown` in `Ota`; without its last disjunct, `SignedOutForAReason` is
    violated).
11. An upload whose second call fails leaves a module without an artifact in the list, where it
    can be deployed (`ota.py:71-72`).
12. An answer to a poll is shown under the name of the device tracked by then, until the next poll
    (`ota.js:222`).
13. Two threads that publish first at the same time build two clients, and an object in the queue of
    one may pass a newer one in that of the other (`mqtt_pub.py:24`).
14. A key `cmd` in the parameters of a command replaces the command that was validated
    (`ota.py:117`).
15. An id that makes no valid topic, one with a wildcard in it, is registered, PATCHed and commanded
    with success, and nothing is sent (`mqtt_pub.py:44`).
16. The throttle comes before the bridge's credential and goes by the address of the caller, which in
    production is the broker for all devices and the bridge (`auth.py:151`).
17. The device page saves the whole object it has loaded, so that keys another admin has changed
    meanwhile are set back (`device.js:148`).
18. With three threads the throttle's limit does not hold: a check may put an old list back in place
    of a longer one (`auth.py:37`), and requests that pass by the short list are recorded in the long
    one, as often as the two take turns.

19. What the simulated device does is not what ARCHITECTURE.md has devices do (reports retained, a
    last will): with it, a report made while the bridge is away is lost for good (`lapsed`), and drift
    is shown until the device reports again.

## What is proved

TLAPS proves, for every number of threads, ids, groups, editors, keys, values, connections and
messages and every bound:

| Module | Theorem | Property | Of whom |
| --- | --- | --- | --- |
| `RegistryProofs` | `TypeCorrect`, `TablesFitTogether`, `AnswersAddUp`, `MembersAreMoved`, `DevicesShownWhole` | `TypeOK`, `Integrity`, `AnswersBalance`, `NoMemberLeftBehind`, `ShownWhole` | every instance |
| `DesiredProofs` | `TypeCorrect`, `RetainedCommitted`, `DeltaAlwaysStandsForDesired` | `TypeOK`, `RetainedWasCommitted`, `DeltaStandsForDesired` | every instance |
| `DesiredProofs` | `BrokerAgreesWithDatabase`, `PatchOverwritesKeys` | `BrokerAgrees`, `KeyLevelOverwrite` | `SoleEditor` |
| `ShadowLoopProofs` | `LoopTypeCorrect` | `LoopTypeOK` | every instance |
| `ShadowLoopProofs` | `LoopKeepsContract` | `KeepsContract`, the refinement of `ShadowContract` | `SoleEditor` |
| `BridgeProofs` | `TypeCorrect`, `LastWordIsShown`, `VerdictIsDevices` | `TypeOK`, `TablesShowLastWord`, `VerdictIsTheDevices` | every instance |
| `PublisherProofs` | `TypeCorrect`, `EachCommandRunsOnce`, `RaceEnds` | `TypeOK`, `CommandsRunOnce`, `OneClientInTheEnd` | every instance |
| `PublisherProofs` | `NobodyBuildsTwice` | why a client may bear its thread's name | every instance |
| `ThrottleProofs` | `TypeCorrect`, `NobodyShutOutForNothing`, `FailuresCount`, `RateIsLimited` | `TypeOK`, `NoFalseLockout`, `CountedUnlessOverlapped`, `RateLimited` | every instance |
| `OtaProofs` | `TypeCorrect`, `ConfirmedUploadIsWhole`, `DeploymentsAreOnesConfirmed`, `NobodySignedOutForNothing` | `OtaTypeOK`, `UploadedIsWhole`, `DeploymentsAddUp`, `SignedOutForAReason` | every instance |

`SoleEditor`, that no device has two editors, is what the code does not see to;
`desired_lost_update` and `desired_publish_order` show what becomes of the properties without it.

**Assumptions** are those of the modules, and TLC evaluates them on every run: `Null` and `Absent`
are no values; the default group is a group; `NoJob` is no job and `NoClient` no thread; a wire
holds a message; devices, connections, threads and failures are finite sets, for what is counted;
hawkBit refuses with a code from 400 on, which is what `_request` (`hawkbit.py`) takes for a
refusal; bounds are natural numbers.

**Arguments.** `StoreProofs` has what the modules on the tables share: each transaction keeps the
types of the tables, and what it does to the object of each device.

*Registry.* The invariant is `TypeOK`, `Integrity`, `AnswersBalance` and two facts on the default
group: it is there, and no handler past its check is about to delete it, because `delete_group`
turns it down before it looks. Without the second the first is not inductive. `ShownWhole` is
inductive beside it: a SELECT on `device_state` that finds no row finds, by `Integrity`, no device
either, and the reader is `torn` from that step on.

*Desired.* `RetainedWasCommitted` needs that every object on its way has been committed: those in
the queue and those of handlers past the commit (`CommittedInv`). `BrokerAgrees` needs where an
object is on its path (`PathInv`). For each device, the desired column is what the last message for
it says, in the order handler past the commit, end of the queue, broker; so if there is no handler
and no message, the broker has it. A lost connection sets `sent` back but leaves the order alone:
what is sent again ends with the last message. A deletion resets the column, which is why a device
with something published becomes stale. One editor per device makes the handler's loaded object the
stored one until it saves, which is also what `KeyLevelOverwrite` needs.

*ShadowLoop.* Every step of the composed system is a step of `Desired`, leaves its variables alone,
or is the bridge's write of a report, which touches no desired column; so the invariants of
`DesiredProofs` hold in it. `KeptIsLast` says that what the broker retains of a device is its last
report, and that nothing waits without a session. So a subscription brings nothing that was not
still to be shown, and the end of a session loses the first reports and never the last retained one:
both are `Miss` or a stutter of the contract, and a report that is written is a `Show`. That a save is
a `Patch` of what is stored at that moment, and not of what was loaded, is `PathInv`; a deletion is a
`Delete`, and everything else maps to a stutter.

*Bridge.* `TablesShowLastWord` speaks of the moment when nothing waits. `WordInv` says what holds
before it: the last message in the queue about a column has the device's last word on it, and a
column that nothing in the queue is about has it already, unless it is `missed`. A status without a
version tells nothing of the version, which is what makes `COALESCE` right. For the verdict, whatever
is still to be heard of an update, in the queue or in the call to hawkBit, is what the device said of
the last deployment or a stray (`Heard`); and a device that has sent nothing again, of which nothing
older is under way then, is heard once, while the deployment it speaks of still runs (`NoStrays`,
`OneVerdict`). The two need each other: a new deployment begins with what is under way as its strays.

*Publisher.* A command that is not on its way in exactly one place could run twice: numbers are in
one request or one place of one queue (`NumbersOnce`), so what is after the mark of a queue has run
no more often than it was sent again (`RanAsSent`). Types alone are not inductive: that a thread
which returns the client finds one, and that a thread which is to build has built none, need each
other (`ClientsExist`). `OneClientInTheEnd` is an action property that follows from these.

*Throttle.* A list that has been filtered stays within the window of the check that filtered it, as
both age together, and what others append to it is new (`FilteredInv`); so a list that is too long
shows as many failures. What no check overlapped is in the list in place and in every list that a
check may yet put there (`CountedInv`). Once as many of these are there as the limit says, every
check finds too many, so the threads that may still record a failure only become fewer: the sum of
both is what `RateInv` bounds. `ReserveInv` and a pigeonhole argument say that the model never runs
out of failures and of references.

*Ota.* The counts become inductive with what is under way: a module that is yet to be created has
its id in reserve, a deployment confirmed and not yet made its click, one made and not yet announced
its deployment at hawkBit; the reserves are counted by the connections that hold them
(`IdsInReserve`, `DeploymentsInReserve`). `SignedOutForAReason` needs that the page waits for
nothing when nobody is signed in, and that a 401 it waits for comes from a token that has expired or
from hawkBit itself, and bears its name.

**What the proofs have found.** The proof of a bound on the length of the throttle's lists, checked
with two threads, failed for three: a thread may keep putting an old short list in place while
another puts the long one back, so a third passes the check each time and the long list grows
without bound. TLC shows it with three threads, a limit of one and six failures for the invariant
`\A r \in Live : Cardinality(Within(lists[r], Window)) <= MaxFailures - 1 + Cardinality(Worker)`. What is left of the limit is
`RateLimited`, for failures that no check overlaps; item 18 above is the rest. An earlier
`VerdictIsTheDevices`, without `stray`, was provable only where no report is repeated or a device has
one deployment, which QoS 1 does not grant.

`DesiredProofs` is about the one client of `Desired`. `publisher_two_clients` shows what becomes of
`BrokerAgrees` while two are at work, `OneClientInTheEnd` that this is so at the start only.

**Only model-checked:** the liveness properties (`DesiredReachesBroker`, `WillShownInTheEnd`,
`ReportShownInTheEnd`, `DriftEnds`, `CommandArrives`, `LockoutEnds`, `SettlesOnTracked`), which are
out of the prover's reach with fairness and ENABLED; and the counterexamples, which are runs. Every
invariant and every action property of a passing run is a theorem.

## What is not modelled

* GET handlers of one SELECT whose answer nothing else is compared with: `list_groups`, `get_shadow`
  beyond its delta.
* `login`, `internal_acl` and `require_internal_key`: a comparison each, without state.
* The device and overview pages. Their handlers use page state that they read before an `await`, and
  draw whichever answer comes last; nothing in them or in the documents promises more, so there is
  no property to check. `PROJECT.json` lists the hazards. The other pages render what a GET returned.
* What is in telemetry and logs: best effort to InfluxDB and Loki, no state here. In `Bridge` they take
  their place in the queue and the thread's time.
* Certificates, settings, envelope, templates, styles, compose files and scripts: files, constants
  and markup.
* Passwords, tokens and TLS: library calls.

## Plan

1. (done) `Docs`, `Store`, `Registry`, `Desired`, with their proofs; `Bridge`; `ShadowLoop` and
   `ShadowContract`; `Ota`.
2. (done) `Throttle` and `Publisher`: the two pieces of shared memory outside the database. Readers
   in `Registry`, with their proofs.
3. (done) Proofs of `ShadowLoop` with its refinement, `Bridge`, `Publisher`, `Throttle` and `Ota`.
4. Left: what the proofs rest on could be weakened where a hypothesis says more than it needs
   (`SoleEditor` only while both requests are under way), and `Desired` could be composed with
   `Publisher` to carry `BrokerAgrees` past the race for the client.
