# A verification project for LibreNMS

LibreNMS is a network monitor made of short-lived PHP and Python programs that
cron starts, a web interface with an API, and one MySQL database they all
share.  No program holds a transaction over more than one statement: what keeps
them apart is the time they start, a lock file, a memcached key or a MySQL lock.
The interesting questions are therefore about interleavings, stale reads,
crashes between two statements and work that must get done in the end.

This directory holds TLA+ models of the parts where these questions arise, the
TLC runs that check them, and proofs checked by TLAPS.

| Section | Modules | Runs (`*.cfg`) |
|---|---|---|
| 2 Alerting | `Alerts`, `AlertProtocol`, `MCAlerts`, `AlertsProofs`, `AlertsIsolatedProofs` | `AlertsIsolated`, `AlertsOverlap`, `AlertsUsers`, `AlertsDeleted`, `AlertsContacts`, `AlertsLostNotice` |
| 3 Poller service | `PollerService`, `MCPollerService`, `PollerServiceProofs` | `PollerServiceHosts`, `PollerServiceShared`, `PollerServiceOverlap` |
| 4 Lock files and schema update | `FileLock`, `SchemaUpdate`, `MCSchemaUpdate`, `FileLockProofs`, `SchemaUpdateProofs` | `SchemaUpdate` |
| 5 Poller wrapper | `PollerWrapper`, `MCPollerWrapper`, `PollerWrapperProofs` | `PollerWrapper` |
| 6 Billing | `Billing`, `MCBilling`, `SumLemmas`, `BillingProofs` | `Billing` |

## 1. Inventory

| Component | State | Operations | Interacts with | What is hard | What makes it correct |
|---|---|---|---|---|---|
| **Alerting**: `alerts.php`, `includes/alerts.inc.php`, ack forms, API | tables `alerts`, `alert_log`, `alert_rules` | `RunRules` after each poll; `RunFollowUp`, `RunAlerts`, `RunAcks`, `ClearStaleAlerts` each minute; acknowledge, unmute, edit rules | poller, web, API, `daily.php`, `delete_device` | no transaction relates the programs; details are read, changed and written whole | every event notified or acknowledged, no recovery without a fault, no more notices than the maximum |
| **Poller service**: `poller-service.py` | MySQL locks `queue.N`, `poll.N`, `discovery.N`; `devices.last_poll*`; shared connection | worker threads: pick a device, lock, sleep, lock, run, release | database, `poller.php`, `discovery.php`, other service hosts | check-then-lock, shared connection, lost connections | a device is polled by one worker at a time, and not again too soon |
| **Lock files**: `get_lock`, `set_lock`, `release_lock` in `includes/functions.php` | `.name.lock` holding a pid | set, release | `alerts.php`, `discovery.php`, schema update | check-then-write, pids reused, early returns that keep the lock | one holder at a time |
| **Poller wrapper**: `poller-wrapper.py` and its copies for discovery and services | memcached `poller.master`, `poller.nodes`, `poller.device.N` | register as master or node, claim devices, join, clear locks | memcached, `poller.php` | expiry of keys, lost memcached, master and nodes finishing in any order | a device is polled by one wrapper at a time, again and again; a round ends |
| **Schema update**: `includes/sql-schema/update.php` | `dbSchema.version`, the schema | apply the files above the version, in order | lock file `schema`, every program that includes it | crash between files, early return | versions only grow, no file is skipped |
| **Billing**: `poll-billing.php`, `billing-calculate.php`, `includes/billing.php` | `bill_data`, `bill_port_counters`, `bill_ports`, `bill_history` | collect counters, compute deltas, 95th percentile and totals | the devices' counters, the pages of a bill | counters that wrap or reset, first sample, collectors that overlap or die | no negative or double counted traffic, no traffic left out |
| **Device polling**: `poll_device`, `device_is_up`, `poller.php` | `devices` (status, uptime, last_polled), RRD files | ping, SNMP, modules, status change events | discovery, alerting | device lost in the middle | status follows the last check, one event per change |
| **Discovery**: `discovery.php`, `discover_device`, `addHost` | `devices`, `ports`, `sensors`... | discover modules, autodiscovery, adding hosts | lock file `new-discovery`, poller | rows added twice, stale rows deleted | no duplicates, rows of lost objects removed |
| **Services**: `services.inc.php`, `check-services.php` | `services` | run plugins, store the state, log changes | poller wrapper copy | | one event per change |
| **Ports**: `includes/polling/ports.inc.php` | `ports` counters | rates from counters | billing, RRD | wraps, resets | rates never negative |
| **Device groups**: `device-groups.inc.php` | `device_group_device` | recompute the groups of a device | alerting (`GetGroupsFromDevice`) | delete, then insert | membership is what the pattern says |
| **Database layer**: `dbFacile.php` | query cache | fetch, insert, update | everything | cache after a write | |
| **RRD**: `rrdtool.inc.php`, `LibreNMS/Proc.php` | a pipe to rrdtool | commands and answers | pollers | pipe buffers | |
| **IRC bot**: `LibreNMS/IRCBot.php` | sockets, buffers, authentication | parse, answer, relay alerts | alerting's fifo | reconnects | |
| **Syslog, SNMP traps** | `syslog` | filter, insert | devices | | |
| **Web interface, graphs, API reads, MIBs, OS definitions** | none of their own | rendering | | | |

The first six carry the concurrency of the program and are modelled; of the
others section 8 says why they are not.  The web pages, graphs, MIBs, vendored
libraries and per-OS definitions have no state whose order matters.

## 2. Alerting: `Alerts.tla`

### State and actions

`alerts` is the table of that name, one row per key `<<device, rule>>` (the
unique index of `sql-schema/097.sql`); `log` is `alert_log`, for each key the
sequence of its rows in id order, of which the first `purged` are deleted.

`RunRules` of `includes/alerts.inc.php` is the process `poller[d]`:
`CheckRule` (read the state, run the query, branch), then either
`RefreshRead`/`RefreshWrite` (the NOCHG branch) or `RuleLog`/`RuleSet` (the
insert into `alert_log` and the update of `alerts`).  `alerts.php` is the process
`cron`: `CronStart` (`ClearStaleAlerts`, first SELECT), `FollowUp*`, `Alert*`
and `Ack*`, with one action for each statement another program can see the
order of.  `RunAlerts` decides everything from what it reads in `AlertRead`; the
statements that follow (`AlertDetails`, `AlertIssue`, `AlertAlerted`,
`AlertClose`) only carry it out, which is where stale decisions bite.  What a form or the
API does is one action: `AckAlert` and the API's are one UPDATE; `UnackAlert` merges the
SELECT and the UPDATE of `ack-alert.inc.php:26-33`, and `DeleteDevice` the DELETEs that
`delete_device` runs table by table (`functions.php:360-364`), of which only those from
`alerts` and `alert_log` are in the model.

Data that is abstracted:

- The result of a rule's query is its number of rows, `fault`.  `RunFollowUp`
  compares numbers only.
- Time: of a log row the code only asks whether the delay since `time_logged` is
  over, and whether the interval since the last notice is.  These are the flags
  `early` and `cool`, which the action `Elapse` clears.
- A contact list is the version `people` it was computed from.
- `details.count` is counted up to the rule's maximum; beyond it the comparison
  can not change.
- Reads that belong together are merged: the SELECT at the head of a loop body,
  the read of `alerts.alerted` and the query of the rule are one action with the
  decision they feed.  The row written back keeps what was read.
- Rules apply to every device (no device groups), and a rule that is deleted is a
  rule that is disabled and not enabled again.
- Posting state 0 to `ack-alert` writes `open = NULL`, which the column refuses;
  it is left out.

`Ops` says which of the users' and the system's operations an instance has, and
`Overlap` whether programs run at once.  With `Overlap = FALSE` a program starts
only where no other is under way, which is what happens on a small installation
most minutes; with `TRUE` they
interleave freely, as cron really starts them (`librenms.nonroot.cron`: the poller every five minutes,
`alerts.php` every minute).  That `alerts.php` is a single process is an assumption of the
model: it takes the lock file 'alerts', which excludes a second one but for a race in
`set_lock` (section 4), and cron starts them a minute apart.

### Properties and what the runs show

`MCAlerts.tla` holds the rule configurations.  All instances have one device, and
one rule unless said otherwise: nothing but the cache of `IsRuleValid` and the
deletion of a device relates two keys.  `MaxFaults = 2` lets a fault get worse and better;
`MaxEvents` bounds the events of a behaviour (changes of fault, operations,
crashes), and 3 to 5 are enough for a fault, its recovery, an operation on each
and one more fault; `MaxIssues` is above every finite maximum used.

| Run | Instance | Shows |
|---|---|---|
| `alerts_isolated` | two notices with delay and interval; acknowledge, API acknowledge, maintenance; no overlap; fairness | an event that is closed was notified (`ClosedMeansNotified`), `MaxAlerts`, no recovery unless the contacts last heard of a fault (`NoSpuriousRecovery`, refinement of `AlertProtocol`), a lasting fault and a lasting recovery are announced |
| `alerts_overlap` | everything interleaves; acknowledge, unacknowledge, API, maintenance, ignore | a recovery that is sent is described; as long as the contacts believe in a fault, `alerted` remembers it |
| `alerts_users` | two rules, of which one is inverted; acknowledge, unacknowledge, API unmute, rules switched off and on, no overlap | maximum and order of notices survive them |
| `alerts_deleted` | deletion, purge, crashes, contacts; overlap; fairness | the row a poller re-inserts for a deleted device is removed |
| `alerts_contacts` (violated) | fixed contacts, delay | the contacts of an alert that waits for its delay are replaced by the next poll |
| `alerts_lost_notice` (violated) | overlap, a rule without delay, no operation of users; fairness | a fault that lasts and is never announced: `RunAlerts` has read a recovery, `RunRules` logs and opens the next fault, and `RunAlerts` closes the row unseen |

The muted rule in place of the inverted one (`AndMuted`) satisfies `alerts_users` too.

What does *not* hold, and is therefore asked only where it does, or not at all: with overlap a
notice more than the maximum is sent, when `RunRules` writes back the details it
read before `RunAlerts` counted; an acknowledgement that arrives between the SELECT of
`RunAlerts` (`alerts.php:231`) and its `open = 0` (`alerts.php:323`) is closed with the row, and
its own notice is never sent; a rule that is enabled while `RunAlerts` runs can be
taken for stale, since `IsRuleValid` caches what it read, and its alert is dropped;
unacknowledging an alert that was acknowledged before its first notice restores
state 0, so its recovery may never be announced; the API's unmute on a recovered row
makes `RunRules` believe in an alert without a log row; a device on `ignore` has
its rows closed unnotified; with a purge of `alert_log` a recovery can be swallowed by
`DescribeAlert`; a crash after a notice repeats it, or, where the state has gone
back meanwhile, keeps the next change from being announced.  The liveness properties are
asked without these operations, `MaxAlerts` without crashes.

### Fairness

`FairSpec` has strong fairness for each poller and for `alerts.php`: cron starts
both for ever, and without overlap a start waits for the other program to end, so
it is enabled again and again rather than continuously.  Weak fairness of `Elapse` is the passing
of time.  The environment has no fairness and a bounded budget, so faults
settle in the end, which is the premise `<>[]` of the liveness properties.

### Proofs: `AlertsProofs.tla`, `AlertsIsolatedProofs.tla`

`TypeCorrect` proves the type invariant for all constants.  It is inductive as it
stands; the parts that take work are the sequences of `alert_log`
(`AppendType`, `WriteType`, `TimeType`).

`RecoveryAlwaysDescribed` proves `RecoveryDescribed` for all constants where `Ops` has
neither "gone" nor "purge", under full overlap and with crashes.  The property speaks of
the moment of the notice; the invariant `RecoveryInv` says why it holds:
`alerted` is other than 0 only if a row of `alert_log` with a state other than 0
exists, and where `RunAlerts` decided to send a recovery such a row precedes the
one it read.  The first is kept because `alerted` is written only from a row
already logged (`FollowUpLog` before `FollowUpSet`, `AlertRead` before
`AlertAlerted`), and both because no step takes a row or its state away
(`LogKeeps`).  The assumption is needed: TLC finds the swallowed recovery as soon
as either operation is allowed.

`FaultsRemembered` proves `FaultRemembered`, with overlap and every other operation, where `Ops`
has none of "silent", "gone", "crash", "purge" and "rule" (`Undisturbed`).  Only the
statement after a notice writes a 0 into `alerted`, and only after a recovery was sent.
The invariant `FaultInv` says that, and that no row of `alerts` loses its event or its
enabled rule, since `ClearStaleAlerts` and `IsRuleValid` would otherwise delete a fault
that was announced.

`AlertsIsolatedProofs` is about programs that take turns (`~Overlap`), where the strong
properties hold.  All its theorems rest on one invariant, `Alone`: while `alerts.php`
works on a row nobody changes it (`TakeTurns`, `Selected`), and what a program has read
of `alert_log` is still the latest row (`PollerKnows`, `CronKnows`).  `RowChange` then
lists what can happen to a row in a step.  For any devices, rules, configuration and bounds:

| Theorem | Property | `Ops` without | Argument |
|---|---|---|---|
| `EveryClosedNotified` | `ClosedMeansNotified` | ignore, apiunmute, crash | `ClosedInv`: of a closed row that is not acknowledged, `alerted` is the state of the latest event, unless the program that logged one is about to open the row |
| `NoticesFollowProtocol` | `NoSpuriousRecovery` | silent, ignore, unack, apiunmute, crash | `SpokenInv`: where `alerted` is not 0, or a row is closed with a fault, the contacts last heard of a fault; `AlertIssue` maps to a step of `AlertProtocol`, every other step to a stutter |
| `NoticesLimited` | `MaxAlerts` | crash | `CountedInv`: the notices of an event are no more than the `count` in the latest row of `alert_log`, plus the one under way, which `RunAlerts` starts below the maximum only |

Nothing is restricted that the argument can do without.  An ignored device has rows closed
unnotified, the API's unmute opens a row with no event, and a crash between the notice and
`alerted` repeats the notice.  Unacknowledging matters only with a delay: TLC finds that an
event which is acknowledged before its delay is over, and then reopened, goes through
`RunFollowUp` and recovers although nobody heard of it.  Without delays, as in
`alerts_users`, the order of notices survives it, and a larger instance (7 events, 11.9
million states) agrees.  A maximum of 0 or below -1 means
one notice: `RunAlerts` sends it as `alerted` differs from the state, and the comparison with
the maximum (`alerts.php:288`) never asks for another.

Only model-checked: `FaultAnnounced`, `RecoveryAnnounced` and `DeletedDeviceCleared`,
which are liveness.


## 3. The poller service: `PollerService.tla`

### State and actions

`poll_worker` of `poller-service.py` is a loop of one thread; `worker[w].pc`
says where in it the thread is, and each value is followed by the action of the
code between two statements that other threads or hosts can see:

| Action | Code | Changes |
|---|---|---|
| `Connect` | 270-273 | `db` of the process, unless `single_connection`; the connection it replaces is closed and its locks are gone |
| `Query` | 276-286 | the worker's row (device, status, times until poll and discovery) |
| `LockQueue` | 288-290 | lock `queue.N`, or back to `Query` |
| `Wake` | 292-298 | after the sleep, poll or discovery |
| `Attempt` | 303 | `last_poll_attempted` |
| `LockAction` | 305 | lock `poll.N` or `discovery.N`, or on to `GiveUp` |
| `GiveUp`, `Refused` | 306-308, 289-290 | the locks that were refused or are no longer wanted are released, through whichever session is in `db` by then |
| `Begin` | 310-317 | `queue.N` released, the command reads the device |
| `Check` | `device_is_up` | `status`, if it differs from what was read |
| `Finish` | `poll_device` 362-373, `discover_device` 176 | `last_polled` or `last_discovered` of a device that is up |
| `Unlock` | 327-328 | `poll.N` or `discovery.N` released |
| `LoseConnection` | `DB.query` 91-93 | the connection of a process breaks, the locks of its session are gone |
| `Die` | `DB.query` 81-94 | the first query after that reconnects and is run, and the second release of the mutex `in_use` ends the thread |
| `Reconnect` | 78 | `ping(True)` has the client library connect again: the query succeeds, the locks of the old session are gone and no thread ends |
| `Restart` | 353-357 | the main thread is the first to query: it ends the process, which is started again |

`DB.query` gives up `in_use` before `connect()` and goes on without it, so the
release at its end raises in the thread that reconnected, or, if another thread
has taken the mutex meanwhile, in that one (`Spared`).  A thread that died is not
replaced.  The commands end with the service, as they do under systemd
(`scripts/librenms-poller-service.service`); under upstart or an init script they
may live on, which is not modelled.

A MySQL lock has a session and a count: within one session GET_LOCK is
re-entrant (MySQL 5.7.5, MariaDB 10.0.2 and later; the older servers, where a
second GET_LOCK drops the first lock, are not modelled), and `releaseLock` runs its
statement twice, so it takes two off.  `db[h]` is the connection all threads of
process `h` use: `global db` stands in a branch, but Python applies it to the
whole function, so the assignment in the other branch replaces the global.

Times are ages, counted up to the largest value anything is compared with, where
they join NULL; a row that was read holds the times left.  Fractions of a second
(`sleep_until` truncates) and `disabled` devices are left out.  `Prompt` chooses
between two worlds: with `FALSE` time may pass between any two statements, which
is right for safety; with `TRUE` only sleeping, idle and running workers see time
pass, which is the "if resources are sufficient" of the service's header and is
used where a property is about time.

### Properties and what the runs show

| Run | Instance | Shows |
|---|---|---|
| `poller_hosts` | two hosts, a worker each, three devices; two of them (`Flaky`) may be down, or have polls and discoveries that die; prompt; fair | `OneAtATime`, `OneInQueue`, `NoLockLeft`: the locks do their work although the row is stale; every device is tried again and again, and the one that is not flaky is polled again and again |
| `poller_shared` | two threads of one process, one device; lost connections, dying threads, restarts, down devices, failing commands; not prompt | no lock stays behind, although threads release locks that were taken through other sessions, but for the one a thread asked for in the query that ended it |
| `poller_overlap` (violated) | two threads of one process | both poll a device: the session is shared |

For the locks, frequencies of 2 (poll), 3 (discovery) and 1 (retry), and commands of up to
2 units, give every order of these times: polls shorter and longer than the retry and as long
as the frequency, discovery due before, with and after a poll.  For progress the devices
are more than the workers, and those that store nothing as many: they sort first in
`ORDER BY next_poll` and could keep both workers for ever, from which only
`last_poll_attempted` and the retry time (2 units, longer than an attempt) keep them.  For
locks one device is enough, as those of different devices have nothing in common.  Mutual exclusion
among workers that are not prompt is what the proof below adds.  Two workers are enough for two to meet; a third only
repeats what the second does.

The exception in `NoLockLeft` (`Abandoned`) is a real one: such a lock stays until the
session ends, and the device is not polled until then.  Runs of 1136626
(`poller_hosts`, three minutes) and 1629296 states (`poller_shared`, a minute).

What does not hold beyond the violated run: a row that was read before a long
sleep makes a worker poll a device that another has polled meanwhile, twice within
the frequency; a discovery that always dies stays due, takes the place of
the poll, and its device is never polled; with lost connections two workers
poll one device even on two hosts, since a lock ends with its session.  And
`PolledAgain` has limits, short of the "gracefully degrade" of the header
(`poller-service.py:6`): where the devices that store nothing are as many as the workers and
an attempt takes as long as the retry time (`DownRetry = 0` in `poller_hosts`), they stay first and
the others starve; and where a discovery is due nearly as often as a poll and both take
half of that time (`DiscFreq = 3`, `MaxRun = 2`), a healthy device can be discovered for ever
and not polled.

`FairSpec` has weak fairness for every worker (threads are scheduled, `subprocess`
calls end) and for the passing of time.

### Proofs: `PollerServiceProofs.tla`

`TypeCorrect` covers all instances, shared sessions and lost connections
included.  `MutualExclusion` proves `OneAtATime` and `QueueExclusion` proves `OneInQueue`,
for any number of workers, hosts and devices under `Private`: each process has one worker
and connections are not lost.  The two properties speak of pairs of workers;
the invariant `Exclusion` speaks of one worker and the locks: while
`Queueing` or `Acting` it holds the lock through the session it uses now
(`Holds`), which needs that a worker that starts drops no session in use
(`StartsFresh`) and that sessions differ (`OwnSession`).  A step of another worker
leaves a held lock alone (`OthersKeep`), since it takes only free locks and
releases only its own.  Both assumptions are needed, as `poller_overlap` and lost connections
show.

`NoLockIsLeft` proves `NoLockLeft` in every instance, with any number of threads to a
session, lost connections, dying threads and restarts.  That a lock has a worker that will
release it is not inductive: a session that holds it twice for two threads can
lose one of them.  The invariant is a balance (`Balanced`): a lock is held at most as often
as there are workers of its session that use it or died asking for it.  `Acquire` adds one
to both sides; a release ends one use and, since `releaseLock` runs its query twice, takes
two off or frees the lock.  A session that ends takes its locks along
(`WithoutBalanced`), and a worker that starts drops either the session of an earlier
worker, with its locks, or the module's, which nobody uses (`Connected`).  The
cardinalities are why `WorkerAssumption` asks for finitely many workers.

Only model-checked: `PolledAgain`.

## 4. Lock files and the schema update: `FileLock.tla`, `SchemaUpdate.tla`

### State and actions

`FileLock` is `get_lock`, `set_lock` and `release_lock` of `includes/functions.php`.
`lockfile` is the process id in `.name.lock`, `pid` the id of each program that
uses the lock, `others` those of other PHP programs (together what
`ps -e | grep php` lists), and `step` where a program is: about to `Peek` (only
`discovery.php`, which asks `get_lock('schema')` before it includes the update),
to `Look` and `Write` (the halves of `set_lock`), inside, or leaving.
`ReleaseLock` unlinks the file, `Keep` leaves without it, `Crash` dies anywhere.  A
program that starts gets any process id that is free, that in a forgotten lock file
included; `MaxReused` bounds how often, since ids go round and do not come back
to one number for ever.  Programs in `Lasting` are requests to a worker of the web
server, whose id outlives the request.

Nothing keeps two programs from being between `Look` and `Write` at once, and they do meet
there: many threads of `poller-service.py` and `discovery-wrapper.py` start `discovery.php`.
`raced` (history) is true from the moment two programs are, until the last of those inside
has left; what the race can do is over then, as whoever comes later finds the lock free or
held like anyone else.  A PHP worker whose process name lacks "php" would not be
listed by `ps` at all; `Lasting` programs are assumed to be listed.

`SchemaUpdate` extends it with `includes/sql-schema/update.php`: `Acquire` (line 27),
`Check` (already current: release and return), `ReadRev`, then for each file
`Apply` and `StoreVersion`, or `ReturnEarly` (the installer's request after 45
seconds, which keeps the lock), and `End`.  The statements of a file are one
step, of which only is kept that they ran (`ran`): the code counts errors and goes on.  A
death between two statements of a file is like one before `StoreVersion`: the file is run
again.  `StoreVersion` tells the insert of the first version, beside which a
higher row may exist, from the update of all.  `joined` (history) counts the programs that came in
beside another after a race, `overlapped` are those inside that were there with another.

### Properties and what the run shows

The run `schema` (396000 states, two and a half minutes) has `discovery.php` and an
installer's worker, three process ids (two for them and one for another program, or for a
reuse of the id of a dead one), three files, so that a program can do one, be overtaken and
have one left, one death and one race (`MaxJoined`).

| Property | Says |
|---|---|
| `OneHolder` | one program at a time is between `set_lock` and `release_lock`, whoever died and whichever id was used again, unless two raced in `set_lock` and not all inside since have left |
| `NoFileSkipped` | every file up to the stored version was run, races or not |
| `OncePerCrash` | a file is run once, and once more at most for each program that died and for each that came in beside another after a race |
| `VersionGrows` | only a program that was inside with another takes the version back, although each counts on from what it read |
| `SchemaUpdated` | in the end the schema is current, or `HeldByWorker`: the installer returned early and its worker, alive but no longer in the update, counts as the holder. The message at `update.php:51` tells the user to continue, which succeeds only in another worker once that one ended |

The exceptions for the race are real: without them TLC finds two holders, a file that is run twice
with no death, and a version that goes back.  That they are the only ones is
what the three properties say: a race costs no file more than one run for each program that came
in by it, however often the version goes back and forth, and when the last of them has
left the lock excludes again.

What does not hold: with `Unreadable` files the version passes a file that was not
run, and with statements that fail one that was run only in part; the code means
both to ("done (%d errors)").

Fairness (`FairSpec`): strong for every program, which cron or the user starts
again and again and which may find the lock held many times; strong for
the end of other programs, so that an id that happens to be in the lock file is not in use for
ever.

### Proofs: `FileLockProofs.tla`, `SchemaUpdateProofs.tla`

`OneHolderAlways` proves `OneHolder` for any number of programs and ids, deaths and races.
`OneHolder` alone says nothing of the file; the invariant adds
that ids are not shared (`OwnIds`), and, while nobody raced, that the holder's id is in the file and
that whoever has passed `Look` and not written is alone and nobody holds the lock.
`LockTypeCorrect` is the type invariant of the lock by itself.

`UsesLock` shows that every step of `SchemaUpdate` is a step of `FileLock` or leaves the
lock alone, so that `OneHolder` carries over.  On it rest `RunOncePerCrash` and `NeverBack`,
which assume nothing of the lock.  How often a file is run is a balance (`Bound`): with the
programs inside that have the file still ahead of them (`Due`, a finite set), the
runs are no more than one, the deaths and the joins, and one less where nobody is going to run a
file the version has not reached.  For `NeverBack` the invariant says that whoever was inside
alone since his `set_lock` knows the version at each line (`Knows`).
`NeverSkipped` needs only readable files: each program by itself runs what it
stores.  Only model-checked: `SchemaUpdated`.

## 5. The poller wrapper: `PollerWrapper.tla`

### State and actions

`poller-wrapper.py` with `distributed_poller` (and its copies
`discovery-wrapper.py` and `services-wrapper.py`, which differ in key names and the command).
`master`, `nodes` and `claimed` are the keys `poller.master`, `poller.nodes` and
`poller.device.N` of memcached; `reach[w]` says whether wrapper `w` reaches it.
`run[w]` is the wrapper: its line, its role, `distpoll`, its queue and device, and what
`memc_touch` has read.

| Action | Code | |
|---|---|---|
| `Start`, `Check`, `Register` | 144, 147, 148 | the get that looks for this host as master, `memc_alive`, the get that decides the role |
| `SetMaster`, `SetNodes`, `Join` | 150-161 | two sets, one incr |
| `Take`, `Add`, `Alive`, `Polled` | 281-307 | the claim with `add`, then `memc_alive` |
| `TouchGet`, `TouchSet`, `TakeOver` | 127-133, 238-250 | the renewals of `printworker` |
| `QueueDone`, `End`, `Wait`, `Clear`, `DeleteMaster`, `DeleteNodes`, `Exit` | 327-360 | the end of the round |
| `MasterExpires`, `NodesExpire` | | a key goes when nobody who reaches memcached renews it |
| `ClaimExpires` | 287 | a claim, of 300 seconds and never renewed, goes at any time, also under the poll it is for, which may be longer (lines 269-272, 380-388) |
| `Crash`, `Lose`, `Regain` | | a wrapper dies; a wrapper loses memcached for a while |

The threads of a wrapper take different devices from one queue, so one stands for all.
`Clear` deletes the claims in one step.  `memc_touch` of a missing key sets it to Python's
None (`Pickled`), which reads like a missing key, and on which `incr` and `decr` raise what
nobody catches: a wrapper that joins ends there, and one that signs off was at its end.  `Stale` names the roles
whose renewal writes back what it read, whatever others set meanwhile; a role that is not in
it renews its key by keeping it from expiring.  `lost` is history: the wrapper's claim went, by time or by
the master's clearing, before its poll was done.

### Properties and what the run shows

`OneAtATime`: no device is polled by two wrappers at once, unless one of them works
without memcached or its claim went before its poll was over.  All exceptions happen: a master that
loses memcached takes over all devices, a poll takes more than 300 seconds, and a master clears
the claims of a node it did not wait for, because it joined between its two sets (lines 150-151)
or its count was lost between the get and set of a renewal.

`MasterEnds`: the master does not wait for
ever, whoever died or signed off in vain, because `poller.nodes` expires when nobody
renews it, provided that again and again no node is at work.  The condition is
needed: cron starts wrappers every five minutes and a node may join while the master waits.
With three wrappers whose nodes overlap, each of them renews the count of those before
it, which need neither reach 0 nor expire, and the master waits for ever.

`PolledAgain`: every device is polled again and again, also while a master waits.  It is worth asking
since the message "Lost Memcached, Not polling Device %s as Node. Master will poll
it." (line 293) is not what happens: the claim that was just added stays, the
master finds the device claimed, and only a later round polls it.  A wrapper that worked
alone also counts itself off although it was never counted.

The run `wrapper` (178581 states, two and a half minutes) has two wrappers on two hosts, which
start whenever they are not running, one device, one fault, a death or a loss, and nodes that write back
what they read (`Stale`).  The proof of `OneAtATime` is for any `Stale`.  One device suffices as
claims of different ones have nothing in common; two wrappers make a master and a node, and
several rounds.

Fairness: strong for each wrapper, which cron starts again and again and whose
registration the other's may precede; weak for the printing thread; strong for the
expiry of keys.

### Proofs: `PollerWrapperProofs.tla`

`TypeCorrect` and `ClaimsExclude` (`OneAtATime`) hold for any wrappers, hosts, devices,
faults and `Stale`.  `OneAtATime` speaks of wrappers that
poll; the invariant says of each that is past its `add`, and whose claim did not go, that the claim exists
and that no other wrapper has the same (`Alone`).  It is kept since `add` succeeds only
where there is no key, and whatever takes a claim away marks those it takes it
from (`Without`).  Only model-checked: `MasterEnds`, `PolledAgain`.

## 6. Billing: `Billing.tla`

### State and actions

One bill, since no statement touches the rows of two.  `counter` is what the ports'
devices show, `carried` (history) the octets that passed while a port was on the bill,
`last` is `bill_port_counters`, `data` is `bill_data` by timestamp (the key refuses a
second row), `history` is `bill_history`.  A collector (`poll-billing.php`) is `job[c]`:
`Cron` starts it when the one before is done, `CronToo` while it is not, `Again` by
hand with a bill's number (line 135, where a bill is collected twice);
`getValue` or `getNoValue` reads a counter of a port, the inbound and then the outbound one,
`Compare` computes the
deltas, `Store` writes `bill_port_counters`, `Insert` writes `bill_data`, and `Crash`
ends it in between.  `billing-calculate.php` is `calc`, one period after the
other: `Check` reads the row of `bill_history` and whether the period has samples, `getRates` sums
them, `Write` stores the sum with the time of the writing, and `CrashCalc` ends it in between;
collectors insert samples between any two.  `Check` reads twice in one step, as nothing but
`Write` changes the row.  `AddPort`, `DeletePort` and `ResetBill` are the pages of a bill.  The statement of the
reset that names `bill_hist` fails, as there is no such table.  `ResetCounters`,
`Tick` and `SetBack` are the devices, time and a clock that is set back.

`Compare` subtracts two rates and compares with `ifSpeed` (`poll-billing.php:74`), and each is a float
rounded to two decimals (`delta_to_bits`).  Where a rate is within `Blur` octets of the speed the
comparison may go either way (`Open`), so that `Delta` is the set of its possible results;
where it is further off it is as exact (`TooFast`, `NotSlow`).  A comparison that was open is
recorded.  `Insert` has the branches for a sum below 0, which no state reaches, and for a period below
0, which stores nothing.

Of the column `updated` only is kept whether it is after the end of the period (`closed`), and of
a sample's `period` whether it is more than 0: nothing else is asked of them.  `getLastMeasurement`
and the insert are one step; what lies between them matters to overlapping collectors only.

Time is in half days, the even ticks being the second of midnight: what
the code asks of time is the order of samples, their distance, and on which side
of a period's ends they lie.  `spoilt` (history) records what has happened that upsets
the samples, for the premises of the properties.

### Properties and what the run shows

| Property | Says |
|---|---|
| `NeverOverbilled` | a bill never shows more than its ports carried, unless counters or the clock go back, answers fail, collectors overlap, ports come and go or a comparison was open: deaths and refused rows only lose octets |
| `NothingLeftOut` | undisturbed, the sum of the samples is what the counters gained since the first one |
| `LineRate` | whatever happens, a sample of a port of known speed is not above what the line can have carried and the margin of the rounding, but for a clock that goes back and for two samples in one second, whose rates cannot be compared |
| `HistoryCatchesUp` | in the end each period's row shows the sum of its samples, also of those stored while it was summed, unless a sample came after the row that closed the period, or between the sum that row was written from and the row, or the clock went back |

What does not hold: a sample stamped 00:00:00 of the billing day lies in no period
(`timestamp > datefrom and timestamp <= dateto`, with `dateto` a second before the
next `datefrom`), so the periods together miss it; collectors that overlap bill the
same octets twice; a port that is taken off a bill and put back bills what it
carried meanwhile; a line at full speed may have a sample replaced by the one before, if the
rounding decides so; and a sample that is inserted between the sum and the row that closes a
period is missing from it for ever.  Each exception of these properties is needed: without it TLC
finds a counterexample, in the run's instance or, for an open comparison and a clock that goes back in
`NeverOverbilled` and both exceptions of `LineRate`, in one with five octets or two events.

The run `billing` (1137201 states, three minutes) has one port, two collectors, one event of
any kind, at tick 4 (`When`), collectors that take up to a tick (`MaxRun`), a period of two days of which the end and the
next beginning are in reach (the second period begins at tick 6, the last), octets of
one a tick at a line speed and a margin of one (so that a line at full speed is open and a counter that
jumps is above both), and counters that start at 20 with a 32-bit counter that wraps at 16.  Tick 4 is
the end of the first period, where an event meets samples on both sides of it and the row
that closes the period.
It disables the deadlock check: time ends at `MaxTime`.  Two ports give the same
as one, since their rows are separate; two collectors are enough to overlap.

Fairness: weak for `Tick`; strong for the steps of `Calculate` on each period, which cron starts
every hour and which another period's turn interrupts.  Collectors
have none.

### Proofs: `BillingProofs.tla`

`NoImpossibleSample` proves `LineRate` for any ports, collectors, speeds, margins and events.
The property is about stored samples; the invariant `IInv` adds the shapes of samples and jobs, that, while the
clock did not go back, none lies in the future (`Timely`), and that the delta a collector carries from
`Compare` to `Store` has the same bound.  The bound of the delta that is put in place of an
impossible one comes from the sample before.

`TypeCorrect` needs the same invariant and that every sum of rows is a number.

`BilledWithinCarried` (`NeverOverbilled`) and `EveryOctetBilled` (`NothingLeftOut`) come
from `Totals`: while counters and the clock only grow, every answer comes, one collector works, the
ports stay the same and no comparison was open, a port's last counter lies between its first and what it shows, a
collector carries exactly what the ports gained since their last samples (`Exact`), and
the samples, with what is under way, are at most the gains, and exactly the gains if nothing
died and no row was refused.  A gain is at most what was carried (`GainedWithin`).  That
counters that grow are then never replaced uses that no line carries more than its
speed (`BillingAssumption`): a rate at most `Speed` that is not open is below it by more than
the margin, so that the comparison is sure to let it pass.

The sums are over sets of rows and ports, which the library defines by a fold.
`SumLemmas` proves what is needed of them: a sum is a number, a new element adds its
value, a sum changes with one value by as much, and sums compare where their values do.  The
induction theorems of the library take an operator as a parameter, which the provers cannot
instantiate; the lemmas go by a smallest counterexample instead, which exists because
strict inclusion of finite sets is well-founded.

`BillingAssumption` says that a bill has finitely many ports and that no record is `None`.
Only model-checked: `HistoryCatchesUp`.

## 7. What is proved and what is left

| Module | Theorems |
|---|---|
| `AlertsProofs` | `TypeCorrect`, `RecoveryAlwaysDescribed`, `FaultsRemembered` |
| `AlertsIsolatedProofs` | `EveryClosedNotified`, `NoticesFollowProtocol`, `NoticesLimited` |
| `PollerServiceProofs` | `TypeCorrect`, `MutualExclusion`, `QueueExclusion`, `NoLockIsLeft` |
| `FileLockProofs` | `LockTypeCorrect`, `OneHolderAlways` |
| `SchemaUpdateProofs` | `UsesLock`, `TypeCorrect`, `NeverSkipped`, `RunOncePerCrash`, `NeverBack` |
| `PollerWrapperProofs` | `TypeCorrect`, `ClaimsExclude` |
| `SumLemmas` | lemmas on sums over finite sets |
| `BillingProofs` | `NoImpossibleSample`, `TypeCorrect`, `BilledWithinCarried`, `EveryOctetBilled` |

Every invariant and action property of the passing runs, and the refinement, is stated by a
theorem.  What stays with TLC is liveness under fairness, which the prover cannot do:
`FaultAnnounced`, `RecoveryAnnounced`, `DeletedDeviceCleared` (Alerts), `PolledAgain` (poller
service and wrapper), `SchemaUpdated`, `MasterEnds` and `HistoryCatchesUp`.

Worth proving next, in this order:

1. What is left of `NoSpuriousRecovery` where alerts are unacknowledged: with no delay in any
   rule it holds on the instances checked, and the invariant would be that an acknowledged
   event without a notice is one whose delay has not passed.
2. What `MaxAlerts` becomes with overlap: at most one notice more for each `RefreshWrite` that
   overtakes a notice.
3. The safety half of `MasterEnds` of the wrapper: `poller.nodes` is at most the number of
   nodes that have not signed off.

## 8. Not modelled, and why

- Device polling, services and ports: each is one sequential pass of SNMP or a
  plugin into rows of its own; what they do to the columns other programs read is in
  `PollerService` (`Check`, `Finish`) and `Alerts` (`RunRules`).
- Discovery and adding hosts: the lock and the schema update are in `SchemaUpdate`.
  `createHost` looks for the host and inserts it with no key or lock that keeps two
  apart, so two autodiscoveries add a neighbour twice; a model would repeat that line.
  `renamehost` renames the directory and then the row, and a poll that read the old name
  makes the old directory again.
- Device groups: `UpdateGroupsForDevice` computes two sets and stores the difference; the
  pattern is SQL text.
- The database layer: it hands statements to MySQL.  Its query cache can serve rows
  that were updated meanwhile, but the programs modelled here do not switch it on.
- The statistics of the poller service and the wrappers (`devices_scanned += 1` by many
  threads loses counts), which nothing depends on.
- The 95th percentile, quotas and display of bills: arithmetic on what `Billing` stores.
- Transports, templates, RRD files, SNMP, graphs, web pages, MIBs and OS definitions: input,
  output and rendering.  `syslog.php` and the trap handler insert a row per line and
  keep nothing.  The IRC bot parses text from one socket and tails one file.  The
  translation of rules into SQL is a string function; its result enters `Alerts` as
  the number of rows found.
- The JavaScript in the repository is that of third-party libraries (moment, Leaflet, vis,
  jQuery and its plugins), but for `html/js/librenms.js`, 269 lines of event handlers that
  post a form and show the answer.  LibreNMS itself is PHP and Python, which is where the
  definitions are mapped to.
