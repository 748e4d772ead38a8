# Verification of CYBERCavalry

CYBERCavalry is a Django application that keeps threat lists (IP addresses, file hashes,
URLs) fed by reporters through a REST API, scored by AbuseIPDB and VirusTotal, edited by
operators, aged by a scheduler and polled by firewalls. This directory holds TLA+ models
of it, the TLC configurations that check them and TLAPS proofs about them. Paths below
are relative to the repository's `src/`.

## 1. The system

One gunicorn worker with eight threads serves every request, and an APScheduler thread
pool in the same process runs the jobs. `ATOMIC_REQUESTS` is off and no view opens a
transaction, so **every ORM statement is a transaction of its own**: two statements of
one request can have anything of other requests between them, and an HTTP query to
AbuseIPDB or VirusTotal (up to 30 s) sits in the middle of many. A restart ends all
threads at once. The database survives it, and with it the cache, which is a table of
the database: counters, locks and cached settings too.

| Component | State | Operations | Interacts with |
|---|---|---|---|
| IP blacklist (`apps/blacklist`, `apps/api/views.py`) | rows (cidr, group, active, pinned, score, expires, recent hits) | report, operators' pages, bulk import, rescoring, refresh, expiry, purge, feed | whitelist, AbuseIPDB, settings, scheduler |
| Whitelist (`apps/whitelist`) | entries (cidr, active) | create, edit, (de)activate, delete, import; each but edit is followed by a sweep over the blacklist | IP blacklist |
| Hash and URL lists (`apps/hashlist`, `apps/urllist`) | rows (value, list, active, pinned, verdict, vt_unavailable) | report, pages, rescoring, threshold re-evaluation, purge, feed | VirusTotal, settings, scheduler |
| Key rotation (`abuseipdb_service.py`, `virustotal_service.py`, `quota_monitor.py`) | keys marked exhausted or resting, until when; in memory | choose a key, mark, forget, refresh, probe, check | every score query |
| API access (`apps/api/auth.py`) | tokens; request counters in the cache | authenticate, count, refuse, log | every API request |
| Sign-in and accounts (`apps/accounts`) | user and profile rows; failure counters and locks in the cache | sign in (local, directory), lock, edit, activate, delete, issue and revoke tokens | API access |
| Settings (`settings_app/models.py`, `cache.py`, `views.py`) | settings rows, cached values | get, save key by key, drop from the cache; a save reschedules jobs and re-evaluates the lists | everything |
| Scheduler (`blacklist/scheduler.py`) | jobs and their triggers, one lock | start, reschedule, fire | settings, lists, alerts, backup |
| Alerts and monitors (`settings_app/*_monitor.py`, `alert_service.py`) | stamps of the last mails | sample, mail, stamp | settings, API log, providers, mail |
| Syslog forwarding (`settings_app/syslog_service.py`) | one shared connection, one lock, a failure throttle | forward, reconnect, invalidate, test | whatever logs |
| Backup (`settings_app/backup_service.py`) | files of a directory | copy, prune by age and by number | scheduler, settings page, command line |
| Dashboard, reports, helpers, deployment | – | read, render, configure | – |

What is hard here: copies loaded before a slow query and saved after it; lists of rows
loaded once and worked through for minutes; check and act in different statements; a
batch read, logged and then written by id; sweeps that a restart interrupts;
get-then-set counters; a cache filled by readers slower than the writer that empties it;
a lock held over a call that may come back for it; files named by the second, pruned by
whoever sees them. `PROJECT.json` lists each hazard at its line with the properties that
would catch it.

What makes each part correct: a **blacklist row** is not published for ever, never loses
what an operator or another report did to it because a late score is applied, is retired
once it expires, and is not served when whitelisted; a **verdict list** never lets a
late verdict override an operator, and a row hidden for want of a verdict comes back; a
**key** is retired only when its provider said so and comes back after the reset, and no
query gives up early; the **limiter** refuses nobody below the limit and lets nobody
past it, except by a race or a loss one can name; an **account** stays as it was last
decided; a **saved setting** reaches the scheduler; an **alert** is mailed once per
cooldown and never only noted as mailed; a **log record** goes to the collector it was
meant for and a broken collector does not stop the request; a **backup** leaves its own
complete copy behind.

## 2. Modules

| Part | Model | Requirements | Instances | Proofs |
|---|---|---|---|---|
| IP blacklist, whitelist | `BlacklistRules` (pure rules), `IpBlacklist` | `IpBlacklistProps` | `MCIpBlacklist`, `MCRetiring` | `IpBlacklistProofs` |
| Hash and URL lists | `VerdictList` | `VerdictListProps` | `MCVerdictList`, `MCRetiring` | `VerdictListProofs` |
| Key rotation and quota | `KeyRotation` | `KeyRotationProps` | `MCKeyRotation` | `KeyRotationProofs` |
| Settings, cache, scheduler | `ScheduleRules` (pure rules), `Schedule` (abstract), `Jobs` | `JobsProps` | `MCJobs` | `JobsProofs` |
| API traffic and limiter | `Traffic` | in `AccessProps` | in `MCAccess` | in `AccessProofs` |
| Accounts, sign-in, API access | `Accounts`, `Access` | `AccessProps` | `MCAccess` | `AccessProofs` |
| Alerts | `Alerts` | `AlertsProps` | `MCAlerts` | `AlertsProofs` |
| Syslog forwarding | `Syslog` | `SyslogProps` | `MCSyslog` | `SyslogProofs` |
| Backup | `Backup` | `BackupProps` | `MCBackup` | `BackupProofs` |

How they compose:

* `Traffic` is a component without a specification of its own. `Accounts` extends it and
  `Access` extends `Accounts`: calls, pages and sign-ins share the workers, and a call
  reads the account the pages write. `Alerts` extends it too: the rate and silence
  checks read the log the calls fill.
* `Jobs` implements `Schedule`: `Promise == INSTANCE Schedule WITH job <- JobShown, due
  <- Due`. The abstract scheduler touches a job only while a change of its service is
  due, when it may make any other of it, or none, and it settles a change with the job
  as stored or counts it as missed; the detailed one reads a cache, holds a lock,
  removes and adds. `due` is derived (who is saving, what the start has left), and
  `JobShown` is the job that counts between the removal and the addition.
* `MCRetiring` puts the IP blacklist and the verdict lists side by side for the liveness
  properties of both. They share no state in the code (separate tables, separate jobs),
  so a behaviour moves one of them only.
* The lists take the answers of their query services as given, and `KeyRotation` is what
  stands behind the answers: a query that gives up is the lists' `Null` score.

### IP blacklist and whitelist (`IpBlacklist`)

`rows` is the `BlacklistEntry` table, `wl` the `WhitelistEntry` table, `settings` the
thresholds and the promotion rule. The other variables are threads' local state, one
record per task: `report` (a `report_ip` request), `scan` (a loop over loaded rows:
`bulk_refresh`, a manual rescore, `reapply_thresholds`), `sweep` (a whitelist change and
its sweep), `edit` (an operator's page), `feed` (a `get_blacklist` response), `expired`
(the ids the cleanup job has read). `steady` is a history variable: the whitelist
entries active ever since a feed request read the rows.

A report goes `idle → querying → scored → found | absent → [created] → stored → idle`;
the step names are `ReportReceived`, `ReportScored`, `ReportFound`, `ReportAbsent`,
`ReportRefreshed`, `ReportCreated`, `ReportCompleted`, `ReportApplied`. Its in-memory
`copy` is what matters: `save()` writes every column of the copy back
(`ReportRefreshed`, `ReportCompleted`, `SaveWhole`), a `save(update_fields=...)` only
some (`Merge`). A save that violates `unique_together` or updates a deleted row raises
and ends the request or, in a scan, the whole loop.

Abstractions, and why they are safe:

* Timestamps have a resolution of microseconds, so two expiries computed at different
  moments differ: `ExpiryField` leaves the column out only when it stays NULL.
* `added_at` is not kept. "The newest row" of an address is any of its rows, and a row
  may be purged at any age: both admit more behaviours than the code has.
* A lookup with the overlap check that follows it, a duplicate check with its save, the
  deletes of stale duplicates with the save after them, and `blacklist_create` as a
  whole are single steps.
* `hit_count`, reasons, countries and logs are left out; no rule reads them.
* An id is not reused while a task holds it (SQLite AUTOINCREMENT never reuses one).
* Scores are arbitrary, or none. Settings are read fresh; how stale a cached value may
  be is the subject of `Jobs`.

### Verdict lists (`VerdictList`)

`rows` holds the `HashEntry` and `URLEntry` tables; a row's list is that of its value
(`Hashes`, `Urls`). `threshold` is `virustotal_detection_threshold` after
`_get_threshold`'s clamp. `report` is a `report_hash` or `report_url` request, `edit` an
operator's page, `scan` a loop over rows loaded once, named by its job: `score`
(`bulk_refresh`, a manual rescore), `adding` and `added` (the add and import pages and
the check of what they added), `threshold`, `hashes`, `urls` (the settings request
before, in and after the first of its two re-evaluations).

The two lists run the same code, line for line, with two differences the model keeps: a
404 is a score of 0/0 for a hash and the state `vt_not_found` for a URL (`RowNotFound`),
but `report_url` takes it for 0/0 too (`ReportAnswered`). `Scored`, `MarkedNotFound` and
`Reapplied` return the copy in memory and the fields the code saves; `Merge` applies
them to the table. In the check of added rows an exception costs one row
(`_auto_vt_check` swallows it), in the other jobs all that are left.

Abstractions: a verdict is the pair (malicious, total), enrichment columns are left out;
`vt_checked_at` is whether it is set; `added_at` is not kept, so rows are purged at any
age; a look-up with its one-column update (`EntrySwitched`, `EntryPinned`) and an
existence check with its insert (`EntryAdded`) are single steps, so an insert that loses
such a race (an error page) is not shown.

### Key rotation (`KeyRotation`)

The three services keep their registers in memory: `abuseipdb_service.py` one of
exhausted keys, each `virustotal_service.py` one of exhausted and one of resting keys,
and the two VirusTotal ones know nothing of each other (`Registers`). The quota monitor
and the "check keys" page write the register of the hash list. A `task` is a lookup
(`fetch_*`), a refresh that remembers which keys failed from row to row, a probe of the
monitor or a check of all keys. `Replies` are what a provider can answer, told apart as
the code does: by status, `Retry-After` and what is left. An expired marker is found and
removed in two steps (`dropping`), because another thread may set it anew between them.
`refused` records what the providers really said.

A lookup or refresh draws up its list as the code does, in passes over the stored keys
that look at each key's markers anew (`KeyLooked`, `PassEnded`): AbuseIPDB's fresh keys,
then its exhausted ones; VirusTotal's fresh, throttled and exhausted ones, and once more
over the result for those that rest no longer (`again`). Other threads mark, clear and
tick between any two looks, so a key can be in no tier or in two. `rested` and `awake`
are history: the keys that some look found resting, or not, as long as they are not on
the list. Abstractions: the looks at both markers of a VirusTotal key are one step, and
a probe chooses its key at one instant.

### Settings, cache and scheduler (`Jobs`)

A service has a switch and a plan, whatever number of keys they are in the code. A save
writes a key, then drops it from the cache, key by key (`saving → written`), then
reschedules: waits for the lock, reads through the cache (a miss is read from the
database and put back later, by then perhaps outdated), removes the job and adds it
again. The three `kind`s of service differ as the six `reschedule_*` functions do: when
they read the plan, whether at all, and what they do with one that does not parse. The
cache can lose an entry at any time (expiry) and any access to it or to the database may
fail. `missed` and `suspect` are history: what a failure or a late reader may have left
behind. They are set where that happens, so the properties can say that nothing *else*
leaves a job or an entry out of step.

### API traffic, accounts and sign-in (`Traffic`, `Accounts`, `Access`)

A call reads its counter, judges it and writes it back in separate steps
(`check_rate_limit`), passes, and leaves a row in the log. `raced` is set when a worker
writes a counter another has read. The cache may drop a counter at any time
(`EntryExpired`), also inside its window: the timeout is cut to whole seconds
(api/auth.py:153), Django's database cache cuts it again and culls entries when it is
full. `lost` counts these losses, and `begun` keeps when windows began, so that a window
is judged by the calls in it and not by what the counter says. A page of the
administrators loads the user and the profile, decides and saves a whole row or single
columns later; a sign-in through the directory creates or updates both; saving a whole
row that is gone inserts it again. `decided` is what was last decided about each field,
`suspect` where an older copy may have come after it. A failed sign-in is counted by
`cache.add` and then `cache.incr`, which on the database cache is a read and a write;
the lock is an entry of its own. All callers share one address here. Searching the
directory, importing users and the list of allowed addresses are left out.

### Alerts (`Alerts`)

Each check samples, reads its stamps, mails subject by subject and writes all its stamps
back: four steps between which the clock moves and the process may die. The quota check
asks all keys of AbuseIPDB but one of VirusTotal and takes its answer for all; the
others count the log. `mailed` and `unstamped` are history: the decision whose mail
arrived last, and the subjects whose mail left no stamp.

### Syslog forwarding (`Syslog`)

A record is forwarded under the lock of the handler it came through; `emit` then takes
`_state_lock`, matches the shared connection with the settings, opens one if need be,
sends, and on failure drops it. A thread may also test a connection, or save settings,
which invalidates the shared one. The failure of a send is itself logged
(`Warned`), which is a record of its own, forwarded by the same thread while it holds
the lock. Collectors go down, losing their connections, and come up. Only failures the
code notices are failures here: a datagram that nobody receives, or the first segment
sent on a connection the collector has closed, is lost without an error.

### Backup (`Backup`)

`run_backup` statement by statement over the directory: name the file after the second,
open, copy, close, list the directory and delete file by file what was too old when the
list was made, list it again by time of modification, and delete by name what is too
many. Between any two deletions another call may write, list or delete. The three
callers are not kept apart, except that the scheduler never overlaps itself. A copy may
fail or be killed; a killed one leaves a partial file, and so does a failed one whose
removal is refused in turn (`CopyStayed`: the error is swallowed, and on Windows the
connection opened at backup_service.py:151 is still open, so that it is the rule).
`partials` counts both. A removal that is refused in a pruning loop is logged, the loop
goes on and success is reported (`AgedStayed`, `ExtraStayed`); `stuck` is history, the
extras a call could not remove. A file is on the list of the loop over ages (`Expired`)
if it is too old as the loop begins; files written later only get younger.

## 3. What TLC checks

| Run | Instance | Properties | States |
|---|---|---|---|
| `IpReports` | one host, 2 ids, 2 reporters, refresh, cleanup; scores below and in the 24h band, promoted to 30d after 2 hits; 3 reports, 4 instants | `TypeOK`, `ExpiryBounded`, `NoPermanentBlock`, `ScoringNeverUndoes`, `ReportCollapses` | 791,952 |
| `IpWhitelist` | a host and a block around it, one reporter, sweeper, reader, purge, one restart | `FeedRespectsWhitelist` | 714,905 |
| `IpOperators` | one id, an editor, a scan, three settings, purge | `PinHeldThroughScan`, `ScoringNeverUndoes` | 169,074 |
| `Retiring` | `IpBlacklist` with 2 reporters and the cleanup; `VerdictList` with one hash, one URL, 2 ids, a reporter, a job, one restart; fair | `ExpiredRetired`, `ReportsAnswered`, `HiddenReturns` | 16,476 |
| `VlLists` | one hash, one URL, 2 ids, a reporter, a job, an editor, purge; threshold 0 or 5 | `TypeOK`, `OperatorWins`, `PinHeld` | 243,707 |
| `Keys` | two AbuseIPDB keys and one VirusTotal key, which may be taken out of use; two tasks, one reset | `TypeOK`, `MarkersExpire`, `RetiredOnlyIfRefused`, `NoneOnlyAfterAll`, `AbortsOnlyIfRefused` | 2,150,472 |
| `Jobs` | one service of each kind in turn, 2 threads, a good and a bad time of day, 2 saves, one restart; fair | `TypeOK`, `SchedulesFollow`, `StaleOnlyByRace`, `ScheduleKept`, `SavesEnd` | 378,867 |
| `Alerts` | quota alone, or rate with silence; 2 keys, anonymous callers, one call, 3 instants; fair | `TypeOK`, `NoSilentCooldown`, `MailsSpaced`, `TroubleNoticed` | 45,919 |
| `Access` | 2 workers, one caller with a token, any 3 requests; limits 1 and 2 in windows of two ticks, 4 instants, locks at 2 and 3 | `TypeOK`, `DecisionsKept`, `LockEarned`, `NeverOvercounts`, `LimitKept`, `CallsByRight` | 1,552,333 |
| `Syslog` | 2 threads, 2 collectors, error and access streams, 3 records; fair | `TypeOK`, `SentWhereConfigured`, `OneLossPerFailure`, `LoggingEnds` | 232,680 |
| `Backup` | the scheduler and one other caller, five policies, 4 backups, one kill or refused removal of a copy, one refused extra per call | `BackupRemains`, `AloneKeepsPromise` | 5,434,752 |
| `SyslogLoop` | one thread, one collector, the activity stream too; fair | `LoggingEnds` – **violated** | 169 |

What they show:

* `IpReports` – stale saves of overlapping reports and the refresh leave no block
  without end, a report that finds rows of its address leaves one of them, and a late
  score undoes nothing.
* `IpWhitelist` – no response contradicts an entry whitelisted throughout it, even when
  a sweep missed a row or died: the filter of the feed is what guarantees it.
* `IpOperators` – no rescoring or re-evaluation undoes a pin, an edit, a switch or a
  deletion made while it waited.
* `Retiring` – expired rows are retired, reports end, and a row hidden because
  VirusTotal did not answer does not stay hidden.
* `VlLists` – a late verdict leaves standing what an operator decided meanwhile.
* `Keys` – however threads mark and unmark keys at once, no key is retired too long or
  without a refusal, and no query or refresh gives up while a key might answer, but for
  one whose marker changed while the list was drawn up (section 4).
* `Jobs` – a job runs as stored, or its last change was missed for a reason the model
  names; the cache differs from the database only around a writer, a late reader or a
  failure; the whole implements `Schedule`; nobody waits for the lock for ever.
* `Alerts` – one mail per subject and cooldown unless a stamp was lost, no cooldown
  without a mail, and whatever stays wrong is mailed about again.
* `Access` – accounts stay as decided, calls pass by right, nobody is refused or locked
  out too early. A window lets more calls through than its limit only after a race on
  the counter or a loss of it, and then at most the limit again for every loss.
* `Syslog` – records go where they were meant to go, a broken connection fails one
  record, and logging goes on as long as activity is not forwarded.
* `Backup` – a call left alone keeps its word, but for extras it was refused to remove;
  overlapping ones lose nothing as long as the limit has room for all and for the
  partial files left behind.

Each property is also run against a mutant of the model, a plausible bug of the code,
and found violated (`mutants` in `PROJECT.json`).

**Bounds.** One address is enough for every property of a row, because rows of different
addresses meet only through overlap; `IpWhitelist` adds a block around the host for
that. Two ids give the duplicates, two reporters every pairwise race; one tick is the
24h duration and two the 30d one, so a row can be renewed, expire and be retired within
`MaxTime`. Scores fall below and in the 24h band, where they are promoted, or below and
above it. In the verdict lists two ids
give a job a row to lose while it holds another, and two values per list would only
repeat the other list's rows. The verdicts are "unknown" and one that reaches the lower
threshold; threshold 0 disables.

Two tasks give every pairwise race on a register of keys, two AbuseIPDB keys the
rotation; one reset is enough since markers of one day do not outlast it. A list that
misses a key, holds one twice, or holds none at all occurs there. Two threads give every
race on the cache and the lock: a third would wait. One service is enough because
services share the lock only. In `Alerts` a cooldown of two ticks and three instants
show a mail, a mail too early and one in time. In `Access` three requests show an older
copy saved after a decision and a call that sees the outcome; with windows of two ticks
and four instants a counter is dropped inside its window, and a window ends and another
begins. Three records on two threads show a failure, the record it fails and
the next one. Four backups show two that overlap, one before and one after. Budgets
(`MaxReports`, `MaxSaves`, `MaxRecords`, ...) bound the counters, in guards; deadlock is
off where all of them can be used up.

`Access` leaves the rows of the log out of its states (`VIEW ButLog`): calls write them,
only the alerts read them. Two configurations cut the state space with constraints.
`Keys`: the tasks of a behaviour work on one register (`OneRegister`), since nothing a
register does depends on another one. `VlLists`: `NoRestart` and `NoReportEnds` stop
exploring once the process has restarted or a report is about to end, `NoRaces` keeps
reports and jobs apart. What these leave out (restarts, reports that end, and reports
that race the refreshes) is explored, without an operator, by `Retiring`; and the
theorems about `OperatorWins` and `PinHeld` hold without them. `Alerts` takes the kinds
of alert in groups: `quota` touches nothing the other two read.

Larger instances were explored once, without errors: the rate check alone with a caller
that holds a token and two calls (51,805 states), the silence check alone with it
(122,161), quota alone over a longer clock (87,296), rate and silence with two calls
(27,956); pages and sign-ins without calls, four requests (471,313); syslog with every
stream forwarded, invariants only (252,482).

**Fairness.** Arrivals, operators, saves, settings changes, failures and time are never
fair.

* IP blacklist: a thread serving a report goes on (weak, `Serving(w)`: the query has a
  timeout and may return no score), and the cleanup job, which runs every 15 minutes,
  reads and writes. Operators are left out of `Retiring`: with a finite set of ids an
  operator could hold them all, which no database does.
* Verdict lists: a refresh of each list starts again and again (strong: the daily job
  comes back, but may find the executor busy), a job goes on from row to row (weak), and
  a row asked about again and again is answered some time (strong: VirusTotal may fail
  any finite number of times; without this nothing could return).
* Jobs: a thread goes on with what it does, gets the lock when it is free, and a server
  that came up starts its jobs (all weak: saves being bounded, the lock comes free for
  good).
* Alerts: the process stays up in the end (it cannot promise anything otherwise), a
  check goes on (weak), and the jobs fire again and again with neither the providers nor
  the mail server failing each time they are asked about a subject (strong).
* Syslog: a thread that can go on again and again does (strong: a lock that comes free
  again and again is got some time; sockets have a timeout of a few seconds).

## 4. Where code and claims part

`SyslogLoop` checks a **claim the repository makes** and finds it violated:
syslog_service.py:12 says a broken collector cannot cripple the request path, but `emit`
logs a failed send (syslog_service.py:163) while it holds `_state_lock`, which is not
reentrant. With "Forward Activity Logs" on, that warning comes back to `emit` on the
same thread, which waits for itself, and every thread that forwards after it. With two
threads the handler's own lock and `_state_lock` can also be taken in opposite orders.

The other disagreements below were met while modelling and have no run of their own. The
first four of the IP blacklist and the first of the verdict lists were confirmed by a
counterexample of TLC; the others follow from reading the code against the line quoted.

*IP blacklist.* models.py:79 exempts pinned entries from automatic reassignment and
deactivation; `report_ip` (api/views.py:201) reassigns a pinned row like any other.
api/views.py:186 collapses an IP to one row; two reports whose scores fall in different
bands insert two (:190). scheduler.py:35 deactivates entries in the past; it does so by
ids read earlier, also a row renewed in between (:96). abuseipdb_service.py:291 says a
low score deactivates; of two reports the low one tests `is_active` on its own copy and
leaves the row published (:316). `blacklist_bulk_edit_group` (blacklist/views.py:844)
saves `group` and `expires_at` only, so a row moved to `no_group` stays active until its
next whole save, against models.py:134. A row deleted while a report holds it is
inserted again (api/views.py:217). With a 30d threshold of 0 the clamp leaves both bands
equal.

*Rows that never expire.* `NoPermanentBlock` holds of reports, the refresh and the
cleanup, on the instance of `IpReports` and as a theorem (`UnattendedNeverBlocks`), and
is **not true in general**. A restart between the two saves of a new row leaves it
without expiry. So does a longer overlap, found by following the proof attempt and
confirmed by TLC in ten steps: two operators' pages and a rescore hold copies of one row
that goes 24h → `no_group` → 24h, so an active `no_group` row keeps an expiry, the
score's group is taken by a second row of the address, and the rescore renews its stale
`no_group` copy, that is, saves `expires_at = NULL` over a row published in 24h. There
is no third way: `PermanentBlocksExplained` proves the invariant of every behaviour
without such a restart and such a copy, whatever else overlaps.

*Verdict lists.* urllist/virustotal_service.py:683 re-evaluates all scored entries; a
URL that VirusTotal does not know has a `vt_checked_at` but no score, :702 compares
`None` with the threshold, and the exception leaves every row after it as it was. The
edit pages (hashlist/views.py:618) save every column, so they can lower
`vt_unavailable`, undo a pin, or keep the old value's verdict for the new one. A pinned
row that is hidden is passed by in every scheduled refresh
(hashlist/virustotal_service.py:481) and stays hidden until rescored by hand. A manual
check that fails does not raise `vt_unavailable`, although `fetch_url_data_ex` tells its
caller to. `report_url` stores a 404 as the 0/0 score that `_mark_not_found` calls
misleading. A restart during a report's query leaves its row served without a verdict. A
404 and a verdict of one URL applied from two overlapping jobs leave `vt_not_found`
beside a score.

*Keys.* abuseipdb_service.py:165-168 says that `fetch_ip_data` returns None only when
every configured key has failed. `_get_api_keys` (:100-101) looks at each marker twice,
once for the fresh keys and once for the exhausted ones: a marker that expires between
the two looks, or is taken off by another thread, leaves its key in neither list. The
list can even be empty, and the query returns None without having asked anybody; a
marker set between them puts its key into both. TLC shows all of these;
`NoneOnlyAfterAll` and `AbortsOnlyIfRefused` excuse exactly these keys. The monitor
(quota_monitor.py:225) and the check page (settings_app/views.py:1471) write the
register of exhausted keys that hash queries use, and can take a throttled key for one
out of its daily quota, a difference hashlist/virustotal_service.py:98 and :172 are
careful about. `RetiredOnlyIfRefused` is therefore stated of the other two registers.

*Settings and jobs.* scheduler.py:4 says changes take effect after a save without a
restart: not if the reschedule reads an entry a slow reader put back, if a read fails,
or if the time of day does not parse (`missed`). Between removing the quota alert's job
and reading its interval there is none.

*Alerts.* The silence check counts all callers together (silence_monitor.py:123), so one
that still calls hides one that fell silent, against README.md:332 and :68; it fires
after the server's own downtime and on a platform nobody ever called. `_API_ACTIONS`
(rate_limit_monitor.py:41) lacks the URL list's actions. Requests refused as invalid use
up the limit but leave no row to count.

*Limiter.* api/auth.py:112-115 says a window does not rely on the cache's timeout alone;
its count does. The timeout of the last write (:153) is cut to whole seconds and so may
end up to a second inside the window, the database cache cuts it once more and culls
entries when it is full, and a counter that is gone starts a new window. :118 accepts a
slight over-counting of concurrent calls; what the race does is count too few
(`NeverOvercounts`), so that more than the limit pass.

*Accounts and sign-in.* `user_bulk_delete` checks one copy and acts on another; a page
that loaded an account before its deletion inserts it again. accounts/views.py:52-54
calls add-then-`incr` correct; on the database cache `incr` is a read and a write, and
two failures can count as one.

*Backup.* With `max_count = 1` two overlapping calls delete each other's copy: both
report success and no backup is left (backup_service.py:91-100). "Never raises" (:111)
does not cover `dest.stat()` (:169); a failing call unlinks the file of another that
began in the same second (:156-158); the partial file of a killed call, or of a failed
one whose removal is refused (:162), counts as a backup. A refused removal in a pruning
loop (:76, :98) is only logged, and the call reports success with more files than the
limit. Room for every call under way and every partial file is enough for two callers,
and **not for three**: with a limit of 3, one call lists the partial copies of the two
others among its extras, these finish meanwhile and push each other and the whole copies
out, and the first then deletes by name what has become the last whole files. This was
found when the invariant below failed, and confirmed by TLC. `BackupRemains` states the
conditions under which no copy is lost: the limit is also at least twice the number of
the other callers, plus the partial files.

## 5. What is proved

All theorems hold for any values of the constants that satisfy the modules' named
assumptions, which TLC evaluates in every run. `PROJECT.json` lists the 36 to know of;
the lemmas they rest on have names and comments of their own.

**IP blacklist.** `IpBlacklistProofs` proves `Inv == TypeOK /\ InFlight` inductive.
`TypeOK` alone is not, because a task's next step uses what an earlier one loaded.
`InFlight` says what a task in flight already holds: a request past the query has an
address and a group, one past the lookup has an id and a row, a scan that re-evaluates
holds settings and scored rows. There is one lemma per operator that builds a row
(`ClampedType`, `RenewedType`, `MergeType`, ...) and one per action. The rest builds on
it:

* `ExpiryIsBounded`: inductive as it stands. A step leaves the expiry a row has or
  writes one it has just computed (`ExpiryKept`), never the one of a stale copy.
* `FeedIsFiltered`: strengthened to: `steady` only holds entries that are still active,
  so the filter at the end applies all of them.
* `ScoringIsMonotone`: from `Merge` and `Applied`: neither ever sets `active`, and
  neither saves the pin, the history or the address.
* `PinSurvivesScans`: of a pinned copy a re-evaluation saves the score or nothing
  (`PinnedFields`), and a job that has saved a row is done with that row alone
  (`SavedOnly`).
* `ReportsCollapse`: strengthened by `FoundOwn`, that the copy a report found is a row
  of its address.
* `PermanentBlocksExplained`: `Spec /\ []RescoresClean /\ [][SavesUninterrupted]_vars =>
  []NoPermanentBlock`. The two hypotheses are the two ways to break it: a rescore holding
  a `no_group` copy with an expiry, a restart between the two saves of a new row. All
  actors run, operators and sweeps included. The invariant says *who* owes a row its
  expiry (`Owned`: a report or an import that still holds the row as it inserted it). It
  needs `Single`, the unique index, since the second save is dropped when the index
  refuses it, and `StoredClean` for the copy a report scores. The step of each save is
  one of two lemmas: a whole row is written with its expiry (`WholeSave`), or the columns
  written are harmless (`PartSave`, with `Safe` proved of each re-evaluation).
* `UnattendedNeverBlocks`: the same without the two hypotheses while operators change
  neither rows, whitelist nor bands and nothing restarts (`Unattended`), for any number
  of reports, refreshes and promotion rules at once. Then every active row is published
  (`ActivePublished`) and a refresh holds only such rows (`ScansPublished`), so
  `RescoresClean` holds. `IpReports` is an instance.

**Verdict lists.** `TypeOK` is not inductive here either: that no hash is marked
`vt_not_found` depends on a job deciding by its *copy* of a row which list it is of, and
saving to the *table*. `Inv` therefore says that all versions of a row, in the table and
in any task, are of one list (`OneList`, `OnlyUrls`). Each action makes only old
versions or children of old ones (`VersionsKept`), except the two that insert under an
id nobody holds (`FreshKept`). `OperatorDecides` and `PinIsHeld` follow from one lemma
about a save (`SaveStands`): `is_active` is among the saved fields only if it differs
from the copy's, and with two values "different from the copy" is what the table has
whenever somebody changed it.

**Keys.** `Inv == TypeOK /\ MarkersExpire /\ RetiredWasRefused /\ TasksFine`.
`MarkersExpire` is inductive on its own (`KeysComeBack`); the others need `TasksFine`,
which says for every task which fields it has in each phase (`Shape`), and where each of
the keys it began with is (`Accounted`): it failed, is on the list, was found by the
pass under way, is still to be looked at by a pass that would take it, or was found
resting and, by AbuseIPDB, also not. Whatever a refresh counts as failed or found
resting, or a refusal at hand is about, was refused (`Progress`). From it follow
`RetiredKeysWereRefused`, `QueriesTryAll` and `RefreshesAbortOutOfQuota`.

**Settings and scheduler.** `Inv == Typed /\ Phases /\ Holding` says which fields a
thread has in each phase, and that only the holder of the lock is between read and add.
The rest needs two facts about values under way: what was read to reschedule is what is
stored, unless somebody else changes it or a change was missed (`ReadAsStored`), and
what is being put into the cache is stored still, or suspect, or about to be dropped
(`LoadedFresh`). `JobsFollow` and `CacheStaleOnlyByRace` follow, and the refinement
`JobsImplementSchedule` (`Spec => Promise!Spec`): every action is a step of `Schedule`
or a stutter; the delicate ones are the removal, whose job is shown as the new one once
it is known, and the release, which settles the change.

**Alerts.** Per kind of alert: a mail was decided from the stamps as they still are
(`DecidedWell`, since a kind's check never overlaps itself), a stamp that was kept is
the one of its mail (`Kept`), and none lacks a mail (`Arrived`, `Backed`).
`StampsFollowMails` and `MailsKeepTheirDistance` follow.

**Syslog.** `Inv` has three parts besides the types: who may be where under the lock
(`Roles`), whom the shared connection reaches (`Reaches`: the collector of its
signature, unless a test changed it) and which connections work (`Works`: a broken one
is noticed by the first that fails and replaced). `RecordsReachTheirCollector` and
`FailuresCostOneRecord` follow. These hold with activity forwarded, too: the deadlock is
no violation of safety.

**Access.** A step moves the traffic or the accounts with the sign-in, never both, so
there are two invariants (`CountersCount`, `AccessInvariant`). Of the traffic: what a
worker read of a counter was let through (`ReadsCount`), so a slow worker that writes it
back overcounts nothing; no counter lets through more than there are calls (`Budgeted`),
which makes counting by cells of the window sound; and a counter that nobody overwrote
is right but for an excess of its limit per loss (`Exact`): every call it let through is
in a window that had begun (`Windowed`), the windows that are not over hold no more than
it says and the excess (`Within`), its own is the last one begun (`Latest`), and
whatever a worker has read of it and will write back is as right (`Judged`).
`NobodyOvercounted` and `LimitsKept` follow. Of the accounts: the copy a worker holds
agrees, in every column that is not suspect and that it will save, with what was decided
last (`Agrees`); a decision makes suspect whatever other workers hold an older copy of.
`DecisionsStand` and `CallsLetInByRight` follow. Of the sign-in: the failures a lock
rests on cover what is counted and what any worker is about to count (`Covered`), hence
`LocksEarned`.

**Backup.** `BackupInv` has two parts besides the types and the clock. For a call that
no other overlaps, where it stands (`Alones`): the file it copies into is its own and
open; afterwards the file is whole, the last one of the directory, and not on the list
to be deleted; and what is neither on that list nor stuck is no more than the limit.
`AloneKept` follows. For overlapping calls (`Remains`): a whole file is on nobody's list
(`SafeLeft`). That alone is not inductive, because the next sort may list it. It will
not, if fewer files than the limit come after the last such file, and what may come
after it is counted: whole files that are listed and the calls that were copying when it
was finished together are fewer than the callers (`ListedFew`), partial files nobody
copies into were left by calls that were killed or refused their removal (`OrphansFew`),
and each other call under way has one file (`Apart`). The file of the present second is
never listed (`FreshFew`, `ListedPast`), so a call that is about to begin has its name
to itself. `BackupsRemain` follows, for any number of callers and partial files. The
directory is a sequence: the lemmas at the head of the module say what writing and
removing a file do to the set of its files and to their order, and the rest speaks of
these only.

**Assumed of the constants.** Budgets and times are natural numbers, limits, windows and
cooldowns positive ones; sets whose members are counted (workers, callers of
`run_backup`, keys) are finite; a marker such as `Null` is not a value. How large any of
them is does not matter.

**Only model-checked.** Liveness (`ExpiredRetired`, `ReportsAnswered`, `HiddenReturns`,
`SavesEnd`, `TroubleNoticed`, `LoggingEnds`) is out of the prover's reach. Every other
property of a passing run is stated by a theorem; only `NoPermanentBlock` needs
hypotheses about the behaviour.

## 6. Not modelled

Dashboard and PDF reports read and render. Helpers (encryption, address checks, images,
paging, CSV) are stateless. Installers, process control, Django settings, templates and
assets hold no state of their own. `management/commands/cleanup_expired.py` repeats the
scheduler's cleanup. Of the accounts, searching and importing from the directory and the
audit trail are left out; of API access, the pages for allowed source addresses, which
write single rows that each call reads afresh. The legacy `permanent` group is gone from
the seeds and treated as any other name would be. The feeds' paging queries the table
again for every page, so a client that pages through a list while it changes can miss or
repeat rows; a response is one page here.

What could come next: the pages a client fetches one after the other, as one read of the
feed; and a larger `Access` instance with two callers.
