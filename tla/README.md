# Routarr in TLA+

Routarr reads the libraries of Radarr and Sonarr ("Arrs"), decides with rules in
which root folder each title belongs, and moves the titles that are elsewhere. It
is a Rust server over one SQLite database; it shares the titles with the Arrs and
with the people who use them. These modules model what it does when those three
disagree: a process that dies between two writes, an answer that never comes, a
sync that read the Arr before a move and writes after it, an owner who edits a
rule, a category or a passphrase while a job that read the old one goes on.

Paths below are relative to `src/backend/src/`.

## Inventory

| Component | State it keeps | Operations | What is hard | What makes it correct |
|---|---|---|---|---|
| Executor (`services/executor/`) | `decisions`: status, `superseded`, `applied_at`, `reverted_at`; the title's row, `moved_at` | apply, apply in batches, unattended apply, revert; settle after a sync | hours-long runs, several Arrs at once, crash between the PUT and its record, late answers, stops | what is reported made was made; nothing sent is forgotten; a revert undoes the latest move |
| Sync (`services/sync.rs`) | `media`, `root_folders`, `instances`, exceptions that wait | full sync, read of one title for a webhook, cleanup | reads minutes before it writes, timestamps of a second, ids an Arr hands out again | no newer path is overwritten; what hangs on a row is of its title |
| Proposals (`services/routing.rs`) | `decisions`, `media_routing` with `load_order` | simulate, store, supersede | a snapshot, then a write transaction; several at once, clocks set back | one proposal per title; a run alone is stored |
| Rule engine, destinations (`services/rule_engine/`, `routing.rs`, `placement.rs`) | none: a pass over what it loaded | evaluate, choose a folder, forecast | free space and other titles move between proposal and apply | a title goes where it was proposed; what is forecast to fit fits |
| Job registry (`jobs/registry.rs`) | locks, cancel flags, rows of `jobs` | `try_lock`, `lock_within`, `try_wait`, cancel, outcome, orphans | a wait given up as the permit is handed over; an outcome written late | exclusion, arrival order, no job left running |
| Scheduler (`jobs/scheduler.rs`) | last sync, maintenance and backup, one slot of work after a sync | `tick`, `follow_sync`, shutdown | overlapping syncs, shutdown in the middle | one pass at a time, none lost |
| Unattended apply (`services/auto_apply.rs`) | what was held back per instance | `decide`, `apply_simulation` | a wait of minutes between choice and act | moves only what may still be moved |
| Sources (`services/enrichment.rs`, `quota.rs`, `rate_limit.rs`) | what is on record of a title, requests of the day, tokens, holds | a pass, a title asked alone, reserve, give back, hold | a source down, the day's end, refusals during a hold | no outage is put on record as "unknown"; the pace is kept |
| Backup, restore (`services/backup/`) | archives, staged and pending files, files set aside, the copy folder | create, seal, convert, prune, copy, stage, apply at start, delete | a stop between any two renames, a share that hangs | a database is never left without its key; the newest archives stay |
| Notifications (`services/notify.rs`) | a queue of 32 | send, retry | a receiver down | in order, bounded |
| Categories, rules, exceptions, templates, configurations (`api/`) | names referenced with no foreign key | rename, delete, save, import | a request judged, then written in its turn | no dangling name |
| Order and validation of rules (`services/templates.rs`, `rule_engine/validation.rs`) | priorities | add from a template or a bundle, edit, reorder; judge a rule | room made among rules at any priority; conditions compared two by two | nothing added overtakes what was there; what is refused as never firing never fires |
| Instances, webhooks (`api/instances.rs`, `api/webhook.rs`) | `instances`, deliveries | edit, delete, deliver | an Arr replaced beside a sync; two locks in either order | rows are the Arr's titles once quiet; every delivery ends |
| Sign-in throttle (`services/accounts.rs`) | places, permits, failures | verify, fail, succeed | callers that hang up | places come back once; waits grow |
| Sessions, identity providers (`accounts.rs`, `oidc.rs`, `api/auth.rs`, `api/account.rs`) | `sessions`, the cookies and the attempts a browser holds | open, renew, end, rotate the key, sign in at a provider | a renewal beside what ends the session, a key replaced in three steps, answers out of order | what ended stays ended; what is used lasts |
| Application keys, maintenance, settings, metadata shapes, HTTP, interface | caches, settings | purge, edit, parse, render | third parties | not planned as models |

How they meet: a sync writes rows, then settles the moves left `requested`; the
scheduler follows it with the rule tests, an enrichment, a simulation and an
unattended apply; a run and a settle exclude each other by the lock `"apply"`, two
syncs of one instance by `"sync:<id>"`, its deliveries by `"webhook:<id>"`; a
simulation takes none of them and is kept apart by SQLite's transactions alone. A
backup, a conversion and a copy share a lock of their own. Notifications and job
rows are written beside all of them.

## Modules

The core, each with its instances and its proofs:

- `Executor.tla`: the executor with what it shares state with: the sync of each
  instance, a simulation, the Arr; shown to implement `MoveLifecycle.tla`, the life of
  one decision. `MCExecutor.tla`, `ExecutorProofs.tla`.
- `Restore.tla`: a restore, file by file: staged by the server or by
  `routarr restore`, applied by the next start, with what else touches those files.
  `MCRestore.tla`, `MCRestores.tla` (two instances in one run), `RestoreProofs.tla`.
- `References.tla`: every row that names a category or an instance, and every
  request that writes one. `MCReferences.tla`, `ReferencesProofs.tla`.
- `JobLocks.tla`: a lock of the registry with its queue, shown to implement
  `Turns.tla`, turns taken in the order of arrival. `JobLocksProofs.tla`.

The services a run of moves stands on, checked together by `MCServices.tla`: `Titles` (the
rows and what hangs on them), `Proposals`, `Routing` (rule engine,
destinations, forecast), `Unattended`, `Pacing`, `Enrichment`. `Conditions` is what a
condition asks of a title, which `Routing` evaluates and `Validation` judges.

The tasks that must end, instantiated together by `MCTasks.tla`: `JobLocks`,
`JobRows`, `Executor`, `Deliveries`, `AfterSync`, `Notifications`.

What an installation keeps, instantiated together by `MCKeeping.tla`: `References`,
`Validation`, `RuleOrder`, `SignIn` and `Sessions`, `Copies`. `Archives` has its own
`MCArchives.tla`. Which module proves about which is said under *Proofs*.

`MCServices`, `MCTasks` and `MCKeeping` check each of their modules alone: a variable
(`service`, `task`, `part`) says which one runs, from the first state on. Modules
meet where the code makes them: `Executor` composes runs, syncs, settles, a
simulation and the Arr; `Deliveries` composes webhook, sync and removal over their
two locks; `Unattended` and `AfterSync` take the run they end in as one step, which is
`Executor`'s.

### State and code: `Executor`

| Variable | Code |
|---|---|
| `decision` | rows of `decisions`; `absent` is an id not given yet |
| `after` | the order of `applied_at` between decisions of one title |
| `row` | `media.current_root_folder`; `None` once the row is gone |
| `lock` | the permit `"apply"` of the registry: held by a run, a settle or nobody |
| `run` | locals of `run_in_slices` and `execute_moves`: ids not loaded yet, moves not tried yet, what came of them |
| `part` | `move_instance` for each instance: the move in hand and how far it is |
| `sync` | `sync_instance_inner` for each instance, through `settle_requested` |
| `kept` | the comparison `moved_at >= read_at` of the sync under way |
| `sim` | a simulation between its snapshot and `store_run` |
| `stop`, `dryRun` | the cancel flag or `closing`, the setting `global_dry_run` |
| `arr`, `commands`, `puts` | the Arr: where titles are, the move commands it lists, PUTs on their way |

`seen`, `unseen` and `overrun` are history that only the properties read; `runs`,
`stops`, `hands` and `faults` count against the bounds.

### Actions and code: `Executor`

A move by a run is `CheckMove` (`move_instance` 826-843), `RequestMove` (the
durable record, then the PUT), the Arr's `ArrTake` or `ArrDrop`, then without
files `RecordSuccess`, with files `RecordSent`, `FollowCommands`, `FollowTitle`
and `RecordFollowed`, or `RecordFailure`. An answer that never came goes through
`AnswerTimedOut` and `ReadBack`. `RecordLost` is a record the database refused
after the retries: logged, and the run goes on. A run is `StartRun`, one `LoadSlice` per
slice (one slice in all outside batches) and `FinishRun`.

A sync is `SyncBegin` (`read_at`), `SyncRead`, `SyncWrite`, then `SettleRead`,
`SettleLock` or `SettleSkip`, one `SettlePick` and perhaps one `SettleRecord` for
each row, and `SettleEnd`. `Crash` drops every lock, run, sync and simulation,
and leaves the database, the Arr and what is on its way to it.

What an action joins is atomic in the code: a SQLite write transaction, or memory
one task owns. What the code separates by an `await` is separate here, with one
exception: the record of a move and the sending of its PUT are one step. The
record is durable before the send; a process that dies between the two is the
behaviour where the PUT is sent, lost (`ArrDrop`) and the process dies.

Abstracted: the content of titles, folders' paths (a move is between root
folders), the wording and counting of reports, the audit log, notifications. The
rules are not evaluated: which moves a revalidation finds stale is any subset.
Moves of one instance are tried in any order. `CommandEnd` lets a command end
well or badly and leave the title or put it back, in every combination, and
`CommandForget` lets the Arr stop listing a command that ended.

`MoveLifecycle` keeps of all this the `life` of each decision, which `LifeOf` reads off
its row (`requested` is sent, or recalled once `reverted` is set; `applied` is made;
`skipped` is undone), and the `wire`, which is `puts`. `Propose` is `store_run`, `Send`
and `Recall` the record of a request with its PUT, `GiveUp` a batch or a record that
failed, `Settle` every record of an end, `Arrive` the Arr. What it leaves free, the
`Outcomes`, is what the settle of `executor_stale_settle` makes: one that read its rows
before it had the lock writes an end over another. TLC reaches each of them in `Executor`.

Not in `Executor`: two decisions stamped in the same second and the one-second
resolution of `moved_at`; the clauses of `REVERTIBLE` on root folders still
declared; the confirmation and capacity guards, asked before a run and changing
no state; the webhook's read of one title; instances edited or deleted; ids an
Arr gives to another title; a title deleted and added again; bulk commands of the
Arr, which name no destination; several simulations at once. `retire_media` also
detaches the decisions of a removed title from its id; here its row is `None`.

### State and code: `Restore`

| Variable | Code |
|---|---|
| `live` | `routarr.db`, its `-wal`, `routarr.key` and the API key's file |
| `kept` | the same under `.pre-restore`; an API key is never set aside |
| `staging` | the three files under `.restore-staging` |
| `pending` | the three files under `.restore-pending` |
| `note` | the archive named in `routarr.db.restore-pending.json` |
| `pc` | off, a start at one of its steps, up, or `routarr restore` |
| `task` | the task of `stage_restore` or a withdrawal: its step, its archive, the files its `Scaffold` holds, `key_withdrawn` |
| `discarding`, `deleting` | the file `discard_pending`, or `delete_replaced_database`, removes next |
| `changing` | `rotate_api_key` or `clear_api_key` between its two writes |

A database is a record: which copy it is, its archive, the key its credentials are
sealed with, whether it records the API key as withdrawn. A log is the copy of the
database it belongs to. `served`, `word` and `stale` are history: the database last
served, the owner's last word on the API key, and which staged sets are older than
that word. `copies`, `crashes`, `rejects` and `words` count against the bounds.

### Actions and code: `Restore`

A staging is `StageBegin`, `ExtractDatabase`, `ExtractKey`, `ExtractApi`
(`extract_staged`, in the archive's order of targets), `ReadWithdrawals`,
`OpenedByTheNextStart`, `KeepTodaysCredentials`, `DiscardEarlier`, `WriteNote`, then
`PendApi`, `PendKey`, `PendDatabase`; `StageRefused` and `PendFails` are its early
returns, where the `Scaffold` removes what was extracted. A discard is one
`DiscardNext` per file. A start is `SweepLeftovers`, then either `NothingPending`,
or `RejectPending` and `Rejected`, or `AcceptPending`, `SetTheKeyAside`,
`SetTheDatabaseAside` (its log's removal and the rename are two steps) or
`NoneToSetAside`, `SetTheLogAside`, `RestoreApi`, `RestoreKey`, `RestoreDatabase`
and `RemoveNote`; then `OpenPool`, and `StartServes` or `StartRefused`, which join
`refuse_a_lost_master_key`, the making of a key, and `refuse_a_foreign_master_key`.
`Crash` may fall between any two of these and keeps the files alone; `Stop` folds
the log first.

Assumed: `ROUTARR_SECRET_KEY`, `ROUTARR_API_KEY` and
`ROUTARR_ALLOW_NEW_MASTER_KEY` are unset; a rename or a removal that returned stays
done (the process dies, not the machine); a removal by itself does not fail, since the
code ignores most such failures. A new master key differs from those of every file
and archive. Not modelled: the passphrases of sealed archives, `-shm` files
(removed or rebuilt by SQLite), the credentials `keep_todays_credentials` carries
other than the withdrawal of the API key, the making and pruning of archives, the
partial seals a start only warns of (a database is sealed with one key: what an archive's
holds sealed is an Arr's API key among the rest, or only settings and webhook secrets).

### The other modules

**`Titles`** (`sync.rs`, `api/exceptions.rs`, `api/instances.rs`). `row` is `media` with
`synced_at` and `moved_at` in whole seconds of `now`; `pending`, `history`, `pin` and
`retired` are what hangs on a row by its id, each remembering the title it was made
for; `reader` holds the full sync and the delivery between read and write. `Reads`
takes what the Arr lists, `Commit` is one write transaction (`upsert_media`, the
retirement of ids gone or reassigned, `restore_overrides`), `Held` the removal held
back beyond `HELD_PAST`. A simulation of one title is two steps, `SimulationReads` (the
snapshot of `load_library`) and `SimulationStores` (`store_run`), with any other step
between; a proposal's ghost `kept` says whether the row stayed the title's meanwhile. `ArrChanges` gives any id to any title; `Point` aims the
instance at another Arr; `MoveSent` and `MoveRecorded` are a run's PUT and record.

**`Proposals`** (`routing.rs`). `run` is each simulation between `Asked`, `Loads` (the
read transaction, where the order is given) and `Stores` (`store_run`); `routed` is
`media_routing`; `lastOrder` dies with the process; `ClockRuns`, `Restart` and
`Archived` are what makes an order smaller than one stored before. `said` and `born`
count edits, so that a property can tell what a run had read.

**`Routing`** (`routing.rs`, `rule_engine/mod.rs`, `placement.rs`). A condition is judged by
its family (`ContainsAny`, `ContainsAll`, `NotContains`, languages, ranges, flags,
sizes, the folder), a rule by its mode and its exclusions, a category by the first
rule that matches in `TriedBefore`'s order. `Evaluates` places one title after the
other over what the pass loaded, with what it has planned for each folder; `Stores`
leaves the proposals; `Measured`, `Remapped`, `Pinned` and `Moves` are what happens
until the apply works out `TargetNow`. Genres stand for every list of values.

**`Unattended`** (`auto_apply.rs`, `settings.rs`). A pass is `Simulates`, `Chooses`
(switches, candidates, tests, cap), `TurnComes` or `TurnNotReached`, `AsksAgain`,
`ChoosesAgain` (the root folders read again), `ReadsOne` per title, then `Applies`.
Beside it: `Switch`, `RuleChanges`, `FileArrives`, `Synced`, `PersonDecides`.

**`Pacing`** (`rate_limit.rs`). `tokens` counts the parts of tokens, of which `rate` come back
per unit of time, and goes negative for the callers already told when to wake. `Acquires` with or without a deadline, which takes a
token under the lock; a turn past the deadline is then given back (`GivesBack`) under the lock
taken once more, and a caller that wakes during a hold goes back in line (`AsksAgain`) with
steps of others in between, and may wake late. `Hold` by a stated delay or the doubled back-off;
`Stated` by a source's own rate and count, whoever sleeps. `told` and `latest` are ghosts: how
many were given an instant from each on, and the last one given. So are `crossed`, a token was
taken between another's being taken and given back, and `quickened`, the rate was raised while
requests were queued ahead.

**`Enrichment`** (`enrichment.rs`, `quota.rs`). `pass` is the stage and what is left to
ask, `open` the requests in line or out, `breaker` its counts, `held` the refusals not
yet put on record. `TakesASlice` reserves, `SliceEnds` gives back, `Midnight` turns the
day, `AsksAlone` and the two after it are one title's own request.

**`Deliveries`** (`api/webhook.rs`, `sync.rs`, `api/instances.rs`). Each delivery takes a
place, waits in `line` for `hooked`, gives its place back, reads, writes; a deletion
waits for `syncing` while it holds `hooked`, and a removal takes the two the other way
round, each within a budget.

**`JobLocks`** (`registry.rs`). A permit given back goes to the head of the queue
(`given`) before that future runs again; it may be dropped there, with the permit in
it. `Turns` has `line` and `inside` alone.

**`JobRows`** (`registry.rs`). A handle tells its outcome; the write may be refused, is tried
again by a task of its own, and what a restart finds running is buried.

**`AfterSync`** (`scheduler.rs`). One slot, `chain`; `Follow` reaps a finished chain and
starts the next, `Stores` is the moment a simulation that had loaded the write is
stored. `write` follows one write of one sync.

**`Notifications`** (`notify.rs`). `turns` is the queue of the lock `turn`; `Attempts` reads
address and secrets anew at each try; a restart loses what was not sent.

**`References`** (`api/categories.rs`, `rules.rs`, `root_folders.rs`, `exceptions.rs`,
`templates.rs`, `rule_tests.rs`, `instances.rs`, `config.rs`). A request that judges before
its transaction is `Judge...` then `Write...`, with `request` what it judged; a
request of one transaction is one action. `Create`, `SetFallback`, `Rename` and
`Remove` are a category's life.

**`Conditions`** (`rule_engine/mod.rs`). No state: `Holds` evaluates one condition of a
title, by its family (lists, languages, ranges, scores, thresholds, flags, folders), `Fires`
a rule by its mode and its exclusions. Values are compared folded, a spelling standing for
what it folds to; `Blank` folds to nothing.

**`Validation`** (`rule_engine/validation.rs`). The one variable is `draft`, the rule in the
editor, written one condition or one exclusion at a time; `Saves` stores one that
`Refused` finds no fault with. `Contradicts` and `VetoesAll` compare conditions two by two
as the code does, and the properties ask `Conditions` what the same rule does.

**`RuleOrder`** (`api/rules.rs`, `services/templates.rs`, `api/templates.rs`). `rules` holds
of each rule its name, its titles, what it asks, its priority and its template. `Create`,
`Update`, `Delete`, `Reorder`, `AddTemplate` (with `Place` among those there, `Overtaken`
the ones that move to make room), `AppendBundle` and `ReplaceBundle` are one transaction
each, which reads what it arranges. `did` is the last request, for the properties.

**`SignIn`** (`accounts.rs` `SignInThrottle`). `Ask`, `Count`, `RefuseBusy`, `Check`,
`HangUp` wherever it can fall, `Checked` (the hashing thread, which a client's leaving
does not stop), `Tell`.

**`Sessions`** (`accounts.rs`, `oidc.rs`, `api/auth.rs`, `api/account.rs`). `sessions` is the
table, each row with the mode it was opened in, what it is bound to (`Under`: the key, the
lists of persons, or nothing), and its times. `req` is each request between two awaits,
from what its browser sent (`cookie`, `attempts`) to the answer, and the browser hangs up
anywhere (`HangsUp`). A key is replaced in the code's three steps: `Rotate`, `Rebind`,
`EndKeySessions`. `ended`, `given` and `back` are history: the sessions something ended,
the sign-ins begun at a provider and those that came back.

**`Archives`** (`backup/mod.rs`, `sealed.rs`, `api/backup.rs`). A file is named by its
archive and its form; `Conversion` walks the names left, `RenameConverted` and
`RemoveOld` being two steps; `Restart` resumes what a crash left. A prune after a save of the
count holds no lock: it lists (`ListPast`) and then removes by the names listed, one by one
(`RemovePast`), with conversions, backups and deletions in between. The one after a backup is
behind the lock, where no file gets a name, and is one step.

**`Copies`** (`backup/copy.rs`). `run` holds the lock and watches `thread`, which copies;
a thread given up on goes on and is recorded when it ends. `Recorded` writes what the
database takes: the folder or not, and of the copies the newest up to the first refused
(`unwritten` remembers that one was). A list leaves out what it cannot read, a removal what
it cannot remove. `Forget`, behind a deletion, removes by name alone. `Mount`, `OthersCopy`
and `Take`, `Reseal`, `Remove` are the world around it; another database's archives may have
the names of this one's.

What one action joins is atomic in the code, in each of them: one SQLite write
transaction, one rename, or memory under one mutex with no `await` in between.

## Runs

| Run | Expect | Properties | Distinct states |
|---|---|---|---|
| `executor_faults` | pass | `WriteAhead`, `InHandIsRequested`, `SettledAsSeen`, `RowFollowsArr`, `LivesAsPromised` | 833 000 |
| `executor_rows` | pass | `OneStandingProposal`, `RevertLatest`, `StopsBeforeNextMove` | 508 000 |
| `executor_stale_settle` | violation | `SettlesWhatIsRequested` | |
| `executor_other_command` | violation | `InTargetIsApplied` | |
| `restores` | pass | `LogOfItsDatabase`, `KeptOpens`, `NeverRefused`, `LastServedKept`, `PendingOfOneArchive`, `NoKeyWithdrawnBefore`, `PlaceFilled` | 610 000 |
| `restore_key_back` | violation | `NoKeyWithdrawn` | |
| `restore_leftover_key` | violation | `StagedOpens` | |
| `restore_rejected` | violation | `CurrentDatabaseKept` | |
| `services` | pass | `RowsKeepTheirTitles`, `MovedPathStands`, `QuietSyncHeals`, `RunAloneIsStored`, `RoutedAsSaid`, `MovedAsAskedAtTheTurn`, `PaceKept`, `PassesAreAccounted` | 1 523 000 |
| `tasks` | pass | `RequestedIsSettled`, `KeepsTurns`, `QuietRowsAreTheArrs`, `DeliveryEnds`, `EveryEventEnds`, `EverySyncFollowed`, `JobRowEnds` | 25 000 |
| `keeping` | pass | `NamesExist`, `JudgedRight`, `OrderKept`, `PlacesAreHeld`, `WaitsGrow`, `EndedStaysEnded`, `LastsAsSaid`, `CopiesAreAnsweredFor` | 1 416 000 |
| `archives` | pass | `NewestKept`, `SealedAfterStart` | 221 000 |

The type invariants (`TypeOK` of each module; `TypesOK` of the modules that instantiate
several) hold in these runs and are in no configuration; those of the modules with proofs
are theorems, or part of their invariants.

Of `Executor`:

- `InHandIsRequested`: while a run follows a move, no sync settles it.
- `SettledAsSeen`: a decision says `applied`, or `skipped` by a revert, only when
  the Arr held the title in the target between the request and the report.
- `RowFollowsArr`: a row that disagrees with the Arr is explained by a move on its
  way or a change Routarr was not told of. A sync that puts an older path back
  breaks it.
- `WriteAhead`: no PUT and no command without a decision recorded as sent, so
  that a restart finds it.
- `OneStandingProposal`: whatever simulations, runs, revalidations and syncs
  interleave, a title has one proposal at most.
- `RevertLatest`: a revert in hand undoes the latest move still in place.
- `StopsBeforeNextMove`: after a stop an instance sends the one move it had
  checked, and no other.
- `LivesAsPromised`: `Executor` implements `MoveLifecycle`: a decision is sent once at most,
  from the proposal it is, and called back only when it was made; what failed or was undone
  is never sent again; a PUT leaves in the step that records it. A load that took failed
  decisions too would break it.
- `RequestedIsSettled` (in `tasks`): no decision stays `requested` for ever.

Of `Restore`:

- `PendingOfOneArchive`: beside a pending database lie no keys but its archive's,
  and a key it carries is pending or already in place, whatever was staged,
  discarded or half applied before.
- `NoteNamesPending` (a theorem, in no run): the archive the interface says will be
  applied is the one pending.
- `LogOfItsDatabase`: no database is opened beside another's write-ahead log, which
  SQLite would replay over it.
- `KeptOpens`: when a start serves, the database set aside has its own log and a key
  that opens it, also while a deletion of it is stopped halfway.
- `NeverRefused`: no start is refused for the key after the restore of an archive that holds
  an Arr's key, the one value a staging tries; of other archives it fails, as said under
  *What does not hold*.
- `LastServedKept`: the database last served is in place or set aside, however many
  times the start that replaces it dies.
- `NoKeyWithdrawnBefore`: a restore undoes nothing the owner said of the API key
  before it was staged.
- `PlaceFilled`: a host whose database was set aside has one in place again.

All but the last are checked where the server alone stages; `PlaceFilled` with `routarr
restore` besides. With it, `NeverRefused` fails by finding 4, and `KeptOpens`,
`LogOfItsDatabase` and `LastServedKept` fail after a start died between its renames: the
command may then stage another archive over the half applied one (or find no database and
stage without one), so that the database set aside meets a second restore. The command is
meant for a start that is refused, not for one that died, and nothing in the repository
promises more.

Of the services:

- `RowsKeepTheirTitles`: an exception is on a row of the title it was set on, or waits
  for it under that title's own id, though its row went, its id was handed to another
  title, or the instance was pointed at another Arr and back; and a row's proposals and
  recorded moves are of the title the row is of, unless the simulation that stored the
  proposal had read the row before its id was handed on: then they are of the former title,
  as said under *What does not hold*.
- `MovedPathStands`: a path recorded by a move is not put back by a read begun before
  it, at a clock of whole seconds.
- `QuietSyncHeals`: one sync begun after the last change makes the rows the Arr's,
  whatever mixture earlier reads and moves left.
- `RunAloneIsStored`: a run stores every title it read that no other run stored since,
  after a clock set back, a restart or a restored archive too; and one proposal of a
  title is shown at a time, of the run that stored last.
- `RoutedAsSaid`: an apply that works a target out again, with other free space and
  other titles moved, sends the title where its proposal said; and a pass whose forecast
  says everything fits sends no volume more than it has free, several folders of one
  volume included.
- `MovedAsAskedAtTheTurn`: nothing moves unattended that had a file, or while switched
  off or failing its tests, when the pass got its turn, nor more than the cap.
- `PaceKept`: of the instants from any one to any other, no more are given than the burst
  and what comes back between them, and no two sleepers wait for the same, unless `crossed` or
  `quickened`; and nothing goes out ever while a source has everything held back, the callers
  that were given an instant before the hold included.
- `PassesAreAccounted`: a pass writes no miss down of a source that refused everything it
  was asked; and enriched, failed, skipped and deferred make up the works considered,
  whichever way the pass ends.

Of the tasks:

- `KeepsTurns`: the locks implement `Turns`: who waits first enters first, one inside at
  a time, whoever gives up or hangs up.
- `QuietRowsAreTheArrs`: once its deliveries are over the rows are the titles the Arr
  has, but for the events the code answers without a read and the deletions it leaves
  to the next sync.
- `DeliveryEnds`: a delivery ends, though a removal takes its two locks the other way.
- `EveryEventEnds`: every event is delivered or given up, though addresses and secrets
  change between two tries.
- `EverySyncFollowed`: what a sync wrote reaches the stored proposals in the end, while
  automatic simulation is on.
- `JobRowEnds`: a job that told its outcome does not stay running.

Of what is kept:

- `NamesExist`: whatever names a category (rules, folders, exceptions, exceptions that
  wait, rule tests, the fallback) names one that exists, with every request judged
  before another's write.
- `JudgedRight`: a rule refused as contradicting itself, or as vetoed by its own
  exclusion, fires for no title there may be; and a condition beside its negation is
  refused.
- `OrderKept`: nothing added changes which of two rules in place is tried first. A
  template's rules go behind those written by hand and among the others in the
  catalogue's order, a replacement where what it replaces was, a bundle last and once.
- `PlacesAreHeld`: what the throttle counts is who is inside: no more passwords hashed
  at once than permits, and every place given back once, whoever hung up.
- `WaitsGrow`: a wait set is no shorter than the last one of the address, until it was
  quiet for the window after it.
- `EndedStaysEnded`: no request is let through by a session something ended, though
  another request renewed it meanwhile, by one whose holder never showed the key in
  force, nor by one past its lifetime or unused too long.
- `LastsAsSaid`: a session in use lasts to within a slack of what it says, whoever
  renewed it; a sign-in begun beside `ATTEMPTS_KEPT` later ones stays open.
- `NewestKept`: the newest archive of each kind stays, whatever stopped a conversion; the
  exceptions are one deleted by hand and one that a save of the count listed by two files,
  its sealed one as the newest and the other as past it (`midway`). That an archive under two
  names counts as two, until a conversion or a prune removes one, is as in the code: the count
  then keeps fewer archives.
- `SealedAfterStart`: after a start that holds a passphrase, once what it began ended
  without failure and no passphrase was saved since, no archive is in the clear.
- `CopiesAreAnsweredFor`, two properties of `Copies` in one: `RecordedWithTheLock`, what a
  copy left in the folder is on record when its lock goes back, a copy given up on included,
  unless the database refused a write of that recording, the server stopped or another share was
  mounted under it; `KeepsToItsFolder`, of what another database put in a folder nothing goes
  but by the name of an archive this one took, and no step of a pass begun with a folder recorded
  touches a place without its marker, unless another was mounted under it meanwhile. What is
  mounted meanwhile is copied to and pruned by the names of this database's copies.

### Bounds

`Executor`: one Arr, two folders, one or two titles, one or two decisions. Two runs are
needed for a settle or a revert to meet a second move, and are given. In
`executor_rows` a third lets a move, its revert and another run follow each other, and
the constraint `RunsAndStops` allows a stop beside two runs. In `executor_faults` every
run is in slices, of which a run of one slice is a case. Two
decisions of one title are what the order of `applied_at` is about; two titles what a
stop between two moves is about. One fault is a crash or a refused write at any step.
`MaxListed` bounds the commands the Arr lists for a title: two let an old one stand
before a new one. `tasks` has one title, one decision, one run and one fault, since
each fairness condition multiplies the search.

`Restore`: three archives: one of another installation with its keys, one of this
installation without its key (as when `ROUTARR_SECRET_KEY` held it), one of the other
installation without it, in `restores` with no Arr's key sealed in its database, so that it is
staged though nothing here opens it; and three keys, this host's, the other's, and one a first start
makes. Three databases are the one in place and two staged, which lets an archive be
staged over another and two restores follow each other. Two crashes are one within
an apply and one within the start that resumes it. One word on the API key and one
rejected database suffice, as each decides a single comparison. `MCRestores` runs
two instances, each with variables of its own: the second has the archives without a
key alone, one of which may be rejected, and no word on the API key, which no place left
empty depends on.

`MCServices` takes `Titles` three times, each for a question of its own: two Arrs (the
instance pointed elsewhere and back), which it extends, and two folders (a move beside
reads) and two ids (an id handed to another title, a title under another id), which it
instantiates; the properties of `Titles` are the run's own and are checked of all three. Two
titles each, two seconds where seconds matter. `Proposals` has two rows and two runs, of
which a third would read and store like the second. `Routing` has two titles, two rule books
of conditions of every family of lists and languages, three folders on two volumes and one
mapping of categories, one change between proposal and apply. `Unattended` has three titles
of two instances with a cap of one, so that a cap leaves one out, and one change beside the
pass. `Pacing` runs three units of time past a burst of one token of two parts, at one or two
parts a unit, with less than one token owed when a caller comes (`MaxQueued`): both callers
may sleep, be late or be sent back in line, and either rate be stated at any moment. `Enrichment` runs over one day
with three works (a slice of two leaves one) and over two days with two.

`MCTasks`: three tasks for a lock (one holds, one waits, one hangs up); two deliveries of
one title and one place, so that the place is full, and two changes in the Arr; two events
and one retry; one chain beside a tick and an asker; two refusals of a job's row, one fewer
than its writes.

`MCKeeping`: three categories, one folder, one title and one instance, two rules, and the
drafts, bundles and configurations of `MCReferences`, which name categories that are
created, renamed or removed meanwhile; three changes by hand (`NamesExist` is a theorem for
any number). `Validation` judges drafts of two conditions and one exclusion, from every
family, over titles that tell every two of them apart; the comparisons are of two. Four
rules and four requests for `RuleOrder`, with a highest priority the fifth place
overtakes. `Sessions` four times: days of use, what ends a session, by key, by provider;
two requests of one browser, three asked, two sessions: one session more than a renewal
and an end need. `SignIn` twice: three
requests at places of two and one permit, then two requests over four units of time
for the doubling. Two archives and two places a copy folder may show, with two archives of
another database, one of which has the name of one of this.

`MCArchives`: three archives of two kinds, two passphrases and one crash, in one of two
regimes: deletions by hand and two counts to prune by, or conversions that fail.

The bounds on counters (`Max...`) appear in guards and nothing else reads them. Symmetry
(decisions, folders, titles of one Arr, ids, passphrases, places) is used in the runs of
safety and action properties only. The theorems hold for every value of the constants.
Runs do not check deadlock: with its counters spent a model may stop, and a person may
stop asking.

### Fairness

`Executor`'s `FairSpec`, which `tasks` states for its instance: a run and a sync under way
go on (tokio polls a ready task), syncs keep being started (the scheduler's sweep, every
interval), an Arr ends its commands, and, by strong fairness, what each new sync tries
again succeeds some time: the Arr answers (`SyncRead`), SQLite takes the transaction
(`SyncWrite`, `SettleRecord`) and the lock is met free (`SettleLock`). The last is
justified for runs that end: a followed move is given up after `UNREAD_ROUNDS`
or `CEILING_ROUNDS` of its wait (`follow.rs` 40-46, `FollowStopped`).
Nothing is asked of the operator, of the user of the Arr, or of a PUT on its way.

The other tasks ask for less: each delivery, sync and removal under way goes on, a wait
for a lock ending at its budget (`Deliveries`); a task of an event goes on and an attempt
ends, as its request has a timeout (`Notifications`); the tick comes back, a chain goes
on and an asked simulation answers (`AfterSync`); the task that writes an outcome goes
on, and a start buries what it finds running (`JobRows`). No Arr, receiver, source or
person is asked to answer well.

In `Restore`, `FairSpec` asks that a start, a staging and a discard under way go on,
and that a server that is gone is started again (its supervisor's or container's
restart policy). The last is strong fairness on `SweepLeftovers`, since commands run
meanwhile disable it again and again. Nothing is asked of the operator, and two
crashes at most are met. `FairRestores` of `MCRestores` states the same of its second
instance, the one whose liveness is asked.

## Findings

1. **A settle rewrites a decision its run already settled**
   (`executor_stale_settle`). `settle_requested` reads the requested rows, then
   tries the lock (`follow.rs` 210 and 225), and does not read them again. A run
   that records its move and ends in between leaves a settle with a stale row;
   `record_confirmed` checks the status, `record_failure` does not.
2. **A settle judges a move by another move's command**
   (`executor_other_command`). The settle takes the title's latest command
   whatever its destination (`follow.rs` 258); the run that follows its own move
   asks for its destination (`follow.rs` 107). A move without files has no
   command of its own: left `requested` in its target, it is failed for an earlier
   command that failed and is still listed.

3. **A restore brings back an API key withdrawn after its staging**
   (`restore_key_back`). Whether the archive's API key may come back is decided when
   it is staged (`backup/mod.rs` 857 and 884). The start that applies it renames the key over
   the one in place (1745-1752) and reads no withdrawal, though the comment at 883
   and `SECURITY.md` 305 promise that none comes back. Restores staged after the owner's
   word keep to it (`NoKeyWithdrawnBefore`).
4. **A key left by a killed `routarr restore` vouches for the next archive**
   (`restore_leftover_key`). `opened_by_the_next_start` takes any staging key that
   exists (`backup/mod.rs` 1496), where its doc names the one the archive brings
   back. Only a start of the server sweeps it. The archive is then pending beside a
   key that does not open it, and the start that applies it is refused.
5. **A rejected restore may leave the database without its key**
   (`restore_rejected`). A start that died after `set_the_key_aside`, then one that
   rejects the set, by another build for instance (`backup/mod.rs` 1554): "the
   current database kept" (1719), but its key is under `.pre-restore`, nothing puts it
   back, and the start is refused.

### What does not hold

Stated in their modules and refuted by TLC, in no run of the list: each is what a comment
or a test suggests, met as these modules were checked. The counterexamples need the
interleaving named.

- `Restore!NeverRefused` of an archive in none of `ArrSealed` (`backup/mod.rs` 1485: "Refuse
  a restore whose credentials the next start could not open"): a staging tries the key on one
  API key of `instances` (1517), the start on a setting and a webhook's secret too (`main.rs`
  113-128). An archive whose sealed values are all of the latter is staged under any key,
  and the start that applies it is refused; the database it replaced stays set aside with what
  opens it (`KeptOpens`).
- `Titles!NewerReadStands`: of two reads, the later one's columns need not stay: the
  first to read may be the last to write. A path recorded by a move is protected, the
  other columns wait for the next sync (`QuietSyncHeals`).
- `Proposals!LaterReadStands` and `Proposals!OfferedToItsTitle` (`routing.rs` 117-119 and
  1552-1553): an order is given before the snapshot is read, so a run may keep the larger
  order with the older read; and a row handed to another title between load and store
  is offered the verdict of the former one, because `store_run` asks only whether a row of
  that id is there (`routing.rs` 1591). `Titles!WhatHangsIsOfTheTitle` without `kept` fails
  for the same: the run that applies such a proposal moves the new title, and records it.
- `Deliveries!WaitingOneActsForAll` (`api/webhook.rs` 235-236): a deletion answered by a
  waiting delivery of another event is left to the next sync.
- `References!ScopesExist`: a scope is judged outside the write's turn and not again; an
  instance removed in between stays in it. `References!EmptiedOnlyByHand`
  (`api/rules.rs` 497): a replacing bundle is judged before its turn, so two of them, or
  one and a removal, may leave no rule.
- `Enrichment!CountCoversTheDay` (`quota.rs` 52-59): requests reserved yesterday and given
  back after midnight are taken off a count another pass opened today.
- `Pacing!DifferentInstants` (`rate_limit.rs` 5-6): a caller past its deadline gives its turn
  back under the lock taken a second time (85). One that took a token in between keeps the
  instant behind that turn, and the next to come is told the same; so the pace is not kept to
  the token either. And a rate the source states higher than the last (`follow`, 144-146) is
  taken up at once, while the sleepers keep the instants of the slower one: whoever comes next is
  told an instant among theirs, or the very one.
- `Validation!RefusedNeverFires` without `NoBlank`: two lists that share nothing but a
  blank value are taken for overlapping (`validation.rs` `overlaps` compares the values as
  they stand, where `folded_values` drops blanks), so a rule that may fire is refused.
- `RuleOrder!KeepsOrder` for rules that meet at `MAX_PRIORITY`: once there they are tried
  by their names, so making room may swap them.
- `Sessions!NewCookieStays`: the answer of a request that renewed the former session, on
  its way when a new password ends it, puts the former cookie over the new one; the next
  request is then signed out.
- `Copies!AlwaysRecorded` (`copy.rs` 230-231: "recorded whatever its outcome"): a write the
  database refuses is only logged (240-251), and the lock goes back with the marker or copies
  unrecorded. `Copies!TheirsStay`: names are to the second (`backup/mod.rs` 344), and the removal
  behind a deletion asks for neither the marker nor the record (`copy.rs` 514-527), nor does a
  copy recorded once ask whose file goes by its name now. `Copies!StaysOutUnmarked`: the marker
  is looked for once, and a share swapped after it is written to.
- `Archives!BroughtToTheLast`: two passphrases saved while a conversion waits may leave
  archives under the first. `Archives!NewestKeptWhenPruned`: saving a count prunes
  without the backup lock, and counts both files of an archive in conversion: of one that is
  opened meanwhile, the file in the clear goes after the sealed one did.
  `Archives!DeletedStays`: an archive deleted by hand while it is converted comes back
  under its new name.

## Proofs

| Module | Of | Theorems that matter most |
|---|---|---|
| `ExecutorProofs` | `Executor` | `WrittenAhead`, `SettledByTheRun`, `StandingProposals`, `StopsLetOneOut`, `RevertsTheLatest`, `ReportsWhatWasSeen`, `RowsFollow`; `ImplementsLifecycle` |
| `RestoreProofs` | `Restore` | `OneArchive`, `LastServedStays`, `OwnLog`, `SetAsideOpens`, `NoneRefused`, `NoneBroughtBack` |
| `TitlesProofs` | `Titles`, `Proposals` | `HangsByTitle`, `MovedPathsStand`, `QuietSyncsHeal`; `OfferedAsShown`, `ReadIsStored` |
| `JobLocksProofs` | `JobLocks`, `Unattended`, `Deliveries` | `OneHolder`, `RegistryKeepsTurns`; `CapKept`, `AskedAtTheTurn`; `RowsAreTheArrs` |
| `ReferencesProofs` | `References`, `Enrichment`, `Routing`, `Validation` | `NamesAlwaysExist`; `EachWorkIsCounted`; `GoesAsProposed`; `RefusesWhatNeverFires` |
| `ArchivesProofs` | `Archives`, `Copies` | `NewestStays`, `StartsSeal`; `CopiesRecorded`, `FoldersKept` |
| `SignInProofs` | `SignIn`, `Pacing` | `PlacesComeBack`, `WaitsOnlyGrow`; `KeepsThePace`, `NoneDuringAHold`, `TurnsAreTheirOwn` |
| `SessionsProofs` | `Sessions` | `NoneComesBack`, `AllLast` |

A module that proves about several components extends the first and instantiates the others,
under variables of its own; its theorems about those are of the form
`Assumed => (X!Spec => ...)`. What a run checks under a property's name is the property of
the same meaning of the component, at the instance the `MC` module gives it; the theorem is
about the component.

### Executor

`ExecutorProofs` proves `Spec => []Inv` and from it, as theorems of their own,
`TypeOK`, `WriteAhead`, `InHandIsRequested` and `OneStandingProposal`, for any
sets of instances, titles, folders and decisions and any bounds. The only
assumption is `ConstantsAssumption` of `Executor`: each title is held by one
instance, `None` is none of the values, the limits are numbers.

`TypeOK` comes first, one lemma per action. The other
three are not: a PUT on its way must belong to a decision that no step takes
back to `pending`, and a move in hand must be safe from a settle. `Inv` adds

- `DecisionsKnown`: an id given belongs to a title and folders;
- `MovesKnown`: a move in hand, queued or left to a settle names a decision given;
- `LockHeld`: the parts work only while the run holds the lock, one settle at
  most works while a settle holds it, and no two parts have one decision in hand.

The argument: a decision's row only *advances* (`Grows`, `Advances`): once given
it keeps its title, and once sent it never goes back to pending. So `WriteAhead` is
kept by every write. The moves a run has in hand belong to different
instances, hence to different decisions; a settle writes only while it holds the
lock, when no move is in hand. So no write of another actor touches a move in
hand (`OtherInHand`), and its own part settles it only as it lets go of it
(`GoesOn`). One proposal stands per title because `store_run` supersedes before it
stores, in one transaction, and no other step makes a proposal.

Its second half proves the other four invariants the runs check, from `Inv` and from what
each of them needs besides:

- `StopsBeforeNextMove`, from `StopsInv`: while a stop is asked, a part that has checked a
  move has let none out yet.
- `RevertLatest`, from `QueueOfRun` (what is left to try is of the run that holds the lock)
  and `LatestInv`: for two moves of one title, the later of them is neither in the revert
  with the earlier nor in place. It is loaded so; it stays so because nothing puts a later
  move in place while the run holds the lock: a settle works under the lock, and a
  simulation only proposes.
- `SettledAsSeen`, from `LoadedInv` (what is left to try is as it was loaded: pending, or in
  place for a revert) and `SeenInv`, which says for each step of a part and of a settle
  what the Arr was seen to hold by then: a part that took its move over, or read the title
  in its target, has seen it there since the request; what a settle found is remembered in
  `held`, and counts only if the decision is still requested when it writes.
- `RowFollowsArr`, from those and `RowInv`: for each title, the row names where the Arr
  holds it or a requested move explains the difference (`TitleRow`), each step of a part and
  of a sync says what it knows of the Arr (`PartRow`, `SyncTitle`), and what a sync has read
  is either what the Arr still holds or will not be written, because the title is among
  those a move was recorded on since (`kept`) or is moving.

Each has its step lemmas (`StopsKept`, `LatestKept`, `LoadedKept`, `SeenKept`,
`RowsKeptByParts` and `RowsKeptBySyncs`), one case per action; `Stays`, `Ended` and
`Proposed` say what a write of another actor leaves of a decision. Every invariant was first
checked on the runs' instances.

Its last part proves `ImplementsLifecycle`: the initial states map to the initial state of
`MoveLifecycle`, and every step to one of its steps or to none, for every value of the
constants. Three facts are needed beside `Inv`:

- `LoadedInv` and `SeenInv`: what a part sends is a proposal, or a move made, as it was
  loaded, and a proposal was never reverted, so that its record makes it sent and not
  recalled;
- `FailedAsLeft`: what a part is about to record as failed is as it was loaded, a proposal
  to give up, or as it sent it, a move to settle;
- `SettlesSent`: what a settle has in hand was sent before, however early it was read, and
  is its own instance's; what it would put back in place did not fail in the meantime. This
  is why a stale settle turns one end into another, and never a proposal into an end.

The two form `LifeInv`, kept by `LifeKept`, which has one case per action.

### Restore

`RestoreProofs` proves `Spec => []IInv` and from it `TypeOK`,
`PendingOfOneArchive` and `NoteNamesPending`, for any archives, keys and bounds, from
`ConstantsAssumption` of `Restore` alone (each archive's key is a key, `None` and
`Here` are apart from the archives, the limits are numbers).

`PendingOfOneArchive` is not inductive: a database may be pended only beside what its own
staging pended, after everything earlier went. `IInv` adds

- `TaskOfArchive`: a staging under way is of one of `Archives`;
- `TaskInProcess`: a task lives in a server that is up or in a command;
- `DiscardUnderWay`: files are discarded for a staging, a withdrawal or a start that
  rejects them, and nothing else;
- `DatabaseFirst`: what is discarded loses its database first, and its API key last;
- `ExtractedOfTask`: what a staging extracted is its archive's, until it is renamed;
- `PendedOfTask`: what a staging has pended is its archive's, on a place that was
  empty, and the note names it.

The argument: a pending database appears in one step, `PendDatabase`, the last of a
staging, and `PendedOfTask` then gives the three facts; it goes in one step of a
discard or of an apply. Between, only an apply moves the keys, from pending to
place, which is why the key is asked to be "pending or in place"; no key in place is
replaced meanwhile, since an apply sets the key aside only when another is pending. The
proof has one lemma per group of actions; `Invariance` combines them.

The rest is proved where the server alone restores (`ASSUME ~Offline`), as `restores`
checks it: with `routarr restore` besides, they fail as said under *Runs*. `LastServedStays`
needs no more. `OwnLog`, `SetAsideOpens`, `NoneRefused` and `NoneBroughtBack` assume
besides `MaxRejects = 0`, that no start rejects a pending database: one that does after
another died leaves the database without its key, which is finding 5. Their invariant,
`Holds`, says where every file is:

- `DatabasePlaced`: at each step of a start, whether a database is in place, pending or set
  aside, and that the one last served is one of the first and the last;
- `RejectsNone`: what a start rejects are keys alone, and no database;
- `LogPlaced`: the log in place is of the database in place, or of the one the start has
  just set aside; the log set aside is of the database set aside;
- `StagedByTask`: what lies extracted is the work of the task under way, whose files go
  with it, so that no key is found there but the archive's own;
- `KeysPlaced`: the pending database, if the staging tried it, opens with the key pending
  beside it or, where there is none, with the one in place; the database in place and the one
  set aside with theirs. The one exception is a database in place the staging did not try: then
  nothing is pending and no server is up, so it is never the one set aside;
- `WordKept`: while the owner's last word is a withdrawal, the database in place records
  it, or the pending one when it was staged since; and no API key is pending with a
  database staged since the last word, unless none is in place and none was withdrawn.

The argument is the order of the renames. A start that finds an apply half done goes on
with it, and each step moves one file while the others say where it belongs: the key
goes aside before the database and comes back before it, the log follows its
database, and the note goes last. `PlacedKept`, `LogKept`, `StagedKept`, `KeysKept` and
`WordIsKept` take one case per action.

Only model-checked: `PlaceFilled`, a liveness property.

### JobLocks

`JobLocksProofs` proves `OneHolder` (one holder at most, none waits while the lock is free,
a task stands in its line once) and `RegistryKeepsTurns`: every step of `JobLocks` is a
step of `Turns` or none, under the mapping that makes the line of those queued and those
given the permit. The only assumption is that `None` is no task. The inductive invariant
is `TypeOK`, `OnePermit` (the permit is free, given or held: one of them, once),
`WaitersWait` (nobody queues while it is free) and `OneLine` (those ahead of a waiter are
ordered like the line). `OnePermit` alone is not inductive: a permit given back goes to
the queue's head, which must then be nobody's elsewhere.

### References

`ReferencesProofs` proves `NamesAlwaysExist`, that is `NamesExist`, for any names, instances,
folders, titles, drafts, bundles and bounds. The inductive invariant is `RestNamed`,
`RulesNamed`, `TablesNamed` (the parts of `NamesExist`, with the tables' types) and
`TemplateMakes`: a template in hand makes every category its rules name, so that they
exist when it is written whatever was renamed since it was judged. Every other request
looks its names up again in the transaction that writes (`WriteRule` and its like), which
is why nothing has to be said of it between judging and writing. One lemma stands for
each group of writers; `Invariance` combines them.

### Sessions

`SessionsProofs` proves of `Sessions`, for any browsers, requests, modes, lists and bounds,
`NoneComesBack` (`EndedStaysEnded` and `EndsInTime`) and `AllLast` (`LastsAsSaid`): what the
run's properties of those names say of its four instances. The assumption is `Delays`: the
slack of a renewal is within `SESSION_DAYS`, the last hour within each lifetime.

None of them is inductive. `Inv` is `ForceTyped` (the types of what is in force), `Table` and
`UnderWay`. `Table` says of each row that its id is its own and among none that ended,
that a row of the mode of the key is bound to the key its holder showed, and that its
expiry lies between what its last use promises (`Spared`) and what it allows. `UnderWay`
says which steps a request may be at for what it asks and in which mode: only so is it
known that what a step opens or renews is of the mode in force. A renewal writes a row only
if the row is still there, which is why one that was ended does not come back.
`AllLast` adds `Carried`: each sign-in begun has a later number and no earlier expiry than
those its browser sent when it asked for it; clearing those that expire first then clears
those begun first.

### SignIn

`SignInProofs` proves `PlacesComeBack` (`PlacesAreHeld`) and `WaitsOnlyGrow` (`WaitsGrow`),
for any requests, addresses and limits, from `SomeOfEach` and `NoneIsNothing` (the limits
are positive and finite, `Allowed` more than 1: with one failure allowed the first wait
after the window is no longer than the one before). The invariant is `Requested` (types),
`Places` (places in flight, permits and the shares of each address are the numbers of
requests at the phases that hold them) and `Waits` (a wait belongs to an address that
failed as often as is allowed, and runs from its last failure). What is counted is the
cardinality of a set of requests, and a step moves one request from one set to
another: `OneApart` says by how much the count changes, so that no induction is needed.

### Titles

`TitlesProofs` proves `HangsByTitle` (`RowsKeepTheirTitles`), `MovedPathsStand`
(`MovedPathStands`) and `QuietSyncsHeal` (`QuietSyncHeals`), for any Arrs, ids, titles,
folders and bounds, from `NoneIsNothing` (`None` is no title, row, item, proposal, simulation
or move) and
`BoundsAreNumbers`. None is inductive. `Inv` is the types and

- `Hung`: what hangs on an id is of the title of its row, proposals and moves if they are
  `kept`, a pin that stands is on a row or waits under its title; and so are the move on its
  way, while its history is to be attached, and the simulation that has read and not stored;
- `InOrder`: no timestamp of a row or a read is ahead of the clock, no move was recorded
  after the last change, and a row a move was recorded on since a read began has a
  `moved_at` no earlier than that read, unless it was written anew;
- `Fresh`: what was read or written in a later second than the last change is what the
  Arr the instance is pointed at holds.

A transaction is three operators in a row, `Retire`, `Upsert`, `Restore`, and sometimes a
second `Retire`. Each has a lemma that says what it does to each row and one that says
it keeps `Sound` and every pin (`RetireKeeps`, `UpsertKeeps`, `RestoreKeeps`);
`CommitDoes` composes them and says of each row that it was left, removed, written anew
or brought up to date. Then `MovedPathStands` follows from `InOrder`, and `QuietSyncHeals`
from `Fresh`: a row the sync finds newer than itself was written since the last change, so
it is right as it stands, and one it neither lists nor removes does not exist.

### Proposals

`TitlesProofs` proves `OfferedAsShown` (`OneProposalOfTheRunShown`) and `ReadIsStored`
(`RunAloneIsStored`), for any rows, runs and bounds, from `OrdersAreNumbers` and
`NoneIsNoDecision`. `ProposalsInv` says that the orders given to runs under way are apart and
no greater than `lastOrder` (`OrdersGiven`), that no stored decision has the order of a run
that has loaded (`OwnOrder`), and that what such a run read, and nobody stored since, is of a
smaller order (`AboveWhatItRead`): `newer` then lets the run store it. The last rests on
`above_stored` taking an order above the largest stored, after a clock set back or a restart
too. That there is a largest one is no induction: `OrdersBounded` is part of the invariant, and
of the numbers that bound the orders one is the least (`WFMin` of the order of the naturals).

### Archives

`ArchivesProofs` proves `NewestStays` (`NewestKept`) and `StartsSeal` (`SealedAfterStart`),
for any archives, kinds, passphrases, counts and bounds, from `SomeOfEach` (the bounds are
numbers, a count is positive) and `NoneIsNothing` (`None` is no backup and no conversion).
Neither is inductive. `IInv` adds

- `ListedTaken`: what is listed was taken;
- `HandsFull`: a backup that has no name yet has a number left to give, a conversion between
  two of its steps has a name in hand;
- `TargetThere`: when a conversion is about to remove a file, the one that replaces it
  is there, or its archive was deleted, listed by two files as past a saved count or superseded
  by a newer one of its kind;
- `PastGoes`, beside `IInv`: what a save of the count is about to remove has a newer one of its
  kind, or was listed by two files;
- `StartSeals`: of a start that holds a passphrase, while nothing was saved and nothing
  failed, the only conversion that waits or works is its own, and every archive in the clear
  is among the names that one has left or in its hands.

A conversion writes the new file, then removes the old one, with prunes and deletions between
the two: `TargetThere` says all they may have done to the new one. A prune removes files
beyond the count, counted among those listed of one kind, so what it removes has a newer one
beside it when it is listed (`PastIsNewer`), and for good (`PastStays`): of `Cardinality` no more
is needed than that an empty set has none.

### Copies

`ArchivesProofs` proves besides `CopiesRecorded` (`RecordedWithTheLock`) and `FoldersKept`
(`KeepsToItsFolder`), for any archives, places and limits, from `SomeOfEach` and
`NoneIsNothing` of `Copies`. A run and its thread come and go together (`Watching`): what
answers after the run gave up is heard by nobody, so what is recorded was seen by the run that
holds the lock, and unless a write was refused it is on record before the run forgets what is gone. A pass begun with a folder recorded works in one that has its marker until
another is mounted under it (`InAMarkedFolder`). Whatever this database copies, records or has
to forget goes by the name of an archive it took (`Numbered`), so nothing goes by another name.

### Unattended

`JobLocksProofs` proves `CapKept` (`MovedWithinCap`) and `AskedAtTheTurn`
(`MovedAsAskedAtTheTurn`), for any titles, instances, passes and caps, from `SomeMove`,
`EachOfOneInstance` and `FiniteLibrary`. What a pass has kept had no file when it got its turn
(`KeptHadNone`, with `FiledThen`: no file goes in the model, as none goes in the code); a pass
that found the switch off ends there (`OffStops`); and what it chose with what it kept stays
within the cap of each instance from the choice on (`ChosenWithinCap`), because what is chosen
again is a part of what was chosen.

### Deliveries

`JobLocksProofs` proves `RowsAreTheArrs` (`QuietRowsAreTheArrs`), for any titles, deliveries,
places and bounds, from `NoneHoldsNothing`. A title the Arr holds and no event of which was
lost has its row or a delivery that will write it; a row nothing explains has one that will
take it away (`RowsSeenTo`). That is not inductive: a delivery that has read may write what
is no more, and a sync may write a list of before. `ReadsSeenTo` says that behind each stale
read comes a delivery that has not read yet, `ListSeenTo` the same of the list of a sync, whose
`fresh` rows are those written since it began; `OneHooked` (one delivery past the wait for the
lock) makes what comes behind come after.

### Enrichment

`ReferencesProofs` proves `EachWorkIsCounted` (`PassesAreAccounted`), for any works, slices
and limits, from `SomeOfEach` and `FiniteLibrary`. Each work a pass has in hand is at one place
(`OnePlace`): left for a later slice, in the queue, out, or a refusal held back; so the
counts of the report and what is in hand make up the works considered (`Balanced`), by the
cardinality of disjoint sets. `AsksOfEach` says a search is of a work not identified and a fetch
of one that is, without which an answer could be counted twice; `MissesAreSaid` that a miss is
written only once the source answered, or at the end by one that is not broken.

### Routing

`ReferencesProofs` proves `GoesAsProposed` (`GoesWhereProposed`), for any library, rule books,
answers, folders, volumes and mappings, from `RoutingAssumed` (the named assumptions of
`Routing`). While nothing but the free space and the other titles changed (`asProposed`: no new
mapping, rule or exception), the proposal stands
on a folder of the title's category, and the title is in none (`ProposedElsewhere`); a pass
that decides a move decides such a one (`DecidedElsewhere`). The apply then finds the folder it
was proposed, whichever is roomiest by then. That a roomiest folder exists is a lemma: of
finitely many, the one that fewest have more room than.

### Validation

`ReferencesProofs` proves `RefusesWhatNeverFires` (`RefusedNeverFires` of the rule in the
editor) and `RefusesItsOwnExclusion`, for any conditions, titles and bounds, from
`ValidationAssumed`: what a title answers has the type its condition reads, and nothing is
answered of a title no source knows (`AnsweredIsKnown`, `OperandsOfKind`, `AnswersOfKind`,
`LanguageIsAnswered`). `ContradictionsApart` takes the kinds of `contradicts` one by one and
shows that two such conditions never hold of one title; `VetoedWhereItHolds` takes those of
`vetoes_all` and shows that the exclusion holds wherever the condition does. No list may hold a
blank (`NoBlank`), which is where the code refuses a rule that may fire.

### Pacing

`SignInProofs` proves `KeepsThePace` (`PaceKept`), `NoneDuringAHold` (`NoneOutDuringAHold`) and
`TurnsAreTheirOwn` (`DifferentInstants`), for any callers, burst, rates, delays, deadlines and
bounds, from `PacingAssumed` (the burst, the holds and the rates are positive, no rate gives back
more than a token per unit, times are numbers). The pace and the instants are kept as long as no
token is taken while another is about to be given back, which the code does under a lock taken a
second time, and the rate is not raised while requests are queued ahead; else they are not (*What
does not hold*). Nothing else is asked: callers may wake late, hang up, and be told another rate
while the bucket is full.

`Balance` is what the bucket holds, the token on its way back with it. `Paid` says that the turns
given from an instant on are paid for: up to the last refill by the burst and what came back since
that instant, past it by what is owed. `Owes` says that the last instant given, unless it is
over, is the one at which what is owed will be back, so that the next turn is a later one; both
are needed, since a hold moves the refill past instants already given. `MovesOn` keeps them
through refills and holds, `Retuned` through another rate (a faster one only with nothing owed),
`TurnTold` through a turn, each from a few facts about products and about `Wait` (`WaitIs`).
`HoldSeen` says that a hold that is not over is the last refill, from which nobody goes out
before it ends.

### Only model-checked

- Liveness: `RequestedIsSettled`, `PlaceFilled`, `DeliveryEnds`, `EveryEventEnds`,
  `EverySyncFollowed`, `JobRowEnds`. The prover reaches neither liveness under fairness nor
  `ENABLED`.
- Of `RoutedAsSaid`, `ForecastHolds`: what a volume is sent is a sum over its folders, by a
  fold, of which an induction over the set would have to be proved.
- `OrderKept`: what `RuleOrder` makes of a list of rules is by folds over sequences, again
  an induction over data.
- Of `JudgedRight`, that a condition beside its negation is refused: which conditions are each
  other's negation depends on the titles there are.

## Not modelled

- Application keys: a row each, checked in one statement. Maintenance: purges by age. Of
  the sessions, the first account, a password and a key given by the environment, and what
  a provider's answer says.
- The tests of rules as jobs of their own, and their stored results, which may name a
  category renamed since; the refresh of one title; the categories a start converges; of the
  validation of a rule, the bounds on names, lengths, numbers and votes, and the warnings.
- The shapes of what the sources answer and how they are read (`services/metadata.rs`,
  `integrations/`), the folding of spellings, an unknown work searched when it is asked
  alone.
- In `Titles`, more than two ids, so that the removal held back past `HELD_PAST` (10)
  never happens. In `Routing`, two volumes whose free space is equal to the byte, which
  the code takes for one. In `References`, bundles of version 1 with rules switched off,
  and instances a configuration creates. In `SignIn`, the hashing itself. In `Archives`,
  the gap kept between archives taken by a key, and the cryptography.
- In `Routing`, a title moves only by its proposal, so that none is dropped for having
  moved since (`load.rs`, 180-191): that is `Executor`'s. In `Copies`, a folder is looked
  at and marked in one step (`Look`), and the prune of the copies and the list that follows
  it are one step (`PruneCopies`); a folder is swapped before or after, not amid them.
- The database pool and its migrations, the configuration's parsing, the HTTP contract,
  health, localization, logging, the interface, the site: they hold none of the state
  above, or are taken as atomic by every model (SQLite's transactions).

## Plan

Nothing of the plan is left but what is listed above as not modelled. What could be
added with most to say: the tests of rules as jobs of their own beside the edits of those
rules; the migrations of the database beside a restore of an older archive.

## Checking

`tlc -workers 2 -config ExecutorFaults.cfg MCExecutor` runs one configuration, and so on for
the others, each `.cfg` with the `MC` module of its name's family (`Services` with
`MCServices`, `Tasks` with `MCTasks`, `Restores` with `MCRestores`); the longest
(`ExecutorFaults`, `ExecutorRows`, `Services`, `Keeping`) take two to three minutes. `tlapm ExecutorProofs.tla` checks the proofs of one module:
`ExecutorProofs` takes about ten minutes, `RestoreProofs`, `SessionsProofs` and
`TitlesProofs` less than two each, the others seconds.
